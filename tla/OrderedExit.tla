----------------------------- MODULE OrderedExit -----------------------------
(***************************************************************************)
(* runtime: how a driver ends on several ranks.  Every rank runs the same  *)
(* main: Work collective steps inside a RunSession, whose last call writes *)
(* the report of rank zero and meets the others (runtime/run_session.py).  *)
(* A main that ends well goes through finalize_process; whatever leaves it *)
(* otherwise ends the process at once, by the fail-fast hook or the        *)
(* ordered-exit hook, without meeting anybody.                             *)
(*                                                                         *)
(* The two barriers have a deadline (collectives.BARRIER_TIMEOUT_S): each  *)
(* may give up because a rank is gone, or because it is only late.         *)
(*                                                                         *)
(* External: the launcher, which ends every rank once one has ended with a *)
(* status other than zero, and a process dying of a signal.                *)
(***************************************************************************)
EXTENDS Integers, FiniteSets

CONSTANTS
    Rank, Root,
    Work,        \* collective steps of main before RunSession.complete
    Returns,     \* statuses main may return
    MaxFaults    \* bound: ranks that raise or die of their own

VARIABLES
    place,       \* where a rank is
    entered,     \* collective steps of main it has entered
    rc,          \* the status it means to end with
    status,      \* the status it has ended with
    report,      \* the report of rank zero
    broken,      \* the barriers that have given up
    faults

vars == <<place, entered, rc, status, report, broken, faults>>

InMain == {"main", "collective", "reported"}
Finalizing == {"effects", "barrier", "shutdown", "duties"}

Barriers == {"report_written", "finalize"}

TypeOK ==
    /\ place \in [Rank -> InMain \cup {"raised", "returned", "gone"} \cup Finalizing]
    /\ entered \in [Rank -> 0 .. Work + 1]
    /\ rc \in [Rank -> {0, 1}]
    /\ status \in [Rank -> {"none", "zero", "nonzero"}]
    /\ report \in {"open", "complete", "error"}
    /\ broken \subseteq Barriers
    /\ faults \in 0 .. MaxFaults

Init ==
    /\ place = [r \in Rank |-> "main"]
    /\ entered = [r \in Rank |-> 0]
    /\ rc = [r \in Rank |-> 0]
    /\ status = [r \in Rank |-> "none"]
    /\ report = "open"
    /\ broken = {}
    /\ faults = 0

Move(r, from, to) == place[r] = from /\ place' = [place EXCEPT ![r] = to]

-----------------------------------------------------------------------------
\* The body of main.

Enter(r) ==
    /\ entered[r] < Work
    /\ Move(r, "main", "collective")
    /\ entered' = [entered EXCEPT ![r] = @ + 1]
    /\ UNCHANGED <<rc, status, report, broken, faults>>

AllEntered(r) == \A q \in Rank : entered[q] >= entered[r]

Leave(r) ==
    /\ AllEntered(r)
    /\ Move(r, "collective", "main")
    /\ UNCHANGED <<entered, rc, status, report, broken, faults>>

\* RunSession writes one closing line (_closed).
Closing(r, line) ==
    report' = IF r = Root /\ report = "open" THEN line ELSE report

\* The body of the session raises on this rank alone: an exception, a refusal,
\* a SystemExit with a status.
Raise(r) ==
    /\ faults < MaxFaults
    /\ faults' = faults + 1
    /\ Move(r, "main", "raised")
    /\ Closing(r, "error")
    /\ UNCHANGED <<entered, rc, status, broken>>

\* Mutant of Complete: the report is finished and nobody waits.
Complete_Alone(r) ==
    /\ entered[r] = Work
    /\ Move(r, "main", "returned")
    /\ entered' = [entered EXCEPT ![r] = @ + 1]
    /\ Closing(r, "complete")
    /\ UNCHANGED <<rc, status, broken, faults>>

\* RunSession.complete: the artifacts are there; the report, then the barrier.
Complete(r) ==
    /\ entered[r] = Work
    /\ Move(r, "main", "reported")
    /\ entered' = [entered EXCEPT ![r] = @ + 1]
    /\ Closing(r, "complete")
    /\ UNCHANGED <<rc, status, broken, faults>>

Return(r) ==
    /\ AllEntered(r) /\ "report_written" \notin broken
    /\ Move(r, "reported", "returned")
    /\ \E s \in Returns : rc' = [rc EXCEPT ![r] = s]
    /\ UNCHANGED <<entered, status, report, broken, faults>>

\* A barrier gives up while somebody is missing: a peer has died, or the deadline
\* has passed before a slow one came.  It has then given up for all who are in it
\* and for all who come later.
GivesUp(b, allThere) ==
    /\ b \in broken \/ ~allThere
    /\ broken' = broken \cup {b}

ReportBarrierFails(r) ==
    /\ GivesUp("report_written", AllEntered(r))
    /\ Move(r, "reported", "raised")
    /\ Closing(r, "error")
    /\ UNCHANGED <<entered, rc, status, faults>>

-----------------------------------------------------------------------------
\* The end of the process.

End(r, s) ==
    /\ place' = [place EXCEPT ![r] = "gone"]
    /\ status' = [status EXCEPT ![r] = s]
    /\ UNCHANGED <<entered, rc, report, broken>>

\* Mutant of FailFast: the failure becomes a status and is finalized.
FailFast_Finalizes(r) ==
    /\ Move(r, "raised", "effects")
    /\ UNCHANGED <<entered, rc, status, report, broken, faults>>

\* An exception or a nonzero SystemExit: no teardown.
FailFast(r) == place[r] = "raised" /\ End(r, "nonzero") /\ UNCHANGED faults

\* finalize_process: the effects barrier, which may fail, ...
BeginFinalize(r) ==
    /\ Move(r, "returned", "effects")
    /\ UNCHANGED <<entered, rc, status, report, broken, faults>>

\* Mutant of Drain: the effects are drained and the service closed at once.
Drain_NoBarrier(r) ==
    /\ Move(r, "effects", "shutdown")
    /\ UNCHANGED <<entered, rc, status, report, broken, faults>>

Drain(r) ==
    /\ Move(r, "effects", "barrier")
    /\ UNCHANGED <<entered, rc, status, report, broken, faults>>

\* ... the barrier of the ranks, ...
AtBarrier(q) == place[q] \in {"barrier", "shutdown", "duties"} \/ status[q] = "zero"

AllAtBarrier == \A q \in Rank : AtBarrier(q)

FinalBarrier(r) ==
    /\ AllAtBarrier /\ "finalize" \notin broken
    /\ Move(r, "barrier", "shutdown")
    /\ UNCHANGED <<entered, rc, status, report, broken, faults>>

\* ... whose failure is printed and passed over, ...
FinalBarrierFails(r) ==
    /\ GivesUp("finalize", AllAtBarrier)
    /\ Move(r, "barrier", "shutdown")
    /\ UNCHANGED <<entered, rc, status, report, faults>>

\* ... the coordination service, which goes with rank zero's client, ...
Shutdown(r) ==
    /\ Move(r, "shutdown", "duties")
    /\ UNCHANGED <<entered, rc, status, report, broken, faults>>

\* ... and the exit hooks, before os._exit.
Duties(r) ==
    /\ place[r] = "duties"
    /\ End(r, IF rc[r] = 0 THEN "zero" ELSE "nonzero")
    /\ UNCHANGED faults

\* The process dies of a signal.
Die(r) ==
    /\ place[r] # "gone" /\ faults < MaxFaults
    /\ faults' = faults + 1
    /\ End(r, "nonzero")

\* The launcher ends the step.
Killed(r) ==
    /\ place[r] # "gone" /\ \E q \in Rank : status[q] = "nonzero"
    /\ End(r, "nonzero")
    /\ UNCHANGED faults

Step(r) ==
    \/ Enter(r) \/ Leave(r) \/ Complete(r) \/ Return(r) \/ FailFast(r)
    \/ BeginFinalize(r) \/ Drain(r) \/ FinalBarrier(r) \/ Shutdown(r) \/ Duties(r)
    \/ ReportBarrierFails(r) \/ FinalBarrierFails(r)

Next == \E r \in Rank : Step(r) \/ Raise(r) \/ Die(r) \/ Killed(r)

Spec == Init /\ [][Next]_vars

FairSpec == Spec /\ \A r \in Rank : WF_vars(Step(r)) /\ WF_vars(Killed(r))

-----------------------------------------------------------------------------
\* A failure on one rank is never hidden by the others' success: a rank that has
\* ended with zero says that the report was completed and that no rank failed in
\* main (one may have died after it).
ZeroMeansWhole ==
    \A r \in Rank : status[r] = "zero" =>
        /\ report = "complete"
        /\ \A q \in Rank : entered[q] = Work + 1 /\ place[q] # "raised"

\* Rank zero takes the coordination service down under a live peer that is still
\* in its report or its effects only after the final barrier has given up; and even
\* then every rank has come to the end of main.
NoPeerStranded ==
    (place[Root] = "duties" \/ status[Root] = "zero") =>
        /\ \A q \in Rank : entered[q] = Work + 1
        /\ \/ \A q \in Rank : place[q] \in {"barrier", "shutdown", "duties", "gone"}
           \/ "finalize" \in broken

\* All ranks leave complete together: none returns from main before all have
\* come to its barrier.
LeaveTogether ==
    \A r \in Rank : place[r] \in {"returned"} \cup Finalizing =>
        \A q \in Rank : entered[q] = Work + 1

\* Every job ends, whatever a rank does alone: nobody waits for a rank that will
\* not come.
JobEnds ==
    <>(\A r \in Rank : place[r] = "gone")

\* "a rank-local failure must not wait in a collective its peers will never
\* join" (ordered_exit.py): a status other than zero meets nobody.  It does not hold:
\* main may return one (README, "Divergences").
FailureMeetsNobody == \A r \in Rank : place[r] = "barrier" => rc[r] = 0

\* What a rank's exit says, together: zero means a whole job, and a rank is past
\* main only when all have come to its end.
ExitInv == TypeOK /\ ZeroMeansWhole /\ LeaveTogether
=============================================================================
