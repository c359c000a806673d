----------------------------- MODULE AtomicPublish -----------------------------
(***************************************************************************)
(* common.collectives: rank0_atomic_file_transaction and its collective    *)
(* twin, which publish one file under its final name only after a private  *)
(* staging sibling was written, closed and validated.  One transaction     *)
(* after the other publishes to the same destination; a job may be killed  *)
(* at any point, and the next one publishes again.                         *)
(*                                                                         *)
(* The staging path of a transaction is private (O_EXCL and a random       *)
(* token), so it is named here by the transaction.  What a write leaves is *)
(* the set of ranks whose part is in the file; a writer may return without *)
(* an error and leave its part out, which is what validate_file is for.    *)
(***************************************************************************)
EXTENDS Meetings

Fault == {"preflight", "reserve", "write", "validate", "replace", "unlink"}

ASSUME FaultsAssumption == Faults \subseteq Fault

\* rank0_atomic_file_transaction without and with an all-rank preflight, and
\* collective_atomic_file_transaction.
Kind == {"rank0", "checked", "collective"}

\* preflight: validate on all ranks; verdict: the agreement on rank zero's work.
Meeting == {"preflight", "reserve", "write", "verdict"}

VARIABLES
    kind,        \* which of the two functions each transaction calls
    staging,     \* staging[s]: the parts in s's staging file, or Absent
    unremoved,   \* history: the transactions whose staging file could not be removed
    destination  \* the transaction whose file has the final name, and its parts

files == <<staging, unremoved, destination>>
vars == <<kind, files, ranks>>
within == <<kind, session, crashes>>

Absent == {N}    \* no rank's part
Before == 0      \* the file that was there before, if any

Place == {"checking", "reserving", "staging", "writing", "validating",
          "replacing", "cleaning"}

TypeOK ==
    /\ kind \in [Session -> Kind]
    /\ staging \in [Session -> {Absent} \cup SUBSET Rank]
    /\ unremoved \subseteq Session
    /\ destination \in [by : {Before} \cup Session, parts : SUBSET Rank]
    /\ RanksOK(Place, Meeting)

Init ==
    /\ kind \in [Session -> Kind]
    /\ staging = [s \in Session |-> Absent]
    /\ unremoved = {}
    /\ destination = [by |-> Before, parts |-> Rank]
    /\ RanksInit(Meeting)

-----------------------------------------------------------------------------

KindOf(r) == kind[session[r]]
Mine == staging[session[0]]

\* The ranks that write a part.
Writers(s) == IF kind[s] = "collective" THEN Rank ELSE {0}
WholeOf(s, parts) == parts = Writers(s)

Stage(parts) == staging' = [staging EXCEPT ![session[0]] = parts]

-----------------------------------------------------------------------------

\* Where a rank without a part in the reservation goes: the agreement on it, or
\* straight to the one on rank zero's whole transaction.
AfterReserve(s) == IF kind[s] = "collective" THEN "reserve" ELSE "verdict"

Start(r) ==
    /\ Begin(r)
    /\ LET s == session[r] + 1 IN
         IF kind[s] = "checked" THEN Goto(r, "checking") /\ UNCHANGED came
         ELSE IF r = 0 THEN Goto(r, "reserving") /\ UNCHANGED came
         ELSE ComeIn(s, r, AfterReserve(s), FALSE)
    /\ UNCHANGED <<kind, files, outcome, faults, crashes>>

Check(r) ==
    /\ pc[r] = "checking"
    /\ \E fails \in BOOLEAN :
         /\ MayFail("preflight", fails)
         /\ Come(r, "preflight", fails)
    /\ UNCHANGED <<files, within, error, outcome>>

Checked(r) ==
    /\ Met(r, "preflight")
    /\ IF Refused(r, "preflight") THEN End(r, "raised")
       ELSE IF r = 0 THEN Move(r, "reserving")
       ELSE Come(r, "verdict", FALSE) /\ UNCHANGED outcome
    /\ UNCHANGED <<files, within, error, faults>>

\* _reserve_staging_path: an empty private sibling.
Reserve ==
    /\ pc[0] = "reserving"
    /\ Stage({})
    /\ IF KindOf(0) = "collective" THEN Come(0, "reserve", FALSE)
       ELSE Goto(0, "staging") /\ UNCHANGED came
    /\ UNCHANGED <<unremoved, destination, within, error, outcome, faults>>

ReserveFails ==
    /\ pc[0] = "reserving"
    /\ MayFail("reserve", TRUE)
    /\ Come(0, AfterReserve(session[0]), TRUE)
    /\ UNCHANGED <<files, within, error, outcome>>

\* Rank zero alone writes the file: whole, in part without noticing, or not.
WriteAlone ==
    /\ pc[0] = "staging"
    /\ \E parts \in {{}, {0}} : \E fails \in BOOLEAN :
         /\ MayFail("write", fails)
         /\ Stage(parts)
         /\ error' = [error EXCEPT ![0] = fails]
         /\ Goto(0, IF fails THEN "cleaning" ELSE "validating")
    /\ UNCHANGED <<unremoved, destination, within, came, outcome>>

\* The two exchanges that tell every rank the name are one with the verdict.
Reserved(r) ==
    /\ Met(r, "reserve")
    /\ IF Refused(r, "reserve") THEN End(r, "raised") ELSE Move(r, "writing")
    /\ UNCHANGED <<files, within, error, faults>>

\* Every rank writes its part, and the ranks agree on how that went.
WritePart(r) ==
    /\ pc[r] = "writing"
    /\ \E parts \in {{}, {r}} : \E fails \in BOOLEAN :
         /\ MayFail("write", fails)
         /\ staging' = [staging EXCEPT ![session[r]] = @ \cup parts]
         /\ Come(r, "write", fails)
    /\ UNCHANGED <<unremoved, destination, within, error, outcome>>

\* Mutant of Written: rank zero goes on with its own part.
Written_Alone(r) ==
    /\ pc[r] = "write"
    /\ r # 0 => Complete(r, "write")
    /\ IF ~Refused(r, "write")
         THEN IF r = 0 THEN Move(r, "validating")
              ELSE Come(r, "verdict", FALSE) /\ UNCHANGED outcome
         ELSE IF r = 0 THEN Move(r, "cleaning") ELSE End(r, "raised")
    /\ UNCHANGED <<files, within, error, faults>>

\* On a failure rank zero removes the staging file, and every rank raises.
Written(r) ==
    /\ Met(r, "write")
    /\ IF ~Refused(r, "write")
         THEN IF r = 0 THEN Move(r, "validating")
              ELSE Come(r, "verdict", FALSE) /\ UNCHANGED outcome
         ELSE IF r = 0 THEN Move(r, "cleaning") ELSE End(r, "raised")
    /\ UNCHANGED <<files, within, error, faults>>

\* Mutant of Validate: the file is renamed first and validated there.
Validate_Late ==
    /\ pc[0] = "validating"
    /\ destination' = [by |-> session[0], parts |-> Mine]
    /\ Stage(Absent)
    /\ LET refuse == ~WholeOf(session[0], Mine) IN
         /\ error' = [error EXCEPT ![0] = refuse]
         /\ Come(0, "verdict", refuse)
    /\ UNCHANGED <<unremoved, within, outcome, faults>>

\* validate_file passes only a complete artifact.
Validate ==
    /\ pc[0] = "validating"
    /\ \E fails \in BOOLEAN :
         /\ MayFail("validate", fails)
         /\ LET refuse == fails \/ ~WholeOf(session[0], Mine) IN
              /\ error' = [error EXCEPT ![0] = refuse]
              /\ Move(0, IF refuse THEN "cleaning" ELSE "replacing")
    /\ UNCHANGED <<files, within>>

\* os.replace: the destination changes and the staging name goes in one step.
Replace ==
    /\ pc[0] = "replacing"
    /\ destination' = [by |-> session[0], parts |-> Mine]
    /\ Stage(Absent)
    /\ Come(0, "verdict", FALSE)
    /\ UNCHANGED <<unremoved, within, error, outcome, faults>>

ReplaceFails ==
    /\ pc[0] = "replacing"
    /\ MayFail("replace", TRUE)
    /\ error' = [error EXCEPT ![0] = TRUE]
    /\ Move(0, "cleaning")
    /\ UNCHANGED <<files, within>>

\* After a refused agreement rank zero raises; otherwise the failure is its own
\* and goes to the agreement of the transaction.
Cleaned ==
    IF error[0] THEN Come(0, "verdict", TRUE) /\ UNCHANGED outcome
    ELSE End(0, "raised")

\* Mutant of CleanUp: the staging file stays behind.
CleanUp_Leave ==
    /\ pc[0] = "cleaning"
    /\ Cleaned
    /\ UNCHANGED <<files, within, error, faults>>

\* _unlink_if_present ...
CleanUp ==
    /\ pc[0] = "cleaning"
    /\ Stage(Absent)
    /\ Cleaned
    /\ UNCHANGED <<unremoved, destination, within, error, faults>>

\* ... passes over a missing file only: another error of the removal is raised in
\* the place of the first, and the file stays.
CleanUpFails ==
    /\ pc[0] = "cleaning"
    /\ MayFail("unlink", TRUE)
    /\ unremoved' = unremoved \cup {session[0]}
    /\ Cleaned
    /\ UNCHANGED <<staging, destination, within, error>>

Decided(r) ==
    /\ Met(r, "verdict")
    /\ End(r, IF Refused(r, "verdict") THEN "raised" ELSE "ok")
    /\ UNCHANGED <<files, within, error, faults>>

Crash == Kill /\ UNCHANGED <<kind, files>>

-----------------------------------------------------------------------------

RootStep == Reserve \/ ReserveFails \/ WriteAlone \/ Validate \/ Replace
            \/ ReplaceFails \/ CleanUp \/ CleanUpFails
RankStep(r) == Start(r) \/ Check(r) \/ Checked(r) \/ Reserved(r) \/ WritePart(r)
               \/ Written(r) \/ Decided(r)

Next == RootStep \/ (\E r \in Rank : RankStep(r)) \/ Crash

Spec == Init /\ [][Next]_vars

\* A process that lives goes on.
FairSpec == Spec /\ WF_vars(RootStep) /\ \A r \in Rank : WF_vars(RankStep(r))
-----------------------------------------------------------------------------
(* Correctness *)

\* Whatever fails and whenever the job is killed, the file under the final name
\* is the one that was there before or the whole, validated one of some
\* transaction: no reader ever opens a torn artifact.
DestinationIsWhole ==
    destination.by # Before => WholeOf(destination.by, destination.parts)

\* The verdict is the truth about the file, on every rank: ok only when this
\* transaction's file has the name (until a later one begins), raised only when
\* it does not ("leaves any previous destination untouched").
VerdictIsTheFile ==
    \A s \in Session : \A r \in Rank :
        /\ outcome[s][r] = "raised" => destination.by # s
        /\ outcome[s][r] = "ok" /\ Latest(s) => destination.by = s

\* A transaction ends alike on every rank.
EndsAlike ==
    \A s \in Session : \A r, q \in Rank :
        outcome[s][r] = "ok" => outcome[s][q] # "raised"

\* A transaction that has ended on rank zero leaves no staging file: only a
\* killed job does, or a removal that failed; and what is left never becomes the
\* destination.
OnlyKillsLitter ==
    \A s \in Session :
        /\ outcome[s][0] # "none" => staging[s] = Absent \/ s \in unremoved
        /\ staging[s] # Absent => destination.by # s
        /\ s \in unremoved => \A r \in Rank : outcome[s][r] # "ok"

\* Every transaction ends on every rank.
EveryTransactionEnds == <>AllEnded

\* What holds of every transaction together: its verdict is the same for all and
\* true of the file, and it cleans up behind itself.
PublishInv == TypeOK /\ VerdictIsTheFile /\ EndsAlike /\ OnlyKillsLitter
=============================================================================
