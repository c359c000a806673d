------------------------------- MODULE Meetings -------------------------------
(***************************************************************************)
(* What the file protocols of LORRAX are made of: every rank of a job runs *)
(* the same sessions (one SlabIO handle, one file transaction) one after   *)
(* the other, and a session is a sequence of local steps and meetings.  A  *)
(* meeting is a point no rank leaves before every rank has come to it: a   *)
(* collective HDF5 call, a barrier, or one agree_io_error exchange (the    *)
(* protocol of HostControl), to which a rank brings the error it knows of  *)
(* and which then raises on every rank or on none.                         *)
(*                                                                         *)
(* A job may be killed between any two steps, and another one goes on.     *)
(***************************************************************************)
EXTENDS Integers, FiniteSets

CONSTANTS
    N,           \* ranks
    Sessions,    \* bound: sessions, one after the other
    Faults,      \* the calls that may fail on one rank
    MaxFaults,   \* bound: how many of them do
    MaxCrashes   \* bound: how many jobs are killed

ASSUME MeetingsAssumption ==
    /\ N \in Nat \ {0} /\ Sessions \in Nat
    /\ MaxFaults \in Nat /\ MaxCrashes \in Nat

Rank == 0 .. N-1
Session == 1 .. Sessions

VARIABLES
    session,     \* session[r]: the session rank r is in, or was in last
    pc,          \* where rank r is in it: a local step or a meeting
    error,       \* error[r]: rank r knows of a failure of its own
    came,        \* came[s][m][r]: whether r came to meeting m, and how
    outcome,     \* outcome[s][r]: how session s ended for rank r
    faults, crashes

ranks == <<session, pc, error, came, outcome, faults, crashes>>

RanksOK(places, meetings) ==
    /\ session \in [Rank -> 0 .. Sessions]
    /\ pc \in [Rank -> {"ended"} \cup places \cup meetings]
    /\ error \in [Rank -> BOOLEAN]
    /\ came \in [Session -> [meetings -> [Rank -> {"no", "well", "failed"}]]]
    /\ outcome \in [Session -> [Rank -> {"none", "ok", "raised"}]]
    /\ faults \in 0 .. MaxFaults /\ crashes \in 0 .. MaxCrashes

RanksInit(meetings) ==
    /\ session = [r \in Rank |-> 0]
    /\ pc = [r \in Rank |-> "ended"]
    /\ error = [r \in Rank |-> FALSE]
    /\ came = [s \in Session |-> [m \in meetings |-> [r \in Rank |-> "no"]]]
    /\ outcome = [s \in Session |-> [r \in Rank |-> "none"]]
    /\ faults = 0 /\ crashes = 0

-----------------------------------------------------------------------------

Goto(r, label) == pc' = [pc EXCEPT ![r] = label]

At(r, m) == came[session[r]][m]
Complete(r, m) == \A q \in Rank : At(r, m)[q] # "no"
Refused(r, m) == \E q \in Rank : At(r, m)[q] = "failed"

\* Rank r is in meeting m, and everybody has come.
Met(r, m) == pc[r] = m /\ Complete(r, m)

\* Rank r comes to meeting m of session s.
ComeIn(s, r, m, failed) ==
    /\ came' = [came EXCEPT ![s][m][r] = IF failed THEN "failed" ELSE "well"]
    /\ Goto(r, m)
Come(r, m, failed) == ComeIn(session[r], r, m, failed)

Move(r, label) == Goto(r, label) /\ UNCHANGED <<came, outcome>>

End(r, how) ==
    /\ outcome' = [outcome EXCEPT ![session[r]][r] = how]
    /\ Goto(r, "ended")
    /\ UNCHANGED came

\* Call c fails on this rank, or does not.
MayFail(c, fails) ==
    /\ fails => c \in Faults /\ faults < MaxFaults
    /\ faults' = IF fails THEN faults + 1 ELSE faults

\* Rank r begins its next session.
Begin(r) ==
    /\ pc[r] = "ended"
    /\ session[r] < Sessions
    /\ session' = [session EXCEPT ![r] = @ + 1]
    /\ error' = [error EXCEPT ![r] = FALSE]

\* The job is killed; the next job's ranks go on after the last session begun.
Kill ==
    /\ crashes < MaxCrashes
    /\ \E r \in Rank : pc[r] # "ended"
    /\ crashes' = crashes + 1
    /\ \E s \in Session :
         /\ \A r \in Rank : session[r] <= s
         /\ \E r \in Rank : session[r] = s
         /\ session' = [r \in Rank |-> s]
    /\ pc' = [r \in Rank |-> "ended"]
    /\ UNCHANGED <<error, came, outcome, faults>>

AllEnded == \A r \in Rank : pc[r] = "ended" /\ session[r] = Sessions

\* No rank has begun a session after s.
Latest(s) == \A r \in Rank : session[r] <= s
=============================================================================
