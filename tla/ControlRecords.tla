--------------------------- MODULE ControlRecords ---------------------------
(***************************************************************************)
(* The data of one host-control exchange: who takes part, what each rank   *)
(* hands in, and what a rank gets back.  Shared by the abstract            *)
(* specification Agreement and by HostControl, which implements it.        *)
(*                                                                         *)
(* A rank runs a program: a fixed list of calls, each naming a stage.  The *)
(* SPMD contract says that every rank runs the same program; Programs may  *)
(* also hold assignments that break the contract, so that the safety of    *)
(* the exchange can be stated for them too.                                *)
(***************************************************************************)
EXTENDS Integers, FiniteSets

CONSTANTS
    N,           \* processes in the job; one process never uses the store
    Calls,       \* exchanges in each rank's program
    Stage,       \* the (path, stage) names the exchanges are called with
    ReadStages,  \* the stages called through rank0_read, the others reduce
    Programs     \* the assignments of a program to every rank

Rank == 0 .. N-1
Peer == Rank \ {0}
Call == 0 .. Calls-1

ASSUME NAssumption == N \in Nat /\ N >= 2
ASSUME CallsAssumption == Calls \in Nat
ASSUME StageAssumption == ReadStages \subseteq Stage
ASSUME ProgramsAssumption == Programs \subseteq [Rank -> [Call -> Stage]]

\* sha256(path, stage) names the stage, the occurrence names the call.
Key == [stage : Stage, occ : Call]

NoReceipt == "none"
\* "misfit" is a record whose size differs from rank zero's.
Receipt == {"ok", "error", "misfit"}

Verdict == [kind : {"ok", "error", "root"}, rank : Rank]
NoVerdict == [kind |-> "none", rank |-> 0]
RootFailed == [kind |-> "root", rank |-> 0]

\* What rank r can bring to an exchange of stage s.  rank0_read asks the
\* peers for nothing; sizes are compared with rank zero's own.
Offers(r, s) ==
    IF s \in ReadStages
      THEN IF r = 0 THEN {"ok", "error"} ELSE {"ok"}
      ELSE IF r = 0 THEN {"ok", "error"} ELSE Receipt

Failing(records) == {r \in Rank : records[r] = "error"}

\* Mutant of FirstIoError: the last failure read wins.
FirstIoError_Last(records) ==
    IF Failing(records) = {}
      THEN [kind |-> "ok", rank |-> 0]
      ELSE [kind |-> "error",
            rank |-> CHOOSE r \in Failing(records) :
                        \A q \in Failing(records) : r >= q]

\* The lowest failing rank's receipt, or rank zero's success receipt.
FirstIoError(records) ==
    IF Failing(records) = {}
      THEN [kind |-> "ok", rank |-> 0]
      ELSE [kind |-> "error",
            rank |-> CHOOSE r \in Failing(records) :
                        \A q \in Failing(records) : r <= q]

\* Rank zero's envelope for the records it collected: a missing record or a
\* record of another size makes the whole reduction fail on every rank.
Envelope(records) ==
    IF \E r \in Rank : records[r] \in {NoReceipt, "misfit"}
      THEN RootFailed
      ELSE FirstIoError(records)

\* The envelope of rank0_read: rank zero's value, or rank zero's failure.
ReadEnvelope(outcome) ==
    [kind |-> IF outcome = "error" THEN "error" ELSE "ok", rank |-> 0]
=============================================================================
