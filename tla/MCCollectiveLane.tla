--------------------------- MODULE MCCollectiveLane ---------------------------
(***************************************************************************)
(* The lane and the dispatcher below it, for TLC.  CollectiveLane takes a  *)
(* drain as one step; AsyncDispatcher is that step in full, with the lock, *)
(* the condition variable and the queue.  They share no variable, so a     *)
(* behaviour is of one of the two, and the other stands still.             *)
(***************************************************************************)
EXTENDS CollectiveLane

CONSTANTS
    A, B,                                            \* the handles
    MaxSize, Tasks                                   \* of AsyncDispatcher

Do(op, slot) == [op |-> op, slot |-> slot]

\* Two handles whose writes interleave, each closed while the other is open.
TwoWriters == << Do("write", A), Do("write", B), Do("write", A),
                 Do("close", A), Do("close", B) >>
\* More writes than the queue takes, then a read of them.
BackPressure == << Do("write", A), Do("write", A), Do("write", A),
                   Do("independent", A), Do("read", A), Do("close", A) >>
\* Posted reads of two handles with a create and a write behind them.
PostedReads == << Do("read", A), Do("read", B), Do("create", A),
                  Do("independent", A), Do("close", B), Do("close", A) >>
\* A read after writes of its own handle and of another one; a write that an
\* error of the read skips.
ReadAfterWrite == << Do("independent", A), Do("independent", B), Do("read", A),
                     Do("write", A), Do("close", A), Do("close", B) >>

\* A handle closes over a posted read of another one.
ClosesOverReads == << Do("read", A), Do("read", B), Do("close", A), Do("close", B) >>

SomePrograms == {TwoWriters, BackPressure, PostedReads, ReadAfterWrite, ClosesOverReads}

VARIABLES
    machine,                                      \* "lane" or "dispatcher"
    inbox, pending, firstError, closed, caller, worker, task, submitted, outcome

Dispatcher == INSTANCE AsyncDispatcher WITH queue <- inbox, error <- firstError

ASSUME ProgramsAssumption == LaneAssumption
ASSUME QueueAssumption == Dispatcher!QueueAssumption

dispatcherVars == <<inbox, pending, firstError, closed, caller, worker, task,
                    submitted, outcome>>
all == <<vars, dispatcherVars, machine>>

MCInit == machine \in {"lane", "dispatcher"} /\ Init /\ Dispatcher!Init

OfLane(S) == machine = "lane" /\ S /\ UNCHANGED <<dispatcherVars, machine>>
OfDispatcher(S) == machine = "dispatcher" /\ S /\ UNCHANGED <<vars, machine>>

MCSpec ==
    /\ MCInit /\ [][OfLane(Next) \/ OfDispatcher(Dispatcher!Next)]_all
    /\ WF_all(OfDispatcher(Dispatcher!CallerStep))
    /\ WF_all(OfDispatcher(Dispatcher!WorkerStep))
    /\ \A r \in Rank : /\ WF_all(OfLane(MainStep(r)))
                       /\ WF_all(OfLane(WorkerStep(r)))
                       /\ WF_all(OfLane(NativeStep(r)))

-----------------------------------------------------------------------------
\* In the behaviours of the lane, every rank comes to the end of its program: no
\* two ranks ever wait in different collectives, whatever fails, unless one rank
\* has raised alone on a posted read.
LaneEnds == machine = "lane" => EveryProgramEnds

\* The properties of AsyncDispatcher, under their names.

QueueInv == Dispatcher!QueueInv
DrainSeesEverything == Dispatcher!DrainSeesEverything
EveryCallReturns == Dispatcher!EveryCallReturns
=============================================================================
