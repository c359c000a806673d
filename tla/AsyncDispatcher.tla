--------------------------- MODULE AsyncDispatcher ---------------------------
(***************************************************************************)
(* common.async_io.AsyncDispatcher: one worker thread draining a bounded   *)
(* queue of tasks for one caller thread (its only consumer, the collective *)
(* lane of SlabIO, submits and drains from the main thread).               *)
(*                                                                         *)
(* A step is what a thread does under the lock, or one operation of        *)
(* queue.Queue; nothing is atomic across two of them.  The caller chooses  *)
(* its next call freely: submit, drain or close, in any order.             *)
(***************************************************************************)
EXTENDS Integers, Sequences, FiniteSets

CONSTANTS
    MaxSize,     \* maxsize of the queue; SlabIO's lane takes 2
    Tasks        \* bound: the number of tasks ever submitted

\* What the constants are.
QueueAssumption == MaxSize \in Nat \ {0} /\ Tasks \in Nat

VARIABLES
    queue,       \* queue.Queue: task numbers, or Pill
    pending,     \* tasks submitted and not finished
    error,       \* the first failing task, or NoTask
    closed,
    caller,      \* where the caller is in its call
    worker,      \* where the worker is in _loop
    task,        \* the task the worker holds, or NoTask
    submitted,   \* tasks submitted so far; task n is the n-th
    outcome      \* how each task ended, for the tasks that did

vars == <<queue, pending, error, closed, caller, worker, task, submitted, outcome>>

Task == 1 .. Tasks
NoTask == 0
Pill == -1

Caller == {"idle", "putting",          \* submit: before and after the count
           "checking", "waiting",      \* drain: the predicate, cv.wait
           "closing", "sleeping",      \* the same inside close
           "poisoning", "joining"}
Worker == {"getting", "running", "raising", "finishing", "gone"}

TypeOK ==
    /\ queue \in Seq(Task \cup {Pill}) /\ Len(queue) <= MaxSize
    /\ pending \in 0 .. Tasks
    /\ error \in Task \cup {NoTask}
    /\ closed \in BOOLEAN
    /\ caller \in Caller
    /\ worker \in Worker
    /\ task \in Task \cup {NoTask}
    /\ submitted \in 0 .. Tasks
    /\ outcome \in [Task -> {"none", "done", "failed"}]

Init ==
    /\ queue = <<>>
    /\ pending = 0
    /\ error = NoTask
    /\ closed = FALSE
    /\ caller = "idle"
    /\ worker = "getting"
    /\ task = NoTask
    /\ submitted = 0
    /\ outcome = [t \in Task |-> "none"]

-----------------------------------------------------------------------------
(* The caller *)

\* submit counts the task under the lock first; on a closed dispatcher it
\* raises and changes nothing.
Submit ==
    /\ caller = "idle"
    /\ ~closed
    /\ submitted < Tasks
    /\ submitted' = submitted + 1
    /\ pending' = pending + 1
    /\ caller' = "putting"
    /\ UNCHANGED <<queue, error, closed, worker, task, outcome>>

\* queue.put blocks while the queue is full.
Put ==
    /\ caller = "putting"
    /\ Len(queue) < MaxSize
    /\ queue' = Append(queue, submitted)
    /\ caller' = "idle"
    /\ UNCHANGED <<pending, error, closed, worker, task, submitted, outcome>>

Drain ==
    /\ caller = "idle"
    /\ caller' = "checking"
    /\ UNCHANGED <<queue, pending, error, closed, worker, task, submitted, outcome>>

\* Mutant of Check: drain looks at the queue instead of at the count.
Check_QueueOnly ==
    /\ caller \in {"checking", "closing"}
    /\ caller' = IF queue # <<>>
                   THEN IF caller = "checking" THEN "waiting" ELSE "sleeping"
                   ELSE IF caller = "checking" THEN "idle" ELSE "poisoning"
    /\ UNCHANGED <<queue, pending, error, closed, worker, task, submitted, outcome>>

\* The while loop of drain, one test of its predicate under the lock: wait, or
\* return (to the caller, or to close).
Check ==
    /\ caller \in {"checking", "closing"}
    /\ caller' = IF pending > 0
                   THEN IF caller = "checking" THEN "waiting" ELSE "sleeping"
                   ELSE IF caller = "checking" THEN "idle" ELSE "poisoning"
    /\ UNCHANGED <<queue, pending, error, closed, worker, task, submitted, outcome>>

\* close drains first; the second time it returns at once.
Close ==
    /\ caller = "idle"
    /\ ~closed
    /\ caller' = "closing"
    /\ UNCHANGED <<queue, pending, error, closed, worker, task, submitted, outcome>>

\* The pill goes into a queue that the drain has just emptied.
Poison ==
    /\ caller = "poisoning"
    /\ Len(queue) < MaxSize
    /\ closed' = TRUE
    /\ queue' = Append(queue, Pill)
    /\ caller' = "joining"
    /\ UNCHANGED <<pending, error, worker, task, submitted, outcome>>

\* Thread.join, after which the caller may call again.
Join ==
    /\ caller = "joining"
    /\ worker = "gone"
    /\ caller' = "idle"
    /\ UNCHANGED <<queue, pending, error, closed, worker, task, submitted, outcome>>

-----------------------------------------------------------------------------
(* The worker, _loop *)

\* Mutant of Get: the newest task first.
Get_Newest ==
    /\ worker = "getting"
    /\ queue # <<>>
    /\ queue' = SubSeq(queue, 1, Len(queue) - 1)
    /\ IF queue[Len(queue)] = Pill
         THEN worker' = "gone" /\ task' = NoTask
         ELSE worker' = "running" /\ task' = queue[Len(queue)]
    /\ UNCHANGED <<pending, error, closed, caller, submitted, outcome>>

Get ==
    /\ worker = "getting"
    /\ queue # <<>>
    /\ queue' = Tail(queue)
    /\ IF Head(queue) = Pill
         THEN worker' = "gone" /\ task' = NoTask
         ELSE worker' = "running" /\ task' = Head(queue)
    /\ UNCHANGED <<pending, error, closed, caller, submitted, outcome>>

\* The task returns or raises.
Run ==
    /\ worker = "running"
    /\ \/ /\ outcome' = [outcome EXCEPT ![task] = "done"]
          /\ worker' = "finishing"
       \/ /\ outcome' = [outcome EXCEPT ![task] = "failed"]
          /\ worker' = "raising"
    /\ UNCHANGED <<queue, pending, error, closed, caller, task, submitted>>

\* The except clause keeps the first error.
RecordError ==
    /\ worker = "raising"
    /\ error' = IF error = NoTask THEN task ELSE error
    /\ worker' = "finishing"
    /\ UNCHANGED <<queue, pending, closed, caller, task, submitted, outcome>>

\* notify_all wakes the caller if it is in cv.wait.
Woken == CASE caller = "waiting" -> "checking"
           [] caller = "sleeping" -> "closing"
           [] OTHER -> caller

\* Mutant of Finish: the count goes down and nobody is told.
Finish_NoNotify ==
    /\ worker = "finishing"
    /\ task' = NoTask
    /\ pending' = pending - 1
    /\ worker' = "getting"
    /\ UNCHANGED <<queue, error, closed, caller, submitted, outcome>>

\* The finally clause drops the task, counts it down and notifies.
Finish ==
    /\ worker = "finishing"
    /\ task' = NoTask
    /\ pending' = pending - 1
    /\ caller' = Woken
    /\ worker' = "getting"
    /\ UNCHANGED <<queue, error, closed, submitted, outcome>>

-----------------------------------------------------------------------------

CallerStep == Put \/ Check \/ Poison \/ Join
WorkerStep == Get \/ Run \/ RecordError \/ Finish

Next == Submit \/ Drain \/ Close \/ CallerStep \/ WorkerStep

Spec == Init /\ [][Next]_vars

\* Both threads are scheduled and every task ends: H5Dwrite returns or fails.
\* Whether the caller calls again is its own affair.
FairSpec == Spec /\ WF_vars(CallerStep) /\ WF_vars(WorkerStep)
-----------------------------------------------------------------------------
(* Correctness *)

Finished(t) == outcome[t] # "none"

\* Tasks run one at a time in submission order ("submit-order = completion-
\* order"): when one has run, all earlier ones have, and finished before it.
RunsInOrder ==
    /\ \A t \in Task : Finished(t) => \A u \in 1 .. t : Finished(u)
    /\ worker = "running" => \A u \in 1 .. task - 1 : Finished(u)

\* When drain returns, or close goes on, every submitted task has run, its
\* closure is dropped, and error is the first failure of them all: the one
\* point where a rank reads the error it will bring to an agreement.
DrainSeesEverything ==
    [][(caller \in {"checking", "closing"} /\ caller' \in {"idle", "poisoning"}) =>
         /\ task = NoTask
         /\ \A t \in 1 .. submitted : Finished(t)
         /\ \A t \in 1 .. submitted :
              outcome[t] = "failed" => error # NoTask /\ error <= t
         /\ error # NoTask => outcome[error] = "failed"]_vars

\* The inputs of at most MaxSize + 2 tasks are alive: the queued ones, the one
\* that runs and the one submit is blocked on.
InputsBounded ==
    submitted - Cardinality({t \in 1 .. submitted : Finished(t) /\ t # task})
        <= MaxSize + 2

\* No thread outlives its dispatcher: close returns only when the worker has
\* gone, with nothing left behind in the queue.
CloseLeavesNothing ==
    closed /\ caller = "idle" =>
        worker = "gone" /\ queue = <<>> /\ pending = 0

\* Every call returns: no submit, drain or close waits for ever.
EveryCallReturns == caller # "idle" ~> caller = "idle"

\* The invariants of the queue together: tasks run alone and in order, their
\* inputs are bounded, nothing outlives close.
QueueInv == TypeOK /\ RunsInOrder /\ InputsBounded /\ CloseLeavesNothing
=============================================================================
