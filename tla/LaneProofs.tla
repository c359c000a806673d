----------------------------- MODULE LaneProofs -----------------------------
(***************************************************************************)
(* The dispatcher, for a queue of any size and any number of tasks: what a *)
(* drain sees, in which order tasks run, and what close leaves.  And the   *)
(* collective lane over it, for any number of ranks, any handles and any   *)
(* programs that end each handle with its close: one thread of a process   *)
(* at a time is inside HDF5, in the order of the program; a read sees only *)
(* good writes; and close tells every rank of every rank's failures.       *)
(***************************************************************************)
EXTENDS MCCollectiveLane, FiniteSetTheorems, SequenceTheorems, TLAPS

-----------------------------------------------------------------------------
(* The dispatcher: its inductive invariant *)

\* The tasks the worker is done with; the one it holds; the tasks put.
Past == submitted - pending
Busy == worker \in {"running", "raising", "finishing"}
Taken == IF Busy THEN Past + 1 ELSE Past
Pushed == IF caller = "putting" THEN submitted - 1 ELSE submitted

\* The count of pending tasks is right at every step of the worker, and that is
\* which task it holds and which ones have run.
CountOK ==
    /\ pending <= submitted
    /\ task = IF Busy THEN Taken ELSE Dispatcher!NoTask
    /\ Taken <= Pushed
    /\ \A t \in Dispatcher!Task :
         Dispatcher!Finished(t) <=> t <= Past \/ (worker \in {"raising", "finishing"} /\ t = task)

\* The queue holds the tasks put and not taken, in their order, until it is closed,
\* which it is with nothing pending.
QueueOK ==
    /\ ~closed => /\ Len(inbox) = Pushed - Taken
                  /\ \A i \in 1 .. Len(inbox) : inbox[i] = Taken + i
                  /\ worker # "gone"
    /\ closed => /\ pending = 0
                 /\ \/ worker = "getting" /\ caller = "joining" /\ inbox = <<Dispatcher!Pill>>
                    \/ worker = "gone" /\ inbox = <<>>

\* Where the caller may be before and after the pill.
CallerOK ==
    /\ caller \in {"putting", "closing", "sleeping", "poisoning"} => ~closed
    /\ caller = "joining" => closed
    /\ caller = "poisoning" => pending = 0

\* The error is the first of the failures there are, but for the one the worker
\* has not recorded yet.
ErrorOK ==
    /\ worker = "raising" => outcome[task] = "failed"
    /\ firstError # Dispatcher!NoTask => outcome[firstError] = "failed"
    /\ \A t \in Dispatcher!Task : outcome[t] = "failed" /\ ~(worker = "raising" /\ t = task) =>
         firstError # Dispatcher!NoTask /\ firstError <= t

DispatcherIInv == Dispatcher!TypeOK /\ CountOK /\ QueueOK /\ CallerOK /\ ErrorOK

\* The queue starts empty.
LEMMA DispatcherInit == Dispatcher!Init => DispatcherIInv
<1> SUFFICES ASSUME Dispatcher!Init PROVE DispatcherIInv
  OBVIOUS
<1> USE QueueAssumption DEF Dispatcher!QueueAssumption, Dispatcher!Init, Dispatcher!Task,
    Dispatcher!NoTask
<1>1. Dispatcher!TypeOK
  <2>1. inbox \in Seq(Dispatcher!Task \cup {Dispatcher!Pill}) /\ Len(inbox) = 0
    OBVIOUS
  <2>2. outcome \in [Dispatcher!Task -> {"none", "done", "failed"}]
    OBVIOUS
  <2>3. 0 \in 0 .. Tasks /\ 0 <= MaxSize
    OBVIOUS
  <2> QED BY <2>1, <2>2, <2>3 DEF Dispatcher!TypeOK, Dispatcher!Caller, Dispatcher!Worker
<1>2. ~Busy /\ Past = 0 /\ Taken = 0 /\ Pushed = 0
  BY DEF Busy, Past, Taken, Pushed
<1>3. CountOK
  BY <1>2 DEF CountOK, Dispatcher!Finished
<1>4. QueueOK
  BY <1>2 DEF QueueOK
<1>5. CallerOK /\ ErrorOK
  BY DEF CallerOK, ErrorOK
<1> QED BY <1>1, <1>3, <1>4, <1>5 DEF DispatcherIInv

\* Every step of the submitters and of the worker keeps the invariant.
LEMMA DispatcherNext == DispatcherIInv /\ [Dispatcher!Next]_(Dispatcher!vars) => DispatcherIInv'
<1> SUFFICES ASSUME DispatcherIInv, [Dispatcher!Next]_(Dispatcher!vars) PROVE DispatcherIInv'
  OBVIOUS
<1> USE QueueAssumption DEF Dispatcher!QueueAssumption, DispatcherIInv, Dispatcher!Task,
    Dispatcher!NoTask, Dispatcher!Pill
<1>1. ASSUME Dispatcher!Submit PROVE DispatcherIInv'
  <2>1. Dispatcher!TypeOK'
    BY <1>1 DEF Dispatcher!Submit, Dispatcher!TypeOK, Dispatcher!Caller, Dispatcher!Worker,
        CountOK, QueueOK, Past, Busy, Taken, Pushed
  <2>2. CountOK'
    BY <1>1 DEF Dispatcher!Submit, CountOK, QueueOK, Dispatcher!TypeOK, Past, Busy, Taken,
        Pushed, Dispatcher!Finished
  <2>3. QueueOK'
    <3>1. Pushed' = Pushed /\ Taken' = Taken
      BY <1>1 DEF Dispatcher!Submit, Dispatcher!TypeOK, Past, Busy, Taken, Pushed
    <3> QED BY <1>1, <3>1 DEF Dispatcher!Submit, QueueOK
  <2>4. CallerOK'
    BY <1>1 DEF Dispatcher!Submit, CallerOK, QueueOK, Dispatcher!TypeOK, CountOK
  <2>5. ErrorOK'
    BY <1>1 DEF Dispatcher!Submit, ErrorOK, CountOK, Dispatcher!TypeOK, Past, Busy, Taken,
        Pushed, Dispatcher!Finished
  <2> QED BY <2>1, <2>2, <2>3, <2>4, <2>5
<1>2. ASSUME Dispatcher!Put PROVE DispatcherIInv'
  <2>1. Dispatcher!TypeOK'
    BY <1>2 DEF Dispatcher!Put, Dispatcher!TypeOK, Dispatcher!Caller, Dispatcher!Worker,
        CountOK, QueueOK, Past, Busy, Taken, Pushed
  <2>2. CountOK'
    BY <1>2 DEF Dispatcher!Put, CountOK, QueueOK, Dispatcher!TypeOK, Past, Busy, Taken, Pushed,
        Dispatcher!Finished
  <2>3. QueueOK'
    <3>1. ~closed /\ Pushed' = Pushed + 1 /\ Pushed' = submitted /\ Taken' = Taken
      BY <1>2 DEF Dispatcher!Put, CallerOK, Dispatcher!TypeOK, Past, Busy, Taken, Pushed
    <3>2. Len(inbox) = Pushed - Taken /\ \A i \in 1 .. Len(inbox) : inbox[i] = Taken + i
      BY <3>1 DEF QueueOK
    <3>3. Pushed \in Int /\ Taken \in Int
      BY DEF Dispatcher!TypeOK, Pushed, Taken, Past
    <3>4. Len(inbox') = Len(inbox) + 1 /\ inbox'[Len(inbox) + 1] = submitted
          /\ \A i \in 1 .. Len(inbox) : inbox'[i] = inbox[i]
      BY <1>2 DEF Dispatcher!Put, Dispatcher!TypeOK
    <3>5. \A i \in 1 .. Len(inbox') : inbox'[i] = Taken + i
      BY <3>1, <3>2, <3>3, <3>4 DEF Dispatcher!TypeOK
    <3> QED BY <1>2, <3>1, <3>2, <3>3, <3>4, <3>5 DEF Dispatcher!Put, QueueOK
  <2>4. CallerOK'
    BY <1>2 DEF Dispatcher!Put, CallerOK, QueueOK, Dispatcher!TypeOK, CountOK
  <2>5. ErrorOK'
    BY <1>2 DEF Dispatcher!Put, ErrorOK, CountOK, Dispatcher!TypeOK, Past, Busy, Taken, Pushed,
        Dispatcher!Finished
  <2> QED BY <2>1, <2>2, <2>3, <2>4, <2>5
<1>3. ASSUME Dispatcher!Drain PROVE DispatcherIInv'
  <2>1. Dispatcher!TypeOK'
    BY <1>3 DEF Dispatcher!Drain, Dispatcher!TypeOK, Dispatcher!Caller, Dispatcher!Worker,
        CountOK, QueueOK, Past, Busy, Taken, Pushed
  <2>2. CountOK'
    BY <1>3 DEF Dispatcher!Drain, CountOK, QueueOK, Dispatcher!TypeOK, Past, Busy, Taken,
        Pushed, Dispatcher!Finished
  <2>3. QueueOK'
    BY <1>3 DEF Dispatcher!Drain, QueueOK, CountOK, CallerOK, Dispatcher!TypeOK, Past, Busy,
        Taken, Pushed, Dispatcher!Finished
  <2>4. CallerOK'
    BY <1>3 DEF Dispatcher!Drain, CallerOK, QueueOK, Dispatcher!TypeOK, CountOK
  <2>5. ErrorOK'
    BY <1>3 DEF Dispatcher!Drain, ErrorOK, CountOK, Dispatcher!TypeOK, Past, Busy, Taken,
        Pushed, Dispatcher!Finished
  <2> QED BY <2>1, <2>2, <2>3, <2>4, <2>5
<1>4. ASSUME Dispatcher!Check PROVE DispatcherIInv'
  <2>1. Dispatcher!TypeOK'
    BY <1>4 DEF Dispatcher!Check, Dispatcher!TypeOK, Dispatcher!Caller, Dispatcher!Worker,
        CountOK, QueueOK, Past, Busy, Taken, Pushed
  <2>2. CountOK'
    BY <1>4 DEF Dispatcher!Check, CountOK, QueueOK, Dispatcher!TypeOK, Past, Busy, Taken,
        Pushed, Dispatcher!Finished
  <2>3. QueueOK'
    BY <1>4 DEF Dispatcher!Check, QueueOK, CountOK, CallerOK, Dispatcher!TypeOK, Past, Busy,
        Taken, Pushed, Dispatcher!Finished
  <2>4. CallerOK'
    BY <1>4 DEF Dispatcher!Check, CallerOK, QueueOK, Dispatcher!TypeOK, CountOK
  <2>5. ErrorOK'
    BY <1>4 DEF Dispatcher!Check, ErrorOK, CountOK, Dispatcher!TypeOK, Past, Busy, Taken,
        Pushed, Dispatcher!Finished
  <2> QED BY <2>1, <2>2, <2>3, <2>4, <2>5
<1>5. ASSUME Dispatcher!Close PROVE DispatcherIInv'
  <2>1. Dispatcher!TypeOK'
    BY <1>5 DEF Dispatcher!Close, Dispatcher!TypeOK, Dispatcher!Caller, Dispatcher!Worker,
        CountOK, QueueOK, Past, Busy, Taken, Pushed
  <2>2. CountOK'
    BY <1>5 DEF Dispatcher!Close, CountOK, QueueOK, Dispatcher!TypeOK, Past, Busy, Taken,
        Pushed, Dispatcher!Finished
  <2>3. QueueOK'
    BY <1>5 DEF Dispatcher!Close, QueueOK, CountOK, CallerOK, Dispatcher!TypeOK, Past, Busy,
        Taken, Pushed, Dispatcher!Finished
  <2>4. CallerOK'
    BY <1>5 DEF Dispatcher!Close, CallerOK, QueueOK, Dispatcher!TypeOK, CountOK
  <2>5. ErrorOK'
    BY <1>5 DEF Dispatcher!Close, ErrorOK, CountOK, Dispatcher!TypeOK, Past, Busy, Taken,
        Pushed, Dispatcher!Finished
  <2> QED BY <2>1, <2>2, <2>3, <2>4, <2>5
<1>6. ASSUME Dispatcher!Poison PROVE DispatcherIInv'
  <2>1. Dispatcher!TypeOK'
    BY <1>6 DEF Dispatcher!Poison, Dispatcher!TypeOK, Dispatcher!Caller, Dispatcher!Worker,
        CountOK, QueueOK, Past, Busy, Taken, Pushed
  <2>2. CountOK'
    BY <1>6 DEF Dispatcher!Poison, CountOK, QueueOK, Dispatcher!TypeOK, Past, Busy, Taken,
        Pushed, Dispatcher!Finished
  <2>3. QueueOK'
    <3>1. ~closed /\ pending = 0 /\ closed' /\ pending' = pending /\ caller' = "joining"
      BY <1>6 DEF Dispatcher!Poison, CallerOK
    <3>2. ~Busy /\ Len(inbox) = 0
      BY <1>6, <3>1 DEF Dispatcher!Poison, CountOK, QueueOK, Dispatcher!TypeOK, Past, Busy,
          Taken, Pushed
    <3>3. inbox = <<>> /\ inbox' = <<Dispatcher!Pill>>
      BY <1>6, <3>2 DEF Dispatcher!Poison, Dispatcher!TypeOK
    <3>4. worker' = "getting"
      BY <1>6, <3>1, <3>2 DEF Dispatcher!Poison, QueueOK, Dispatcher!TypeOK, Busy,
          Dispatcher!Worker
    <3> QED BY <3>1, <3>3, <3>4 DEF QueueOK
  <2>4. CallerOK'
    BY <1>6 DEF Dispatcher!Poison, CallerOK, QueueOK, Dispatcher!TypeOK, CountOK
  <2>5. ErrorOK'
    BY <1>6 DEF Dispatcher!Poison, ErrorOK, CountOK, Dispatcher!TypeOK, Past, Busy, Taken,
        Pushed, Dispatcher!Finished
  <2> QED BY <2>1, <2>2, <2>3, <2>4, <2>5
<1>7. ASSUME Dispatcher!Join PROVE DispatcherIInv'
  <2>1. Dispatcher!TypeOK'
    BY <1>7 DEF Dispatcher!Join, Dispatcher!TypeOK, Dispatcher!Caller, Dispatcher!Worker,
        CountOK, QueueOK, Past, Busy, Taken, Pushed
  <2>2. CountOK'
    BY <1>7 DEF Dispatcher!Join, CountOK, QueueOK, Dispatcher!TypeOK, Past, Busy, Taken,
        Pushed, Dispatcher!Finished
  <2>3. QueueOK'
    BY <1>7 DEF Dispatcher!Join, QueueOK, CountOK, CallerOK, Dispatcher!TypeOK, Past, Busy,
        Taken, Pushed, Dispatcher!Finished
  <2>4. CallerOK'
    BY <1>7 DEF Dispatcher!Join, CallerOK, QueueOK, Dispatcher!TypeOK, CountOK
  <2>5. ErrorOK'
    BY <1>7 DEF Dispatcher!Join, ErrorOK, CountOK, Dispatcher!TypeOK, Past, Busy, Taken,
        Pushed, Dispatcher!Finished
  <2> QED BY <2>1, <2>2, <2>3, <2>4, <2>5
<1>8. ASSUME Dispatcher!Get PROVE DispatcherIInv'
  <2>1. Dispatcher!TypeOK'
    BY <1>8 DEF Dispatcher!Get, Dispatcher!TypeOK, Dispatcher!Caller, Dispatcher!Worker,
        CountOK, QueueOK, Past, Busy, Taken, Pushed
  <2>2. CountOK'
    BY <1>8 DEF Dispatcher!Get, CountOK, QueueOK, Dispatcher!TypeOK, Past, Busy, Taken, Pushed,
        Dispatcher!Finished
  <2>3. QueueOK'
    <3>1. CASE closed
      <4>1. inbox = <<Dispatcher!Pill>> /\ pending = 0 /\ worker = "getting"
        BY <1>8, <3>1 DEF Dispatcher!Get, QueueOK
      <4>2. Head(inbox) = Dispatcher!Pill /\ inbox' = <<>>
        BY <1>8, <4>1 DEF Dispatcher!Get
      <4> QED BY <1>8, <3>1, <4>1, <4>2 DEF Dispatcher!Get, QueueOK
    <3>2. CASE ~closed
      <4>1. Len(inbox) = Pushed - Taken /\ \A i \in 1 .. Len(inbox) : inbox[i] = Taken + i
        BY <3>2 DEF QueueOK
      <4>2. Pushed \in Int /\ Taken \in Int /\ Past \in Int /\ Taken >= 0
        BY DEF Dispatcher!TypeOK, Pushed, Taken, Past, CountOK
      <4>3. Head(inbox) = Taken + 1 /\ Len(inbox) \in Nat \ {0}
        BY <1>8, <4>1 DEF Dispatcher!Get, Dispatcher!TypeOK
      <4>4. worker' = "running" /\ Pushed' = Pushed /\ Taken' = Taken + 1
        BY <1>8, <4>2, <4>3 DEF Dispatcher!Get, Pushed, Taken, Busy, Past
      <4>5. Len(inbox') = Len(inbox) - 1 /\ \A i \in 1 .. Len(inbox') : inbox'[i] = inbox[i + 1]
        BY <1>8, <4>3 DEF Dispatcher!Get, Dispatcher!TypeOK
      <4>6. \A i \in 1 .. Len(inbox') : inbox'[i] = Taken' + i
        BY <4>1, <4>2, <4>3, <4>4, <4>5
      <4> QED BY <1>8, <3>2, <4>1, <4>2, <4>3, <4>4, <4>5, <4>6 DEF Dispatcher!Get, QueueOK
    <3> QED BY <3>1, <3>2
  <2>4. CallerOK'
    BY <1>8 DEF Dispatcher!Get, CallerOK, QueueOK, Dispatcher!TypeOK, CountOK
  <2>5. ErrorOK'
    BY <1>8 DEF Dispatcher!Get, ErrorOK, CountOK, Dispatcher!TypeOK, Past, Busy, Taken, Pushed,
        Dispatcher!Finished
  <2> QED BY <2>1, <2>2, <2>3, <2>4, <2>5
<1>9. ASSUME Dispatcher!Run PROVE DispatcherIInv'
  <2>1. Dispatcher!TypeOK'
    BY <1>9 DEF Dispatcher!Run, Dispatcher!TypeOK, Dispatcher!Caller, Dispatcher!Worker,
        CountOK, QueueOK, Past, Busy, Taken, Pushed
  <2>2. CountOK'
    BY <1>9 DEF Dispatcher!Run, CountOK, QueueOK, Dispatcher!TypeOK, Past, Busy, Taken, Pushed,
        Dispatcher!Finished
  <2>3. QueueOK'
    BY <1>9 DEF Dispatcher!Run, QueueOK, CountOK, CallerOK, Dispatcher!TypeOK, Past, Busy,
        Taken, Pushed, Dispatcher!Finished
  <2>4. CallerOK'
    BY <1>9 DEF Dispatcher!Run, CallerOK, QueueOK, Dispatcher!TypeOK, CountOK
  <2>5. ErrorOK'
    BY <1>9 DEF Dispatcher!Run, ErrorOK, CountOK, Dispatcher!TypeOK, Past, Busy, Taken, Pushed,
        Dispatcher!Finished
  <2> QED BY <2>1, <2>2, <2>3, <2>4, <2>5
<1>10. ASSUME Dispatcher!RecordError PROVE DispatcherIInv'
  <2>1. Dispatcher!TypeOK'
    BY <1>10 DEF Dispatcher!RecordError, Dispatcher!TypeOK, Dispatcher!Caller,
        Dispatcher!Worker, CountOK, QueueOK, Past, Busy, Taken, Pushed
  <2>2. CountOK'
    BY <1>10 DEF Dispatcher!RecordError, CountOK, QueueOK, Dispatcher!TypeOK, Past, Busy,
        Taken, Pushed, Dispatcher!Finished
  <2>3. QueueOK'
    BY <1>10 DEF Dispatcher!RecordError, QueueOK, CountOK, CallerOK, Dispatcher!TypeOK, Past,
        Busy, Taken, Pushed, Dispatcher!Finished
  <2>4. CallerOK'
    BY <1>10 DEF Dispatcher!RecordError, CallerOK, QueueOK, Dispatcher!TypeOK, CountOK
  <2>5. ErrorOK'
    BY <1>10 DEF Dispatcher!RecordError, ErrorOK, CountOK, Dispatcher!TypeOK, Past, Busy,
        Taken, Pushed, Dispatcher!Finished
  <2> QED BY <2>1, <2>2, <2>3, <2>4, <2>5
<1>11. ASSUME Dispatcher!Finish PROVE DispatcherIInv'
  <2>1. Dispatcher!TypeOK'
    BY <1>11 DEF Dispatcher!Finish, Dispatcher!Woken, Dispatcher!TypeOK, Dispatcher!Caller,
        Dispatcher!Worker, CountOK, QueueOK, Past, Busy, Taken, Pushed
  <2>2. CountOK'
    BY <1>11, SMTT(60) DEF Dispatcher!Finish, Dispatcher!Woken, CountOK, QueueOK, Dispatcher!TypeOK,
        Past, Busy, Taken, Pushed, Dispatcher!Finished
  <2>3. QueueOK'
    BY <1>11 DEF Dispatcher!Finish, Dispatcher!Woken, QueueOK, CountOK, CallerOK,
        Dispatcher!TypeOK, Past, Busy, Taken, Pushed, Dispatcher!Finished
  <2>4. CallerOK'
    BY <1>11 DEF Dispatcher!Finish, Dispatcher!Woken, CallerOK, QueueOK, Dispatcher!TypeOK,
        CountOK, Busy, Taken, Past, Pushed
  <2>5. ErrorOK'
    BY <1>11 DEF Dispatcher!Finish, Dispatcher!Woken, ErrorOK, CountOK, Dispatcher!TypeOK,
        Past, Busy, Taken, Pushed, Dispatcher!Finished
  <2> QED BY <2>1, <2>2, <2>3, <2>4, <2>5
<1>12. CASE UNCHANGED Dispatcher!vars
  BY <1>12 DEF Dispatcher!vars, Dispatcher!TypeOK, CountOK, QueueOK, CallerOK, ErrorOK, Past,
      Busy, Taken, Pushed, Dispatcher!Finished
<1> QED BY <1>1, <1>2, <1>3, <1>4, <1>5, <1>6, <1>7, <1>8, <1>9, <1>10, <1>11, <1>12
        DEF Dispatcher!Next, Dispatcher!CallerStep, Dispatcher!WorkerStep

\* The invariant holds in every reachable state.
THEOREM DispatcherInductive == Dispatcher!Spec => []DispatcherIInv
<1>1. Dispatcher!Init => DispatcherIInv
  BY DispatcherInit
<1>2. DispatcherIInv /\ [Dispatcher!Next]_(Dispatcher!vars) => DispatcherIInv'
  BY DispatcherNext
<1> QED BY <1>1, <1>2, PTL DEF Dispatcher!Spec

-----------------------------------------------------------------------------
(* What it implies *)

\* The tasks that have finished and are not held any more are the first ones.
LEMMA Dropped ==
    ASSUME DispatcherIInv
    PROVE  {t \in 1 .. submitted : Dispatcher!Finished(t) /\ t # task} = 1 .. Past
BY QueueAssumption DEF Dispatcher!QueueAssumption, DispatcherIInv, Dispatcher!TypeOK, CountOK, Past,
    Busy, Taken, Pushed, Dispatcher!Task, Dispatcher!NoTask

\* Tasks run alone and in the order of their submission, no more inputs than the
\* queue's size and two are alive, and close leaves nothing behind.
THEOREM QueueKeepsItsPromises == Dispatcher!Spec => []QueueInv
<1>1. DispatcherIInv => QueueInv
  <2> SUFFICES ASSUME DispatcherIInv PROVE QueueInv
    OBVIOUS
  <2> USE QueueAssumption DEF Dispatcher!QueueAssumption
  <2>1. Past \in 0 .. Tasks /\ pending \in 0 .. Tasks /\ submitted \in 0 .. Tasks
        /\ Past + pending = submitted
    BY DEF DispatcherIInv, Dispatcher!TypeOK, CountOK, Past
  <2>2. Dispatcher!RunsInOrder
    BY <2>1 DEF DispatcherIInv, Dispatcher!TypeOK, CountOK, Dispatcher!RunsInOrder, Busy, Taken, Pushed,
        Dispatcher!Task, Dispatcher!NoTask
  <2>3. Dispatcher!InputsBounded
    <3>1. Cardinality({t \in 1 .. submitted : Dispatcher!Finished(t) /\ t # task}) = Past
      <4>1. PICK n \in Nat : n = Past
        BY <2>1
      <4>2. Cardinality(1 .. n) = n
        BY FS_Interval
      <4> QED BY <4>1, <4>2, Dropped
    <3>2. pending <= MaxSize + 2
      BY <2>1 DEF DispatcherIInv, Dispatcher!TypeOK, QueueOK, Past, Busy, Taken, Pushed
    <3>3. submitted - Past <= MaxSize + 2
      BY <2>1, <3>2
    <3>4. submitted - Cardinality({t \in 1 .. submitted : Dispatcher!Finished(t) /\ t # task})
            <= MaxSize + 2
      BY <3>1, <3>3
    <3>5. \A S : Dispatcher!Cardinality(S) = Cardinality(S)
      BY Zenon DEF Cardinality, Dispatcher!Cardinality
    <3> QED BY <3>4, <3>5, Zenon DEF Dispatcher!InputsBounded
  <2>4. Dispatcher!CloseLeavesNothing
    BY DEF DispatcherIInv, QueueOK, Dispatcher!CloseLeavesNothing
  <2> QED BY <2>2, <2>3, <2>4 DEF QueueInv, Dispatcher!QueueInv, DispatcherIInv
<1> QED BY <1>1, DispatcherInductive, PTL

\* When drain returns or close goes on, every submitted task has run, its closure
\* is dropped, and error is the first failure of them all.
THEOREM DrainsSeeEverything == Dispatcher!Spec => DrainSeesEverything
<1> DEFINE Seen ==
      (caller \in {"checking", "closing"} /\ caller' \in {"idle", "poisoning"}) =>
         /\ task = Dispatcher!NoTask
         /\ \A t \in 1 .. submitted : Dispatcher!Finished(t)
         /\ \A t \in 1 .. submitted :
              outcome[t] = "failed" => firstError # Dispatcher!NoTask /\ firstError <= t
         /\ firstError # Dispatcher!NoTask => outcome[firstError] = "failed"
<1>1. DispatcherIInv /\ [Dispatcher!Next]_(Dispatcher!vars) => [Seen]_(Dispatcher!vars)
  <2> SUFFICES ASSUME DispatcherIInv, [Dispatcher!Next]_(Dispatcher!vars),
                      caller \in {"checking", "closing"}, caller' \in {"idle", "poisoning"}
               PROVE  /\ task = Dispatcher!NoTask
                      /\ \A t \in 1 .. submitted : Dispatcher!Finished(t)
                      /\ \A t \in 1 .. submitted :
                           outcome[t] = "failed" => firstError # Dispatcher!NoTask /\ firstError <= t
                      /\ firstError # Dispatcher!NoTask => outcome[firstError] = "failed"
    OBVIOUS
  <2>1. pending = 0
    BY DEF DispatcherIInv, Dispatcher!TypeOK, Dispatcher!Next, Dispatcher!CallerStep,
        Dispatcher!WorkerStep, Dispatcher!Submit, Dispatcher!Put, Dispatcher!Drain,
        Dispatcher!Check, Dispatcher!Close, Dispatcher!Poison, Dispatcher!Join,
           Dispatcher!Get, Dispatcher!Run, Dispatcher!RecordError, Dispatcher!Finish,
           Dispatcher!Woken, Dispatcher!vars
  <2>2. ~Busy /\ Past = submitted
    BY <2>1, QueueAssumption DEF Dispatcher!QueueAssumption, DispatcherIInv, Dispatcher!TypeOK, CountOK,
        Past, Busy, Taken, Pushed
  <2>3. task = Dispatcher!NoTask /\ \A t \in 1 .. submitted : Dispatcher!Finished(t)
    BY <2>2, QueueAssumption DEF Dispatcher!QueueAssumption, DispatcherIInv, Dispatcher!TypeOK, CountOK,
        Dispatcher!Task
  <2> QED BY <2>2, <2>3, QueueAssumption DEF Dispatcher!QueueAssumption, DispatcherIInv,
      Dispatcher!TypeOK, ErrorOK, Busy, Dispatcher!Task
<1>2. Dispatcher!Spec => []DispatcherIInv /\ [][Dispatcher!Next]_(Dispatcher!vars)
  BY DispatcherInductive, PTL DEF Dispatcher!Spec
<1> QED BY <1>1, <1>2, PTL DEF DrainSeesEverything, Dispatcher!DrainSeesEverything

-----------------------------------------------------------------------------
(* The lane: its inductive invariant, rank by rank *)

Stages == {"none", "queued", "inside", "done"}
Instruction == [op : Operation, slot : Slot]
Held == {"queued", "inside"}           \* not finished
Left == {"none", "done"}               \* not begun, or finished
Between == {"ready", "localdraining", "localsettling"}
Alone == {"posting", "agreeing", "hearing", "calling", "inside"}

TypesOK == TypeOK /\ program \in Programs /\ queue \in [Rank -> Seq(Step)]

\* The place of a main thread fits the operation it is at.
PlaceAt(r) ==
    /\ main[r] \notin Between => ip[r] \in Step
    /\ main[r] = "putting" => Op(r) \in Writes
    /\ main[r] = "posting" => Op(r) = "read"
    /\ main[r] \in {"agreeing", "hearing"} => Op(r) \in Reads \cup {"close"}
    /\ main[r] \in {"calling", "inside"} => Op(r) \in {"create", "close"}

\* What a rank has not come to it has not begun; what it has gone past is left,
\* but for the queued writes and the posted reads.
StageHere(r) ==
    ip[r] \in Step => stage[r][ip[r]] =
        IF main[r] = "inside" THEN "inside"
        ELSE IF main[r] \in {"agreeing", "hearing"} /\ Op(r) = "close" THEN "done"
        ELSE "none"
StageAt(r) ==
    /\ \A i \in Step : i > ip[r] => stage[r][i] = "none"
    /\ StageHere(r)
    /\ \A i \in Step : i < ip[r] /\ stage[r][i] \in Held =>
         \/ program[i].op \in Writes
         \/ program[i].op = "read" /\ i \in tracked[r]
    /\ main[r] \in Alone \cup {"putting"} => \A i \in tracked[r] : stage[r][i] = "done"
    /\ \A i \in Step : stage[r][i] = "queued" => program[i].op \in Writes \cup {"read"}

\* The queue holds the queued writes in the order of the program.
QueueAt(r) ==
    /\ \A a \in 1 .. Len(queue[r]) :
         /\ program[queue[r][a]].op \in Writes /\ stage[r][queue[r][a]] = "queued"
         /\ \A b \in 1 .. a - 1 : queue[r][b] < queue[r][a]
    /\ \A i \in Step : program[i].op \in Writes /\ stage[r][i] = "queued" =>
         \E a \in 1 .. Len(queue[r]) : queue[r][a] = i

\* While a write is queued or under way the lane has an owner; a drain sees to it
\* that none is when another operation comes to HDF5.
OwnerAt(r) ==
    /\ \A i \in Step : program[i].op \in Writes /\ stage[r][i] \in Held => owner[r] # NoSlot
    /\ main[r] \in Alone \cup {"settling"} /\ Op(r) \notin Writes => owner[r] = NoSlot

\* An operation is queued, or enters, when what is before it has left; only the
\* writes queue behind each other.
OrderAt(r) ==
    \A j \in Step : \A i \in 1 .. j - 1 :
        /\ Entered(r, j) => stage[r][i] \in Left
        /\ stage[r][j] = "queued" =>
             \/ stage[r][i] \in Left
             \/ program[i].op \in Writes /\ program[j].op \in Writes

\* A handle has an error if it has a failure; only what is done has failed.
ErrorAt(r) ==
    /\ \A i \in Step : failed[r][i] =>
         stage[r][i] = "done" /\ program[i].op \in Writes \cup {"close"}
    /\ \A s \in Slot : error[r][s] # None <=> \E i \in Step : program[i].slot = s /\ failed[r][i]

\* A rank brings its error to an agreement when what is before it has left, and the
\* error it brings tells whether any of it has failed.
Telling(r, k) ==
    /\ program[k].op \in Reads \cup {"close"} /\ k <= ip[r]
    /\ program[k].op = "close" => stage[r][k] = "done"
    /\ \A i \in 1 .. k - 1 : stage[r][i] \in Left
    /\ brought[r][k] # None <=>
         \E i \in 1 .. k : program[i].slot = program[k].slot /\ failed[r][i]
Agreeing(r, k) ==
    /\ k = ip[r] => /\ main[r] \in {"hearing", "posting", "calling", "inside"}
                    /\ main[r] # "hearing" => /\ Op(r) \in Reads
                                              /\ \A q \in Rank : brought[q][k] = None
    /\ k < ip[r] => \A q \in Rank : brought[q][k] # NotBrought
BroughtAt(r) ==
    /\ \A k \in Step : brought[r][k] # NotBrought => Telling(r, k) /\ Agreeing(r, k)
    /\ main[r] = "hearing" => brought[r][ip[r]] # NotBrought

\* Rank q's write i has been agreed on by q, with no error.
Sealed(q, i) ==
    \E k \in Step : /\ k > i /\ program[k].slot = program[i].slot
                    /\ program[k].op \in Reads /\ brought[q][k] = None
Clean(j) ==
    \A q \in Rank : \A i \in 1 .. j - 1 :
        program[i].op \in Writes /\ program[i].slot = program[j].slot => Sealed(q, i)

\* What has been written since a rank last brought an error is marked; what it has
\* skipped is behind an error.
DirtyAt(r) ==
    \A i \in Step : i < ip[r] /\ program[i].op \in Writes =>
        /\ stage[r][i] # "none" /\ ~dirty[r][program[i].slot] =>
             \E k \in Step : /\ k > i /\ program[k].slot = program[i].slot
                             /\ brought[r][k] # NotBrought
        /\ stage[r][i] = "none" => Unwinding(r, program[i].slot)
SteadyAt(r) ==
    main[r] \notin Between /\ Op(r) # "close" => ~Unwinding(r, SlotOf(r))

\* A read begins only where every write before it is sealed on every rank.
ReadsAt(r) ==
    /\ main[r] \in {"posting", "calling", "inside"} /\ Op(r) \in Reads => Clean(ip[r])
    /\ \A j \in Step : program[j].op \in Reads /\ stage[r][j] # "none" => Clean(j)

\* A handle is reported by its close, as all ranks agreed.
Concluded(k) == \A q \in Rank : brought[q][k] # NotBrought
ReportAt(r) ==
    \A s \in Slot : report[r][s] # "open" =>
        \E k \in Step :
            /\ program[k].op = "close" /\ program[k].slot = s /\ Concluded(k)
            /\ report[r][s] = "raised" <=> \E q \in Rank : brought[q][k] # None

LaneOK(r) ==
    /\ PlaceAt(r) /\ StageAt(r) /\ QueueAt(r) /\ OwnerAt(r) /\ OrderAt(r) /\ ErrorAt(r)
    /\ BroughtAt(r) /\ DirtyAt(r) /\ SteadyAt(r) /\ ReadsAt(r) /\ ReportAt(r)
IInv == TypesOK /\ \A r \in Rank : LaneOK(r)

-----------------------------------------------------------------------------
(* Facts *)

\* The instructions of a program, and the row of a rank.
LEMMA Facts ==
    ASSUME LaneAssumption, TypesOK
    PROVE  /\ Len(program) \in Nat /\ Step \subseteq Nat \ {0} /\ Step = 1 .. Len(program)
           /\ \A i \in Step : program[i].op \in Operation /\ program[i].slot \in Slot
           /\ \A i, j \in Step :
                program[i].op = "close" /\ program[j].slot = program[i].slot => j <= i
           /\ \A r \in Rank :
                /\ ip[r] \in 1 .. Len(program) + 1 /\ main[r] \in Main
                /\ ip[r] \in Nat \ {0} /\ (ip[r] \in Step <=> ip[r] <= Len(program))
                /\ stage[r] \in [Step -> Stages] /\ failed[r] \in [Step -> BOOLEAN]
                /\ tracked[r] \subseteq Step /\ queue[r] \in Seq(Step)
                /\ error[r] \in [Slot -> Step \cup {None}] /\ dirty[r] \in [Slot -> BOOLEAN]
                /\ brought[r] \in [Step -> Step \cup {None, NotBrought}]
                /\ report[r] \in [Slot -> {"open", "ok", "raised"}]
<1>1. program \in Seq(Instruction)
      /\ \A i, j \in 1 .. Len(program) :
           program[i].op = "close" /\ program[j].slot = program[i].slot => j <= i
  BY DEF LaneAssumption, TypesOK, Instruction
<1>2. Len(program) \in Nat /\ Step = 1 .. Len(program)
  BY <1>1 DEF Step
<1>3. \A i \in Step : program[i].op \in Operation /\ program[i].slot \in Slot
  <2>1. \A i \in Step : program[i] \in Instruction
    BY <1>1, <1>2
  <2> QED
    BY <2>1 DEF Instruction
<1>4. \A r \in Rank : /\ ip[r] \in 1 .. Len(program) + 1 /\ main[r] \in Main
                      /\ stage[r] \in [Step -> Stages] /\ failed[r] \in [Step -> BOOLEAN]
  BY DEF TypesOK, TypeOK, Stages
<1>5. \A r \in Rank : /\ tracked[r] \subseteq Step /\ queue[r] \in Seq(Step)
                      /\ error[r] \in [Slot -> Step \cup {None}]
  BY DEF TypesOK, TypeOK
<1>6. \A r \in Rank : /\ dirty[r] \in [Slot -> BOOLEAN]
                      /\ brought[r] \in [Step -> Step \cup {None, NotBrought}]
                      /\ report[r] \in [Slot -> {"open", "ok", "raised"}]
  BY DEF TypesOK, TypeOK
<1>7. \A r \in Rank : ip[r] \in Nat \ {0} /\ (ip[r] \in Step <=> ip[r] <= Len(program))
  BY <1>2, <1>4
<1> QED
  BY <1>1, <1>2, <1>3, <1>4, <1>5, <1>6, <1>7

\* The row of a rank is the same from one state to the next.
SameRow(q) ==
    /\ ip'[q] = ip[q] /\ main'[q] = main[q] /\ owner'[q] = owner[q] /\ queue'[q] = queue[q]
    /\ tracked'[q] = tracked[q] /\ stage'[q] = stage[q] /\ failed'[q] = failed[q]
    /\ error'[q] = error[q] /\ dirty'[q] = dirty[q] /\ report'[q] = report[q]
    /\ away'[q] = away[q]

\* What a rank's row says stays while its row and all that was brought do.
LEMMA Others ==
    ASSUME NEW q \in Rank, LaneOK(q), SameRow(q), program' = program, brought' = brought
    PROVE  LaneOK(q)'
<1>0. Step' = Step /\ (ip[q])' = ip[q]
  BY DEF Step, SameRow
<1>1. PlaceAt(q)'
  BY <1>0 DEF LaneOK, PlaceAt, SameRow, Op
<1>2. StageAt(q)'
  BY <1>0 DEF LaneOK, StageAt, StageHere, SameRow, Op
<1>3. QueueAt(q)'
  BY <1>0 DEF LaneOK, QueueAt, SameRow
<1>4. OwnerAt(q)'
  BY <1>0 DEF LaneOK, OwnerAt, SameRow, Op
<1>5. OrderAt(q)'
  BY <1>0 DEF LaneOK, OrderAt, SameRow, Entered
<1>6. ErrorAt(q)'
  BY <1>0 DEF LaneOK, ErrorAt, SameRow
<1>7. BroughtAt(q)'
  BY <1>0 DEF LaneOK, BroughtAt, Telling, Agreeing, SameRow, Op
<1>8. DirtyAt(q)'
  BY <1>0 DEF LaneOK, DirtyAt, SameRow, Unwinding
<1>9. SteadyAt(q)'
  BY <1>0 DEF LaneOK, SteadyAt, SameRow, Unwinding, Op, SlotOf
<1>10. ReadsAt(q)'
  BY <1>0 DEF LaneOK, ReadsAt, SameRow, Clean, Sealed, Op
<1>11. ReportAt(q)'
  BY <1>0 DEF LaneOK, ReportAt, SameRow, Concluded
<1> QED
  BY <1>1, <1>2, <1>3, <1>4, <1>5, <1>6, <1>7, <1>8, <1>9, <1>10, <1>11 DEF LaneOK

-----------------------------------------------------------------------------
(* The steps of a main thread that bring it to HDF5 *)

\* What does not depend on where the main thread is.
LEMMA DataKept ==
    ASSUME NEW r \in Rank, LaneOK(r), program' = program, brought' = brought,
           queue'[r] = queue[r], stage'[r] = stage[r], failed'[r] = failed[r],
           error'[r] = error[r], report'[r] = report[r]
    PROVE  QueueAt(r)' /\ OrderAt(r)' /\ ErrorAt(r)' /\ ReportAt(r)'
<1>0. Step' = Step
  BY DEF Step
<1>1. QueueAt(r)'
  BY <1>0 DEF LaneOK, QueueAt
<1>2. OrderAt(r)'
  BY <1>0 DEF LaneOK, OrderAt, Entered
<1>3. ErrorAt(r)'
  BY <1>0 DEF LaneOK, ErrorAt
<1>4. ReportAt(r)'
  BY <1>0 DEF LaneOK, ReportAt, Concluded
<1> QED
  BY <1>1, <1>2, <1>3, <1>4

\* A rank that is not in an operation has not brought anything to it.
LEMMA NotYetBrought ==
    ASSUME NEW r \in Rank, LaneOK(r), NEW k \in Step, k = ip[r],
           main[r] \notin {"hearing", "posting", "calling", "inside"}
    PROVE  brought[r][k] = NotBrought
BY DEF LaneOK, BroughtAt, Agreeing

\* A step from one place that takes no part in an operation to another.
LEMMA PlaceKeeps ==
    ASSUME LaneAssumption, IInv, NEW r \in Rank, NEW where \in Main,
           main[r] \in Between \cup {"draining", "settling"},
           where \in Between \cup {"draining", "settling"},
           where \notin Between => ip[r] \in Step,
           where = "settling" /\ Op(r) \notin Writes => owner'[r] = NoSlot,
           where \notin Between /\ Op(r) # "close" => ~Unwinding(r, SlotOf(r)),
           \A i \in Step : program[i].op \in Writes /\ stage[r][i] \in Held =>
              owner'[r] # NoSlot,
           \A i \in Step : i < ip[r] /\ stage[r][i] \in Held /\ program[i].op = "read" =>
              i \in tracked'[r],
           main' = [main EXCEPT ![r] = where],
           \A q \in Rank \ {r} : owner'[q] = owner[q] /\ tracked'[q] = tracked[q],
           away[r] \subseteq away'[r], \A q \in Rank \ {r} : away'[q] = away[q],
           where \notin Between => away'[r] = away[r],
           UNCHANGED <<program, ip, queue, stage, handle>>,
           TypesOK'
    PROVE  IInv'
<1>0. TypesOK /\ LaneOK(r) /\ Step' = Step
  BY DEF IInv, Step
<1>1. main'[r] = where /\ \A q \in Rank \ {r} : main'[q] = main[q]
  BY <1>0 DEF TypesOK, TypeOK
<1>2. /\ program' = program /\ ip' = ip /\ queue' = queue /\ stage' = stage
      /\ failed' = failed /\ error' = error /\ dirty' = dirty
      /\ brought' = brought /\ report' = report
  BY DEF handle
<1>3. \A q \in Rank \ {r} : LaneOK(q)'
  BY <1>1, <1>2, Others DEF IInv, SameRow
<1>4. QueueAt(r)' /\ OrderAt(r)' /\ ErrorAt(r)' /\ ReportAt(r)'
  BY <1>0, <1>2, DataKept
<1>5. PlaceAt(r)'
  BY <1>0, <1>1, <1>2 DEF PlaceAt, Between
<1>6. StageAt(r)'
  <2>1. StageHere(r)'
    BY <1>0, <1>1, <1>2 DEF LaneOK, StageAt, StageHere, Between
  <2>2. main'[r] \notin Alone \cup {"putting"}
    BY <1>1 DEF Alone, Between
  <2> QED
    BY <1>0, <1>2, <2>1, <2>2 DEF LaneOK, StageAt
<1>7. OwnerAt(r)'
  BY <1>0, <1>1, <1>2 DEF OwnerAt, Alone, Between, Op
<1>8. BroughtAt(r)'
  <2>1. main'[r] # "hearing"
    BY <1>1 DEF Between
  <2>2. ASSUME NEW k \in Step, brought[r][k] # NotBrought
        PROVE  Telling(r, k)' /\ Agreeing(r, k)'
    <3>1. Telling(r, k) /\ Agreeing(r, k)
      BY <1>0, <2>2 DEF LaneOK, BroughtAt
    <3>2. k # ip[r]
      BY <1>0, <2>2, NotYetBrought DEF Between
    <3>3. Telling(r, k)'
      BY <1>0, <1>2, <3>1 DEF Telling
    <3>4. Agreeing(r, k)'
      BY <1>0, <1>2, <3>1, <3>2 DEF Agreeing
    <3> QED
      BY <3>3, <3>4
  <2> QED
    BY <1>0, <1>2, <2>1, <2>2 DEF BroughtAt
<1>9. DirtyAt(r)'
  BY <1>0, <1>2 DEF LaneOK, DirtyAt, Unwinding
<1>10. SteadyAt(r)'
  BY <1>0, <1>1, <1>2 DEF SteadyAt, Unwinding, Op, SlotOf
<1>11. ReadsAt(r)'
  <2>1. main'[r] \notin {"posting", "calling", "inside"}
    BY <1>1 DEF Between
  <2>2. \A j \in Step : Clean(j)' <=> Clean(j)
    BY <1>0, <1>2 DEF Clean, Sealed
  <2> QED
    BY <1>0, <1>2, <2>1, <2>2 DEF LaneOK, ReadsAt
<1>12. LaneOK(r)'
  BY <1>4, <1>5, <1>6, <1>7, <1>8, <1>9, <1>10, <1>11 DEF LaneOK
<1> QED
  BY <1>3, <1>12 DEF IInv

\* An operation begins, and waits for the writes of another handle or for all.
LEMMA BeginKeeps ==
    ASSUME LaneAssumption, IInv, NEW r \in Rank, Begin(r)
    PROVE  IInv'
<1>0. TypesOK /\ LaneOK(r)
  BY DEF IInv
<1>1. PICK where \in {"draining", "settling"} :
        /\ where = IF MustDrain(r) THEN "draining" ELSE "settling"
        /\ main' = [main EXCEPT ![r] = where]
  BY DEF Begin, Goto
<1>2. /\ main[r] = "ready" /\ ip[r] \in Step
      /\ UNCHANGED <<program, ip, owner, queue, tracked, stage, handle,
                     spoiled, away, caught, local>>
  BY DEF posted, Begin, lane
<1>3. TypesOK'
  BY <1>0, <1>1, <1>2 DEF TypesOK, TypeOK, Main, handle, Step
<1>4. Op(r) # "close" => ~Unwinding(r, SlotOf(r))
  BY DEF Begin
<1>5. where = "settling" /\ Op(r) \notin Writes => owner'[r] = NoSlot
  BY <1>1, <1>2 DEF MustDrain
<1>6. \A i \in Step : program[i].op \in Writes /\ stage[r][i] \in Held => owner'[r] # NoSlot
  BY <1>0, <1>2 DEF LaneOK, OwnerAt
<1>7. \A i \in Step : i < ip[r] /\ stage[r][i] \in Held /\ program[i].op = "read" =>
              i \in tracked'[r]
  BY <1>0, <1>2 DEF LaneOK, StageAt, Writes
<1> QED
  BY <1>1, <1>2, <1>3, <1>4, <1>5, <1>6, <1>7, PlaceKeeps DEF Between, Main, Begin, Goto

\* When the dispatcher is drained no write is left.
LEMMA NoneHeld ==
    ASSUME NEW r \in Rank, Drained(r)
    PROVE  \A i \in Step : program[i].op \in Writes => stage[r][i] \notin Held
BY DEF Drained, Held

\* What a drained lane gives up is not needed.
LEMMA FinishWritesKeeps ==
    ASSUME LaneAssumption, IInv, NEW r \in Rank, FinishWrites(r)
    PROVE  IInv'
<1>0. TypesOK /\ LaneOK(r)
  BY DEF IInv
<1>1. /\ main[r] = "draining" /\ main' = [main EXCEPT ![r] = "settling"]
      /\ owner' = [owner EXCEPT ![r] = IF Op(r) \in Writes THEN @ ELSE NoSlot]
      /\ UNCHANGED <<program, ip, queue, tracked, stage, handle,
                     spoiled, away, caught, local>>
  BY DEF posted, FinishWrites, Goto
<1>2. /\ owner'[r] = IF Op(r) \in Writes THEN owner[r] ELSE NoSlot
      /\ \A q \in Rank \ {r} : owner'[q] = owner[q]
      /\ owner' \in [Rank -> Slot \cup {NoSlot}]
  BY <1>0, <1>1 DEF TypesOK, TypeOK
<1>3. TypesOK'
  BY <1>0, <1>1, <1>2 DEF TypesOK, TypeOK, Main, handle, Step
<1>4. ip[r] \in Step /\ (Op(r) # "close" => ~Unwinding(r, SlotOf(r)))
  BY <1>0, <1>1 DEF LaneOK, PlaceAt, SteadyAt, Between
<1>5. \A i \in Step : program[i].op \in Writes => stage[r][i] \notin Held
  BY NoneHeld DEF FinishWrites
<1>7. \A i \in Step : i < ip[r] /\ stage[r][i] \in Held /\ program[i].op = "read" =>
              i \in tracked'[r]
  BY <1>0, <1>1 DEF LaneOK, StageAt, Writes
<1> QED
  BY <1>1, <1>2, <1>3, <1>4, <1>5, <1>7, PlaceKeeps DEF Between, Main

\* A rank may finish its own pending work at any time.
LEMMA QuiesceKeeps ==
    ASSUME LaneAssumption, IInv, NEW r \in Rank,
           Quiesce(r) \/ QuiesceWrites(r) \/ QuiesceReads(r) \/ QuiesceRaises(r)
    PROVE  IInv'
<1>0. TypesOK /\ LaneOK(r)
  BY DEF IInv
<1>6. \A i \in Step : program[i].op \in Writes /\ stage[r][i] \in Held => owner[r] # NoSlot
  BY <1>0 DEF LaneOK, OwnerAt
<1>7. \A i \in Step : i < ip[r] /\ stage[r][i] \in Held /\ program[i].op = "read" =>
        i \in tracked[r]
  BY <1>0 DEF LaneOK, StageAt, Writes
<1>1. CASE Quiesce(r)
  <2>1. PICK where \in {"localdraining", "localsettling"} :
          main' = [main EXCEPT ![r] = where]
    BY <1>1 DEF Quiesce, Goto
  <2>2. /\ main[r] = "ready" /\ local' = [local EXCEPT ![r] = @ + 1] /\ local[r] < MaxLocal
        /\ UNCHANGED <<program, ip, owner, queue, tracked, stage, handle,
                       spoiled, away, caught>>
    BY <1>1 DEF posted, Quiesce, lane
  <2>3. local' \in [Rank -> 0 .. MaxLocal]
    BY <1>0, <2>2 DEF TypesOK, TypeOK, LaneAssumption
  <2>4. TypesOK'
    BY <1>0, <2>1, <2>2, <2>3 DEF TypesOK, TypeOK, Main, handle, Step
  <2> QED
    BY <1>6, <1>7, <2>1, <2>2, <2>4, PlaceKeeps DEF Between, Main
<1>2. CASE QuiesceWrites(r)
  <2>1. /\ main[r] = "localdraining" /\ main' = [main EXCEPT ![r] = "localsettling"]
        /\ owner' = [owner EXCEPT ![r] = NoSlot]
        /\ UNCHANGED <<program, ip, queue, tracked, stage, handle,
                       spoiled, away, caught, local>>
    BY <1>2 DEF posted, QuiesceWrites, Goto
  <2>2. /\ \A q \in Rank \ {r} : owner'[q] = owner[q]
        /\ owner' \in [Rank -> Slot \cup {NoSlot}]
    BY <1>0, <2>1 DEF TypesOK, TypeOK
  <2>3. TypesOK'
    BY <1>0, <2>1, <2>2 DEF TypesOK, TypeOK, Main, handle, Step
  <2>4. \A i \in Step : program[i].op \in Writes => stage[r][i] \notin Held
    BY <1>2, NoneHeld DEF QuiesceWrites
  <2> QED
    BY <1>7, <2>1, <2>2, <2>3, <2>4, PlaceKeeps DEF Between, Main
<1>3. CASE QuiesceReads(r)
  <2>1. /\ main[r] = "localsettling" /\ main' = [main EXCEPT ![r] = "ready"]
        /\ tracked' = [tracked EXCEPT ![r] = {}] /\ Settled(r)
        /\ UNCHANGED <<program, ip, owner, queue, stage, handle,
                       spoiled, away, caught, local>>
    BY <1>3 DEF posted, QuiesceReads, Goto
  <2>2. /\ \A q \in Rank \ {r} : tracked'[q] = tracked[q]
        /\ tracked' \in [Rank -> SUBSET Step]
    BY <1>0, <2>1 DEF TypesOK, TypeOK
  <2>3. TypesOK'
    BY <1>0, <2>1, <2>2 DEF TypesOK, TypeOK, Main, handle, Step
  <2>4. \A i \in Step : ~(i < ip[r] /\ stage[r][i] \in Held /\ program[i].op = "read")
    BY <1>7, <2>1 DEF Settled, Held
  <2> QED
    BY <1>6, <2>1, <2>2, <2>3, <2>4, PlaceKeeps DEF Between, Main
<1>4. CASE QuiesceRaises(r)
  <2>1. /\ main[r] = "localsettling" /\ main' = [main EXCEPT ![r] = "ready"]
        /\ tracked' = [tracked EXCEPT ![r] = {}] /\ Settled(r)
        /\ UNCHANGED <<program, ip, owner, queue, stage, handle, spoiled, caught, local>>
    BY <1>4 DEF QuiesceRaises, ReadRaises, Goto
  <2>0. PICK out \in SUBSET Slot : away' = [away EXCEPT ![r] = @ \cup out]
    BY <1>4 DEF QuiesceRaises
  <2>2. /\ \A q \in Rank \ {r} : tracked'[q] = tracked[q] /\ away'[q] = away[q]
        /\ tracked' \in [Rank -> SUBSET Step] /\ away' \in [Rank -> SUBSET Slot]
        /\ away[r] \subseteq away'[r]
    BY <1>0, <2>0, <2>1 DEF TypesOK, TypeOK
  <2>3. TypesOK'
    BY <1>0, <2>1, <2>2 DEF TypesOK, TypeOK, Main, handle, Step
  <2>4. \A i \in Step : ~(i < ip[r] /\ stage[r][i] \in Held /\ program[i].op = "read")
    BY <1>7, <2>1 DEF Settled, Held
  <2> QED
    BY <1>6, <2>1, <2>2, <2>3, <2>4, PlaceKeeps DEF Between, Main
<1> QED
  BY <1>1, <1>2, <1>3, <1>4

-----------------------------------------------------------------------------
(* From one operation to the next *)

\* What a rank has gone past may only have changed at the operation it leaves.
LEMMA AdvanceKeeps ==
    ASSUME LaneAssumption, TypesOK, NEW r \in Rank, LaneOK(r), ip[r] \in Step,
           program' = program, brought' = brought, failed'[r] = failed[r],
           ip'[r] = ip[r] + 1, main'[r] = "ready", away[r] \subseteq away'[r],
           \A i \in Step : i # ip[r] => stage'[r][i] = stage[r][i],
           Op(r) = "close" => stage'[r][ip[r]] = stage[r][ip[r]],
           brought[r][ip[r]] # NotBrought => \A q \in Rank : brought[q][ip[r]] # NotBrought
    PROVE  BroughtAt(r)' /\ PlaceAt(r)' /\ SteadyAt(r)' /\ StageHere(r)'
           /\ \A s \in Slot : Unwinding(r, s) => Unwinding(r, s)'
<1> DEFINE n == ip[r]
<1>0. Step' = Step /\ Step \subseteq Nat /\ n \in Nat /\ n + 1 > n
  BY Facts DEF Step
<1>1. ASSUME NEW k \in Step, brought[r][k] # NotBrought
      PROVE  Telling(r, k)' /\ Agreeing(r, k)'
  <2>1. Telling(r, k) /\ Agreeing(r, k)
    BY <1>1 DEF LaneOK, BroughtAt
  <2>2. k \in Nat /\ k <= n
    BY <1>0, <2>1 DEF Telling
  <2>3. /\ \A i \in 1 .. k - 1 : stage'[r][i] \in Left
        /\ program[k].op = "close" => stage'[r][k] = "done"
    <3>1. \A i \in 1 .. k - 1 : i \in Step /\ i # n
      BY <1>0, <2>2, Facts
    <3>2. program[k].op = "close" => stage'[r][k] = stage[r][k]
      BY <1>0 DEF Op
    <3> QED
      BY <2>1, <3>1, <3>2 DEF Telling
  <2>4. k <= ip'[r]
    BY <1>0, <2>2
  <2>5. Telling(r, k)'
    BY <2>1, <2>3, <2>4 DEF Telling
  <2>6. k # ip'[r] /\ \A q \in Rank : brought[q][k] # NotBrought
    BY <1>0, <1>1, <2>1, <2>2 DEF Agreeing
  <2>7. Agreeing(r, k)'
    BY <2>6 DEF Agreeing
  <2> QED
    BY <2>5, <2>7
<1>2. BroughtAt(r)'
  BY <1>0, <1>1 DEF BroughtAt
<1>3. PlaceAt(r)' /\ SteadyAt(r)'
  BY DEF PlaceAt, SteadyAt, Between
<1>4. StageHere(r)'
  BY <1>0 DEF LaneOK, StageAt, StageHere
<1>5. \A s \in Slot : Unwinding(r, s) => Unwinding(r, s)'
  <2> SUFFICES ASSUME NEW s \in Slot, Unwinding(r, s) PROVE Unwinding(r, s)'
    OBVIOUS
  <2>0. CASE s \in away[r]
    BY <2>0 DEF Unwinding
  <2> SUFFICES ASSUME s \notin away[r] PROVE Unwinding(r, s)'
    BY <2>0
  <2>1. PICK i \in 1 .. n - 1 :
           /\ program[i].slot = s /\ program[i].op \in Reads
           /\ brought[r][i] # NotBrought
           /\ \E q \in Rank : brought[q][i] \notin {None, NotBrought}
    BY DEF Unwinding
  <2>2. i \in 1 .. ip'[r] - 1
    BY <1>0
  <2> QED
    BY <2>1, <2>2 DEF Unwinding
<1> QED
  BY <1>2, <1>3, <1>4, <1>5

\* Whether the writes before a read are sealed is a matter of what was brought.
LEMMA CleanKept ==
    ASSUME program' = program, brought' = brought
    PROVE  /\ Step' = Step /\ \A j : Clean(j)' <=> Clean(j)
           /\ \A q, i : Sealed(q, i)' <=> Sealed(q, i)
<1>1. Step' = Step
  BY DEF Step
<1>2. \A q, i : Sealed(q, i)' <=> Sealed(q, i)
  BY <1>1 DEF Sealed
<1> QED
  BY <1>1, <1>2 DEF Clean

\* A rank passes over an operation of a handle whose block it has left.
LEMMA PassOver ==
    ASSUME LaneAssumption, IInv, NEW r \in Rank, main[r] \in {"ready", "settling"},
           ip[r] \in Step, Op(r) # "close",
           Unwinding(r, SlotOf(r)) \/ SlotOf(r) \in away'[r],
           ip' = [ip EXCEPT ![r] = @ + 1], main' = [main EXCEPT ![r] = "ready"],
           tracked' \in [Rank -> SUBSET Step], away' \in [Rank -> SUBSET Slot],
           \A i \in tracked[r] \ tracked'[r] : stage[r][i] = "done",
           away[r] \subseteq away'[r],
           \A q \in Rank \ {r} : tracked'[q] = tracked[q] /\ away'[q] = away[q],
           UNCHANGED <<program, owner, queue, stage, failed, error, dirty, brought, report,
                       spoiled, caught, local>>
    PROVE  IInv'
<1>0. TypesOK /\ LaneOK(r)
  BY DEF IInv
<1>1. PICK t \in Slot : t = program[ip[r]].slot
  BY <1>0, Facts
<1>2. /\ ip'[r] = ip[r] + 1 /\ main'[r] = "ready" /\ ip' \in [Rank -> 1 .. Len(program) + 1]
      /\ \A q \in Rank \ {r} : ip'[q] = ip[q] /\ main'[q] = main[q]
      /\ main' \in [Rank -> Main]
  BY <1>0, <1>1, Facts DEF TypesOK, TypeOK, Main
<1>3. TypesOK'
  BY <1>0, <1>1, <1>2 DEF TypesOK, TypeOK, Step
<1>4. \A q \in Rank \ {r} : LaneOK(q)'
  BY <1>1, <1>2, Others DEF IInv, SameRow
<1>5. QueueAt(r)' /\ OrderAt(r)' /\ ErrorAt(r)' /\ ReportAt(r)'
  BY <1>0, <1>1, DataKept
<1>6. brought[r][ip[r]] = NotBrought /\ stage[r][ip[r]] = "none"
  BY <1>0, <1>1, NotYetBrought DEF LaneOK, StageAt, StageHere
<1>7. BroughtAt(r)' /\ PlaceAt(r)' /\ SteadyAt(r)' /\ StageHere(r)'
      /\ \A s \in Slot : Unwinding(r, s) => Unwinding(r, s)'
  BY <1>0, <1>1, <1>2, <1>6, AdvanceKeeps
<1>8. Step' = Step /\ ip[r] \in Nat /\ Step \subseteq Nat
  BY <1>0, <1>1, Facts DEF Step
<1>9. StageAt(r)'
  <2>1. \A i \in Step : i > ip'[r] => stage'[r][i] = "none"
    <3> SUFFICES ASSUME NEW i \in Step, i > ip[r] + 1 PROVE stage[r][i] = "none"
      BY <1>1, <1>2, <1>8
    <3>1. i > ip[r]
      BY <1>8
    <3> QED
      BY <1>0, <3>1 DEF LaneOK, StageAt
  <2>2. \A i \in Step : i < ip'[r] /\ stage'[r][i] \in Held =>
           program[i].op \in Writes \/ (program[i].op = "read" /\ i \in tracked'[r])
    <3> SUFFICES ASSUME NEW i \in Step, i < ip[r] + 1, stage[r][i] \in Held
                 PROVE  \/ program[i].op \in Writes
                        \/ program[i].op = "read" /\ i \in tracked'[r]
      BY <1>1, <1>2
    <3>1. i # ip[r]
      BY <1>6 DEF Held
    <3>2. i < ip[r]
      BY <1>8, <3>1
    <3>3. program[i].op \in Writes \/ (program[i].op = "read" /\ i \in tracked[r])
      BY <1>0, <3>2 DEF LaneOK, StageAt
    <3> QED
      BY <3>3 DEF Held
  <2>3. main'[r] \notin Alone \cup {"putting"}
    BY <1>2 DEF Alone
  <2> QED
    BY <1>0, <1>7, <1>8, <2>1, <2>2, <2>3 DEF LaneOK, StageAt
<1>10. OwnerAt(r)'
  BY <1>0, <1>1, <1>2, <1>8 DEF LaneOK, OwnerAt, Alone
<1>11. DirtyAt(r)'
  <2> SUFFICES ASSUME NEW i \in Step, i < ip'[r], program[i].op \in Writes
               PROVE  /\ stage[r][i] # "none" /\ ~dirty[r][program[i].slot] =>
                           \E k \in Step : /\ k > i /\ program[k].slot = program[i].slot
                                           /\ brought[r][k] # NotBrought
                      /\ stage[r][i] = "none" => Unwinding(r, program[i].slot)'
    BY <1>1, <1>8 DEF DirtyAt
  <2>0. program[i].slot \in Slot
    BY <1>0, Facts
  <2>1. CASE i = ip[r]
    <3>1. program[i].slot = t /\ (Unwinding(r, t) \/ t \in away'[r])
      BY <1>1, <2>1 DEF SlotOf
    <3>2. Unwinding(r, t)'
      BY <1>7, <3>1 DEF Unwinding
    <3> QED
      BY <1>6, <2>1, <3>1, <3>2
  <2>2. CASE i < ip[r]
    BY <1>0, <1>1, <1>7, <2>0, <2>2 DEF LaneOK, DirtyAt
  <2> QED
    BY <1>2, <1>8, <2>1, <2>2
<1>12. ReadsAt(r)'
  BY <1>0, <1>1, <1>2, CleanKept DEF LaneOK, ReadsAt
<1>13. LaneOK(r)'
  BY <1>5, <1>7, <1>9, <1>10, <1>11, <1>12 DEF LaneOK
<1> QED
  BY <1>3, <1>4, <1>13 DEF IInv

\* A rank leaves out what an error of its handle forbids, and what a posted read of
\* its own has made it raise at.
LEMMA SkipKeeps ==
    ASSUME LaneAssumption, IInv, NEW r \in Rank, Skip(r) \/ RaiseAlone(r)
    PROVE  IInv'
<1>0. TypesOK /\ LaneOK(r)
  BY DEF IInv
<1>1. CASE Skip(r)
  <2>1. /\ main[r] = "ready" /\ ip[r] \in Step /\ Unwinding(r, SlotOf(r)) /\ Op(r) # "close"
        /\ ip' = [ip EXCEPT ![r] = @ + 1] /\ main' = [main EXCEPT ![r] = "ready"]
        /\ UNCHANGED <<program, owner, queue, tracked, stage, failed, error, dirty, brought,
                       report, spoiled, away, caught, local>>
    BY <1>1 DEF Skip, Advance, Goto, lane, handle, posted
  <2>2. tracked' \in [Rank -> SUBSET Step] /\ away' \in [Rank -> SUBSET Slot]
    BY <1>0, <2>1 DEF TypesOK, TypeOK
  <2> QED
    BY <2>1, <2>2, PassOver
<1>2. CASE RaiseAlone(r)
  <2>1. /\ main[r] = "settling" /\ Op(r) # "close" /\ Settled(r)
        /\ tracked' = [tracked EXCEPT ![r] = {}]
        /\ ip' = [ip EXCEPT ![r] = @ + 1] /\ main' = [main EXCEPT ![r] = "ready"]
        /\ UNCHANGED <<program, owner, queue, stage, failed, error, dirty, brought,
                       report, spoiled, caught, local>>
    BY <1>2 DEF RaiseAlone, ReadRaises, Advance, Goto, handle
  <2>2. PICK out \in SUBSET Slot :
           SlotOf(r) \in out /\ away' = [away EXCEPT ![r] = @ \cup out]
    BY <1>2 DEF RaiseAlone
  <2>3. /\ \A q \in Rank \ {r} : tracked'[q] = tracked[q] /\ away'[q] = away[q]
        /\ tracked' \in [Rank -> SUBSET Step] /\ away' \in [Rank -> SUBSET Slot]
        /\ away[r] \subseteq away'[r] /\ SlotOf(r) \in away'[r]
    BY <1>0, <2>1, <2>2 DEF TypesOK, TypeOK
  <2>4. ip[r] \in Step
    BY <1>0, <2>1 DEF LaneOK, PlaceAt, Between
  <2>5. \A i \in tracked[r] \ tracked'[r] : stage[r][i] = "done"
    BY <2>1 DEF Settled
  <2> QED
    BY <2>1, <2>3, <2>4, <2>5, PassOver
<1> QED
  BY <1>1, <1>2

\* With the reads finished too, an operation other than a write has HDF5 to itself.
LEMMA SettleKeeps ==
    ASSUME LaneAssumption, IInv, NEW r \in Rank, main[r] = "settling", Settled(r),
           NEW where \in {"putting", "agreeing", "posting", "calling"},
           where = "putting" <=> Op(r) \in Writes,
           where = "agreeing" => Op(r) \in Reads,
           where = "posting" => Op(r) = "read" /\ ~dirty[r][SlotOf(r)],
           where = "calling" => Op(r) \in {"create", "close"},
           main' = [main EXCEPT ![r] = where], tracked' = [tracked EXCEPT ![r] = {}],
           caught' \in [Rank -> SUBSET Slot],
           UNCHANGED <<program, ip, owner, queue, stage, failed, error, dirty, brought,
                       report, spoiled, away, local>>
    PROVE  IInv'
<1>0. TypesOK /\ LaneOK(r)
  BY DEF IInv
<1>1. main' = [main EXCEPT ![r] = where]
  OBVIOUS
<1>2. /\ main[r] = "settling" /\ Settled(r) /\ tracked' = [tracked EXCEPT ![r] = {}]
      /\ UNCHANGED <<program, ip, owner, queue, stage, failed, error, dirty, brought,
                     report, spoiled, away, local>>
  OBVIOUS
<1>3. /\ main'[r] = where /\ tracked'[r] = {}
      /\ \A q \in Rank \ {r} : main'[q] = main[q] /\ tracked'[q] = tracked[q]
      /\ main' \in [Rank -> Main] /\ tracked' \in [Rank -> SUBSET Step]
  BY <1>0, <1>1, <1>2 DEF TypesOK, TypeOK, Main
<1>4. TypesOK'
  BY <1>0, <1>2, <1>3 DEF TypesOK, TypeOK, Step
<1>5. \A q \in Rank \ {r} : LaneOK(q)'
  BY <1>2, <1>3, Others DEF IInv, SameRow
<1>6. QueueAt(r)' /\ OrderAt(r)' /\ ErrorAt(r)' /\ ReportAt(r)'
  BY <1>0, <1>2, DataKept
<1>7. /\ Step' = Step /\ ip[r] \in Step /\ ip[r] \in Nat /\ Step \subseteq Nat
      /\ Op(r) \in Operation /\ SlotOf(r) \in Slot /\ ip' = ip
      /\ dirty[r][SlotOf(r)] \in BOOLEAN
  BY <1>0, <1>2, Facts DEF Step, LaneOK, PlaceAt, Between, Op, SlotOf
<1>8. /\ where = "putting" <=> Op(r) \in Writes
      /\ where = "agreeing" => Op(r) \in Reads
      /\ where = "posting" => Op(r) = "read" /\ ~dirty[r][SlotOf(r)]
      /\ where = "calling" => Op(r) \in {"create", "close"}
      /\ where = "calling" => Op(r) \notin Reads
  BY DEF Reads
<1>9. PlaceAt(r)'
  BY <1>2, <1>3, <1>7, <1>8 DEF PlaceAt, Op, Reads
<1>10. brought[r][ip[r]] = NotBrought /\ stage[r][ip[r]] = "none"
  BY <1>0, <1>2, <1>7, NotYetBrought DEF LaneOK, StageAt, StageHere
<1>11. StageAt(r)'
  <2>1. StageHere(r)'
    BY <1>2, <1>3, <1>7, <1>8, <1>10 DEF StageHere, Op, Reads
  <2>2. \A i \in Step : i < ip'[r] /\ stage'[r][i] \in Held =>
           program[i].op \in Writes \/ (program[i].op = "read" /\ i \in tracked'[r])
    BY <1>0, <1>2, <1>3, <1>7 DEF LaneOK, StageAt, Settled, Held
  <2> QED
    BY <1>0, <1>2, <1>3, <1>7, <2>1, <2>2 DEF LaneOK, StageAt
<1>12. OwnerAt(r)'
  <2>1. Op(r) \notin Writes => owner[r] = NoSlot
    BY <1>0, <1>2 DEF LaneOK, OwnerAt
  <2> QED
    BY <1>0, <1>2, <1>3, <1>7, <1>8, <2>1 DEF LaneOK, OwnerAt, Alone, Op
<1>13. BroughtAt(r)'
  <2>1. ASSUME NEW k \in Step, brought[r][k] # NotBrought
        PROVE  Telling(r, k)' /\ Agreeing(r, k)'
    <3>1. Telling(r, k) /\ Agreeing(r, k) /\ k # ip[r]
      BY <1>0, <1>10, <2>1 DEF LaneOK, BroughtAt
    <3>2. Telling(r, k)'
      BY <1>2, <1>7, <3>1 DEF Telling
    <3>3. Agreeing(r, k)'
      BY <1>2, <1>7, <3>1 DEF Agreeing
    <3> QED
      BY <3>2, <3>3
  <2> QED
    BY <1>2, <1>3, <1>7, <2>1 DEF BroughtAt
<1>14. DirtyAt(r)'
  BY <1>0, <1>2, <1>7 DEF LaneOK, DirtyAt, Unwinding
<1>15. SteadyAt(r)'
  BY <1>0, <1>2, <1>3, <1>7 DEF LaneOK, SteadyAt, Unwinding, Op, SlotOf, Between
<1>16. ASSUME Op(r) \in Reads, ~dirty[r][SlotOf(r)]
       PROVE  Clean(ip[r])
  <2> SUFFICES ASSUME NEW q \in Rank, NEW i \in 1 .. ip[r] - 1,
                      program[i].op \in Writes, program[i].slot = SlotOf(r)
               PROVE  Sealed(q, i)
    BY DEF Clean, SlotOf
  <2>0. i \in Step /\ i < ip[r]
    BY <1>0, <1>7, Facts
  <2>1. ~Unwinding(r, SlotOf(r))
    BY <1>0, <1>2, <1>16 DEF LaneOK, SteadyAt, Between, Reads
  <2>2. stage[r][i] # "none"
    BY <1>0, <2>0, <2>1 DEF LaneOK, DirtyAt
  <2>3. PICK k \in Step :
          k > i /\ program[k].slot = program[i].slot /\ brought[r][k] # NotBrought
    BY <1>0, <1>16, <2>0, <2>2 DEF LaneOK, DirtyAt
  <2>4. Telling(r, k) /\ Agreeing(r, k) /\ k # ip[r]
    BY <1>0, <1>10, <2>3 DEF LaneOK, BroughtAt
  <2>5. k < ip[r] /\ k \in Nat
    BY <1>7, <2>4 DEF Telling
  <2>6. program[k].op \in Reads
    <3>1. program[k].op # "close"
      BY <1>0, <1>7, <2>3, <2>5, Facts DEF SlotOf
    <3> QED
      BY <2>4, <3>1 DEF Telling
  <2>7. \A p \in Rank : brought[p][k] # NotBrought
    BY <2>4, <2>5 DEF Agreeing
  <2>8. k \in 1 .. ip[r] - 1
    BY <1>0, <1>7, <2>5, Facts
  <2>9. \A p \in Rank : brought[p][k] = None
    BY <2>1, <2>3, <2>6, <2>7, <2>8 DEF Unwinding
  <2> QED
    BY <2>3, <2>6, <2>9 DEF Sealed
<1>17. ReadsAt(r)'
  <2>1. main'[r] \in {"posting", "calling", "inside"} /\ Op(r) \in Reads => Clean(ip[r])
    BY <1>3, <1>8, <1>16
  <2> QED
    BY <1>0, <1>2, <1>7, <2>1, CleanKept DEF LaneOK, ReadsAt, Op
<1>18. LaneOK(r)'
  BY <1>6, <1>9, <1>11, <1>12, <1>13, <1>14, <1>15, <1>17 DEF LaneOK
<1> QED
  BY <1>4, <1>5, <1>18 DEF IInv

\* What the rank comes to once no read of its own is in flight.
LEMMA FinishReadsKeeps ==
    ASSUME LaneAssumption, IInv, NEW r \in Rank, FinishReads(r) \/ CatchInClose(r)
    PROVE  IInv'
<1>0. /\ TypesOK /\ LaneOK(r) /\ main[r] = "settling" /\ Settled(r) /\ ip[r] \in Step
      /\ tracked' = [tracked EXCEPT ![r] = {}]
      /\ UNCHANGED <<program, ip, owner, queue, stage, failed, error, dirty, brought,
                     report, spoiled, away, local>>
  BY DEF IInv, FinishReads, CatchInClose, ReadRaises, handle, posted, LaneOK, PlaceAt, Between
<1>1. Op(r) \in Operation /\ dirty[r][SlotOf(r)] \in BOOLEAN
  BY <1>0, Facts DEF Op, SlotOf
<1>2. CASE FinishReads(r)
  <2> DEFINE w == CASE Op(r) \in Writes -> "putting"
                    [] Op(r) \in Reads /\ dirty[r][SlotOf(r)] -> "agreeing"
                    [] Op(r) \in Reads /\ ~dirty[r][SlotOf(r)] -> "posting"
                    [] OTHER -> "calling"
  <2>1. main' = [main EXCEPT ![r] = w] /\ caught' \in [Rank -> SUBSET Slot]
    BY <1>0, <1>2 DEF FinishReads, Goto, posted, TypesOK, TypeOK
  <2>2. /\ w \in {"putting", "agreeing", "posting", "calling"}
        /\ w = "putting" <=> Op(r) \in Writes
        /\ w = "agreeing" => Op(r) \in Reads
        /\ w = "posting" => Op(r) = "read" /\ ~dirty[r][SlotOf(r)]
        /\ w = "calling" => Op(r) \in {"create", "close"}
    BY <1>1 DEF Operation, Writes, Reads
  <2> QED
    BY <1>0, <2>1, <2>2, SettleKeeps
<1>3. CASE CatchInClose(r)
  <2>1. /\ Op(r) = "close" /\ Op(r) \notin Writes /\ main' = [main EXCEPT ![r] = "calling"]
    BY <1>3 DEF CatchInClose, Goto, Writes
  <2>2. caught' \in [Rank -> SUBSET Slot]
    <3>1. SlotOf(r) \in Slot
      BY <1>0, Facts DEF SlotOf
    <3> QED
      BY <1>0, <1>3, <3>1 DEF CatchInClose, TypesOK, TypeOK
  <2> QED
    BY <1>0, <2>1, <2>2, SettleKeeps
<1> QED
  BY <1>2, <1>3

-----------------------------------------------------------------------------
(* Writes are queued; reads are posted *)

\* Past the operation it leaves, a rank has begun nothing.
LEMMA AheadKept ==
    ASSUME LaneAssumption, TypesOK, NEW r \in Rank, LaneOK(r), ip[r] \in Step,
           \A i \in Step : i # ip[r] => stage'[r][i] = stage[r][i]
    PROVE  \A i \in Step : i > ip[r] => stage[r][i] = "none" /\ stage'[r][i] = "none"
BY Facts DEF LaneOK, StageAt

\* A write is queued behind the writes of its own handle.
LEMMA SubmitWriteKeeps ==
    ASSUME LaneAssumption, IInv, NEW r \in Rank, SubmitWrite(r)
    PROVE  IInv'
<1>0. TypesOK /\ LaneOK(r)
  BY DEF IInv
<1> DEFINE n == ip[r]
<1>1. /\ main[r] = "putting" /\ Len(queue[r]) < MaxQueued
      /\ owner' = [owner EXCEPT ![r] = SlotOf(r)]
      /\ queue' = [queue EXCEPT ![r] = Append(@, n)]
      /\ stage' = [stage EXCEPT ![r][n] = "queued"]
      /\ dirty' = [dirty EXCEPT ![r][SlotOf(r)] = TRUE]
      /\ ip' = [ip EXCEPT ![r] = @ + 1] /\ main' = [main EXCEPT ![r] = "ready"]
      /\ UNCHANGED <<program, tracked, failed, error, brought, report,
                     spoiled, away, caught, local>>
  BY DEF posted, SubmitWrite, Advance, Goto
<1>2. /\ n \in Step /\ Op(r) \in Writes /\ SlotOf(r) \in Slot /\ Step' = Step
      /\ Step \subseteq Nat /\ n \in Nat /\ SlotOf(r) # NoSlot /\ MaxQueued \in Nat
  BY <1>0, <1>1, Facts DEF LaneOK, PlaceAt, Between, SlotOf, Step, LaneAssumption
<1>3. /\ ip'[r] = n + 1 /\ main'[r] = "ready" /\ owner'[r] = SlotOf(r)
      /\ queue'[r] = Append(queue[r], n) /\ dirty'[r] = [dirty[r] EXCEPT ![SlotOf(r)] = TRUE]
      /\ stage'[r] = [stage[r] EXCEPT ![n] = "queued"]
  BY <1>0, <1>1 DEF TypesOK, TypeOK
<1>4. \A q \in Rank \ {r} : /\ ip'[q] = ip[q] /\ main'[q] = main[q] /\ owner'[q] = owner[q]
                            /\ queue'[q] = queue[q] /\ dirty'[q] = dirty[q]
                            /\ stage'[q] = stage[q]
  BY <1>0, <1>1 DEF TypesOK, TypeOK
<1>5. /\ Append(queue[r], n) \in Seq(Step) /\ Len(Append(queue[r], n)) = Len(queue[r]) + 1
      /\ Append(queue[r], n)[Len(queue[r]) + 1] = n
      /\ \A a \in 1 .. Len(queue[r]) :
           Append(queue[r], n)[a] = queue[r][a] /\ queue[r][a] \in Step
      /\ Len(queue[r]) \in Nat
  BY <1>0, <1>2, Facts, AppendProperties
<1>6. stage'[r][n] = "queued" /\ \A i \in Step : i # n => stage'[r][i] = stage[r][i]
  BY <1>0, <1>2, <1>3, Facts
<1>7. TypesOK'
  <2>1. /\ ip' \in [Rank -> 1 .. Len(program) + 1] /\ main' \in [Rank -> Main]
        /\ owner' \in [Rank -> Slot \cup {NoSlot}]
    BY <1>0, <1>1, <1>2, Facts DEF TypesOK, TypeOK, Main
  <2>2. stage' \in [Rank -> [Step -> Stages]] /\ dirty' \in [Rank -> [Slot -> BOOLEAN]]
    BY <1>0, <1>1, <1>2 DEF TypesOK, TypeOK, Stages
  <2>3. /\ queue' \in [Rank -> Seq(Step)]
        /\ \A q \in Rank : queue'[q] \in Seq(Step) /\ Len(queue'[q]) <= MaxQueued
    <3>1. queue' \in [Rank -> Seq(Step)]
      BY <1>0, <1>1, <1>5 DEF TypesOK
    <3>2. Len(queue'[r]) <= MaxQueued
      BY <1>1, <1>2, <1>3, <1>5
    <3>3. \A q \in Rank : Len(queue'[q]) <= MaxQueued
      BY <1>0, <1>4, <3>2 DEF TypesOK, TypeOK
    <3> QED
      BY <3>1, <3>3
  <2> QED
    BY <1>0, <1>1, <1>2, <2>1, <2>2, <2>3 DEF TypesOK, TypeOK, Stages
<1>8. \A q \in Rank \ {r} : LaneOK(q)'
  BY <1>1, <1>4, Others DEF IInv, SameRow
<1>9. brought[r][n] = NotBrought /\ stage[r][n] = "none"
  BY <1>0, <1>1, <1>2, NotYetBrought DEF LaneOK, StageAt, StageHere
<1>10. Op(r) # "close"
  BY <1>2 DEF Writes
<1>11. BroughtAt(r)' /\ PlaceAt(r)' /\ SteadyAt(r)' /\ StageHere(r)'
       /\ \A s \in Slot : Unwinding(r, s) => Unwinding(r, s)'
  BY <1>0, <1>1, <1>2, <1>3, <1>6, <1>9, <1>10, AdvanceKeeps
<1>12. \A i \in Step : i > n => stage[r][i] = "none" /\ stage'[r][i] = "none"
  BY <1>0, <1>2, <1>6, AheadKept
<1>13. \A i \in tracked[r] : stage[r][i] = "done"
  BY <1>0, <1>1 DEF LaneOK, StageAt
<1>14. \A i \in Step : i < n /\ stage[r][i] \in Held => program[i].op \in Writes
  BY <1>0, <1>13 DEF LaneOK, StageAt, Held
<1>15. StageAt(r)'
  <2>1. \A i \in Step : i > ip'[r] => stage'[r][i] = "none"
    <3> SUFFICES ASSUME NEW i \in Step, i > n + 1 PROVE stage'[r][i] = "none"
      BY <1>3
    <3>1. i > n
      BY <1>2
    <3> QED
      BY <1>12, <3>1
  <2>2. \A i \in Step : i < ip'[r] /\ stage'[r][i] \in Held => program[i].op \in Writes
    <3> SUFFICES ASSUME NEW i \in Step, i < n + 1, stage'[r][i] \in Held
                 PROVE  program[i].op \in Writes
      BY <1>3
    <3>1. i < n \/ i = n
      BY <1>2
    <3>2. CASE i = n
      BY <1>2, <3>2 DEF Op
    <3>3. CASE i < n
      <4>1. i # n
        BY <1>2, <3>3
      <4> QED
        BY <1>6, <1>14, <3>3, <4>1
    <3> QED
      BY <3>1, <3>2, <3>3
  <2>3. main'[r] \notin Alone \cup {"putting"}
    BY <1>3 DEF Alone
  <2>4. \A i \in Step : stage'[r][i] = "queued" => program[i].op \in Writes \cup {"read"}
    BY <1>0, <1>2, <1>6 DEF LaneOK, StageAt, Op
  <2> QED
    BY <1>1, <1>2, <1>11, <2>1, <2>2, <2>3, <2>4 DEF StageAt
<1>16. QueueAt(r)'
  <2>1. ASSUME NEW a \in 1 .. Len(queue[r]) + 1
        PROVE  /\ program[queue'[r][a]].op \in Writes /\ stage'[r][queue'[r][a]] = "queued"
               /\ \A b \in 1 .. a - 1 : queue'[r][b] < queue'[r][a]
    <3>0. a \in 1 .. Len(queue[r]) \/ a = Len(queue[r]) + 1
      BY <1>5
    <3>1. CASE a = Len(queue[r]) + 1
      <4>1. queue'[r][a] = n /\ program[n].op \in Writes
        BY <1>2, <1>3, <1>5, <3>1 DEF Op
      <4>2. ASSUME NEW b \in 1 .. a - 1 PROVE queue'[r][b] < n
        <5>1. b \in 1 .. Len(queue[r])
          BY <1>5, <3>1
        <5>2. PICK i \in Step : i = queue[r][b]
          BY <1>5, <5>1
        <5>3. queue'[r][b] = i /\ stage[r][i] = "queued"
          BY <1>0, <1>3, <1>5, <5>1, <5>2 DEF LaneOK, QueueAt
        <5>4. i # n /\ ~(i > n)
          BY <1>9, <1>12, <5>3
        <5> QED
          BY <1>2, <5>3, <5>4
      <4> QED
        BY <1>6, <4>1, <4>2
    <3>2. CASE a \in 1 .. Len(queue[r])
      <4>1. queue'[r][a] = queue[r][a] /\ queue[r][a] \in Step
        BY <1>3, <1>5, <3>2
      <4>2. program[queue[r][a]].op \in Writes /\ stage[r][queue[r][a]] = "queued"
        BY <1>0, <3>2 DEF LaneOK, QueueAt
      <4>3. stage'[r][queue[r][a]] = "queued"
        BY <1>6, <4>1, <4>2
      <4>4. ASSUME NEW b \in 1 .. a - 1 PROVE queue'[r][b] < queue'[r][a]
        <5>1. b \in 1 .. Len(queue[r])
          BY <1>5, <3>2
        <5>2. queue'[r][b] = queue[r][b]
          BY <1>3, <1>5, <5>1
        <5> QED
          BY <1>0, <3>2, <4>1, <5>2 DEF LaneOK, QueueAt
      <4> QED
        BY <4>1, <4>2, <4>3, <4>4
    <3> QED
      BY <3>0, <3>1, <3>2
  <2>2. ASSUME NEW i \in Step, program[i].op \in Writes, stage'[r][i] = "queued"
        PROVE  \E a \in 1 .. Len(queue[r]) + 1 : queue'[r][a] = i
    <3>1. CASE i = n
      BY <1>3, <1>5, <3>1
    <3>2. CASE i # n
      <4>1. PICK a \in 1 .. Len(queue[r]) : queue[r][a] = i
        BY <1>0, <1>6, <2>2, <3>2 DEF LaneOK, QueueAt
      <4>2. a \in 1 .. Len(queue[r]) + 1 /\ queue'[r][a] = i
        BY <1>3, <1>5, <4>1
      <4> QED
        BY <4>2
    <3> QED
      BY <3>1, <3>2
  <2>3. Len(queue'[r]) = Len(queue[r]) + 1
    BY <1>3, <1>5
  <2> QED
    BY <1>1, <1>2, <2>1, <2>2, <2>3 DEF QueueAt
<1>17. OwnerAt(r)'
  <2>1. owner'[r] # NoSlot /\ main'[r] \notin Alone \cup {"settling"}
    BY <1>2, <1>3 DEF Alone
  <2> QED
    BY <2>1 DEF OwnerAt
<1>18. OrderAt(r)'
  <2> SUFFICES ASSUME NEW j \in Step, NEW i \in 1 .. j - 1
               PROVE  /\ stage'[r][j] \in {"inside", "done"} => stage'[r][i] \in Left
                      /\ stage'[r][j] = "queued" =>
                           \/ stage'[r][i] \in Left
                           \/ program[i].op \in Writes /\ program[j].op \in Writes
    BY <1>1, <1>2 DEF OrderAt, Entered
  <2>0. i \in Step /\ i < j /\ i # j
    BY <1>0, <1>2, Facts
  <2>1. CASE j = n
    <3>1. stage'[r][i] = stage[r][i] /\ stage[r][i] \in Stages
      BY <1>0, <1>6, <2>0, <2>1, Facts
    <3>2. stage[r][i] \in Held => program[i].op \in Writes
      BY <1>14, <2>0, <2>1
    <3> QED
      BY <1>2, <1>6, <2>1, <3>1, <3>2 DEF Stages, Held, Left, Op
  <2>2. CASE j # n
    <3>1. j > n => stage'[r][j] = "none"
      BY <1>12
    <3>2. j < n => i # n
      BY <1>2, <2>0
    <3>3. stage'[r][j] = stage[r][j]
      BY <1>6, <2>2
    <3> QED
      BY <1>0, <1>2, <1>6, <2>0, <2>2, <3>1, <3>2, <3>3 DEF LaneOK, OrderAt, Entered
  <2> QED
    BY <2>1, <2>2
<1>19. ErrorAt(r)'
  BY <1>0, <1>1, <1>2, <1>6, <1>9 DEF LaneOK, ErrorAt
<1>20. DirtyAt(r)'
  <2> SUFFICES ASSUME NEW i \in Step, i < n + 1, program[i].op \in Writes
               PROVE  /\ stage'[r][i] # "none" /\ ~dirty'[r][program[i].slot] =>
                           \E k \in Step : /\ k > i /\ program[k].slot = program[i].slot
                                           /\ brought[r][k] # NotBrought
                      /\ stage'[r][i] = "none" => Unwinding(r, program[i].slot)'
    BY <1>1, <1>2, <1>3 DEF DirtyAt
  <2>0. program[i].slot \in Slot /\ dirty[r] \in [Slot -> BOOLEAN]
    BY <1>0, Facts
  <2>1. CASE i = n
    <3>1. dirty'[r][program[i].slot] = TRUE
      BY <1>2, <1>3, <2>0, <2>1 DEF SlotOf
    <3> QED
      BY <1>6, <2>1, <3>1
  <2>2. CASE i # n
    <3>1. i < n /\ stage'[r][i] = stage[r][i]
      BY <1>2, <1>6, <2>2
    <3>2. ~dirty'[r][program[i].slot] => ~dirty[r][program[i].slot]
      BY <1>2, <1>3, <2>0
    <3> QED
      BY <1>0, <1>1, <1>11, <2>0, <3>1, <3>2 DEF LaneOK, DirtyAt
  <2> QED
    BY <2>1, <2>2
<1>21. ReadsAt(r)'
  <2>1. \A j \in Step : program[j].op \in Reads => stage'[r][j] = stage[r][j]
    BY <1>2, <1>6 DEF Op, Writes, Reads
  <2> QED
    BY <1>0, <1>1, <1>3, <2>1, CleanKept DEF LaneOK, ReadsAt
<1>22. ReportAt(r)'
  BY <1>0, <1>1, <1>2 DEF LaneOK, ReportAt, Concluded
<1>23. LaneOK(r)'
  BY <1>11, <1>15, <1>16, <1>17, <1>18, <1>19, <1>20, <1>21, <1>22 DEF LaneOK
<1> QED
  BY <1>7, <1>8, <1>23 DEF IInv

-----------------------------------------------------------------------------
(* One operation goes on *)

\* Before an operation that is alone in HDF5 nothing is queued or under way.
LEMMA AllLeft ==
    ASSUME LaneAssumption, TypesOK, NEW r \in Rank, LaneOK(r), main[r] \in Alone,
           Op(r) \notin Writes
    PROVE  \A i \in Step : i < ip[r] => stage[r][i] \in Left
<1> SUFFICES ASSUME NEW i \in Step, i < ip[r], stage[r][i] \notin Left PROVE FALSE
  OBVIOUS
<1>1. stage[r][i] \in Held
  BY Facts DEF Stages, Held, Left
<1>2. program[i].op \notin Writes
  BY <1>1 DEF LaneOK, OwnerAt
<1>3. stage[r][i] = "done"
  BY <1>1, <1>2 DEF LaneOK, StageAt
<1> QED
  BY <1>1, <1>3 DEF Held

\* The queue is one of writes.
LEMMA QueueKept ==
    ASSUME NEW r \in Rank, LaneOK(r), program' = program, queue'[r] = queue[r], NEW n \in Step,
           program[n].op \notin Writes, \A i \in Step : i # n => stage'[r][i] = stage[r][i],
           queue[r] \in Seq(Step)
    PROVE  QueueAt(r)'
<1>0. Step' = Step /\ \A a \in 1 .. Len(queue[r]) : queue[r][a] \in Step
  BY DEF Step
<1>1. \A a \in 1 .. Len(queue[r]) : stage'[r][queue[r][a]] = stage[r][queue[r][a]]
  BY <1>0 DEF LaneOK, QueueAt
<1> QED
  BY <1>0, <1>1 DEF LaneOK, QueueAt

\* An operation changes its stage in its turn.
LEMMA OrderKept ==
    ASSUME LaneAssumption, TypesOK, NEW r \in Rank, LaneOK(r), program' = program, NEW n \in Step,
           \A i \in Step : i # n => stage'[r][i] = stage[r][i],
           \A i \in Step : i < n => stage[r][i] \in Left,
           \/ stage'[r][n] = "done"
           \/ \A j \in Step : j > n => /\ ~Entered(r, j)
                                       /\ stage[r][j] = "queued" =>
                                            program[n].op \in Writes /\ program[j].op \in Writes
    PROVE  OrderAt(r)'
<1> SUFFICES ASSUME NEW j \in Step, NEW i \in 1 .. j - 1
             PROVE  /\ stage'[r][j] \in {"inside", "done"} => stage'[r][i] \in Left
                    /\ stage'[r][j] = "queued" =>
                         \/ stage'[r][i] \in Left
                         \/ program[i].op \in Writes /\ program[j].op \in Writes
  BY DEF OrderAt, Entered, Step
<1>0. i \in Step /\ i < j /\ i # j /\ i \in Nat /\ j \in Nat /\ n \in Nat
  BY Facts
<1>1. CASE j = n
  BY <1>0, <1>1
<1>2. CASE i = n
  BY <1>0, <1>2 DEF LaneOK, OrderAt, Entered, Left
<1>3. CASE i # n /\ j # n
  BY <1>0, <1>3 DEF LaneOK, OrderAt, Entered
<1> QED
  BY <1>1, <1>2, <1>3

\* While no operation fails, errors stay what they are.
LEMMA ErrorKept ==
    ASSUME NEW r \in Rank, LaneOK(r), program' = program, failed'[r] = failed[r],
           error'[r] = error[r], NEW n \in Step,
           \A i \in Step : i # n => stage'[r][i] = stage[r][i],
           stage[r][n] = "done" => stage'[r][n] = "done"
    PROVE  ErrorAt(r)'
<1>0. Step' = Step
  BY DEF Step
<1>1. \A i \in Step : failed[r][i] =>
         stage'[r][i] = "done" /\ program[i].op \in Writes \cup {"close"}
  BY DEF LaneOK, ErrorAt
<1>2. \A s \in Slot : error'[r][s] # None <=>
         \E i \in Step : program[i].slot = s /\ failed'[r][i]
  BY DEF LaneOK, ErrorAt
<1> QED
  BY <1>0, <1>1, <1>2 DEF ErrorAt

\* A call enters HDF5 alone.
LEMMA CallKeeps ==
    ASSUME LaneAssumption, IInv, NEW r \in Rank, Call(r)
    PROVE  IInv'
<1>0. TypesOK /\ LaneOK(r)
  BY DEF IInv
<1> DEFINE n == ip[r]
<1>1. /\ main[r] = "calling" /\ stage' = [stage EXCEPT ![r][n] = "inside"]
      /\ main' = [main EXCEPT ![r] = "inside"]
      /\ UNCHANGED <<program, ip, owner, queue, tracked, failed, error, dirty, brought,
                     report, spoiled, away, caught, local>>
  BY DEF posted, Call, Goto, lane, handle
<1>2. /\ n \in Step /\ Op(r) \in {"create", "close"} /\ Step' = Step
      /\ Step \subseteq Nat /\ n \in Nat /\ Op(r) \notin Writes
  BY <1>0, <1>1, Facts DEF LaneOK, PlaceAt, Between, Step, Writes
<1>3. /\ main'[r] = "inside" /\ stage'[r][n] = "inside"
      /\ \A i \in Step : i # n => stage'[r][i] = stage[r][i]
      /\ \A q \in Rank \ {r} : main'[q] = main[q] /\ stage'[q] = stage[q]
      /\ main' \in [Rank -> Main] /\ stage' \in [Rank -> [Step -> Stages]]
  BY <1>0, <1>1, <1>2 DEF TypesOK, TypeOK, Stages, Main
<1>4. TypesOK'
  BY <1>0, <1>1, <1>2, <1>3 DEF TypesOK, TypeOK, Stages
<1>5. \A q \in Rank \ {r} : LaneOK(q)'
  BY <1>1, <1>3, Others DEF IInv, SameRow
<1>6. stage[r][n] = "none" /\ \A i \in Step : i > n => stage[r][i] = "none"
  BY <1>0, <1>1, <1>2 DEF LaneOK, StageAt, StageHere
<1>7. \A i \in Step : i < n => stage[r][i] \in Left
  BY <1>0, <1>1, <1>2, AllLeft DEF Alone
<1>8. PlaceAt(r)'
  BY <1>1, <1>2, <1>3 DEF PlaceAt, Op
<1>9. StageAt(r)'
  <2>1. StageHere(r)' /\ \A i \in tracked[r] : i # n /\ stage[r][i] = "done"
    BY <1>0, <1>1, <1>3, <1>6 DEF LaneOK, StageAt, StageHere, Alone
  <2>2. \A i \in tracked[r] : stage'[r][i] = "done"
    BY <1>0, <1>3, <2>1, Facts
  <2>3. \A i \in Step : i < n => stage'[r][i] \notin Held
    BY <1>2, <1>3, <1>7 DEF Held, Left
  <2>4. \A i \in Step : stage'[r][i] = "queued" => program[i].op \in Writes \cup {"read"}
    BY <1>0, <1>3 DEF LaneOK, StageAt
  <2>5. \A i \in Step : i > n => stage'[r][i] = "none"
    <3> SUFFICES ASSUME NEW i \in Step, i > n PROVE stage'[r][i] = "none"
      OBVIOUS
    <3>1. i # n
      BY <1>2
    <3> QED
      BY <1>3, <1>6, <3>1
  <2> QED
    BY <1>1, <1>2, <2>1, <2>2, <2>3, <2>4, <2>5 DEF StageAt
<1>10. QueueAt(r)'
  BY <1>0, <1>1, <1>2, <1>3, QueueKept, Facts, SMTT(60) DEF Op
<1>11. OwnerAt(r)'
  <2>1. owner[r] = NoSlot
    BY <1>0, <1>1, <1>2 DEF LaneOK, OwnerAt, Alone
  <2>2. \A i \in Step : program[i].op \in Writes => stage'[r][i] = stage[r][i]
    BY <1>2, <1>3 DEF Op
  <2> QED
    BY <1>0, <1>1, <1>2, <2>1, <2>2 DEF LaneOK, OwnerAt
<1>12. OrderAt(r)'
  <2>1. \A j \in Step : j > n => ~Entered(r, j) /\ stage[r][j] # "queued"
    BY <1>6 DEF Entered
  <2> QED
    BY <1>0, <1>1, <1>2, <1>3, <1>7, <2>1, OrderKept
<1>13. ErrorAt(r)'
  BY <1>0, <1>1, <1>2, <1>3, <1>6, ErrorKept
<1>14. BroughtAt(r)'
  <2>1. ASSUME NEW k \in Step, brought[r][k] # NotBrought
        PROVE  Telling(r, k)' /\ Agreeing(r, k)'
    <3>1. Telling(r, k) /\ Agreeing(r, k)
      BY <1>0, <2>1 DEF LaneOK, BroughtAt
    <3>2. k \in Nat /\ k <= n
      BY <1>2, <3>1 DEF Telling
    <3>3. /\ \A i \in 1 .. k - 1 : stage'[r][i] \in Left
          /\ program[k].op = "close" => stage'[r][k] = "done"
      <4>1. \A i \in 1 .. k - 1 : i \in Step /\ i # n
        BY <1>0, <1>2, <3>2, Facts
      <4>2. program[k].op = "close" => k # n
        BY <1>6, <3>1 DEF Telling
      <4> QED
        BY <1>3, <3>1, <4>1, <4>2 DEF Telling
    <3>4. Telling(r, k)'
      BY <1>1, <3>1, <3>3 DEF Telling
    <3>5. Agreeing(r, k)'
      BY <1>1, <1>3, <3>1 DEF Agreeing, Op
    <3> QED
      BY <3>4, <3>5
  <2> QED
    BY <1>1, <1>2, <1>3, <2>1 DEF BroughtAt
<1>15. DirtyAt(r)'
  <2>1. \A i \in Step : i < n => stage'[r][i] = stage[r][i]
    <3> SUFFICES ASSUME NEW i \in Step, i < n PROVE stage'[r][i] = stage[r][i]
      OBVIOUS
    <3>1. i # n
      BY <1>2
    <3> QED
      BY <1>3, <3>1
  <2> QED
    BY <1>0, <1>1, <1>2, <2>1 DEF LaneOK, DirtyAt, Unwinding
<1>16. SteadyAt(r)'
  BY <1>0, <1>1, <1>2, <1>3 DEF LaneOK, SteadyAt, Unwinding, Op, SlotOf, Between
<1>17. ReadsAt(r)'
  <2>1. Op(r) \in Reads => Clean(n)
    BY <1>0, <1>1 DEF LaneOK, ReadsAt
  <2>2. ASSUME NEW j \in Step, program[j].op \in Reads, stage'[r][j] # "none" PROVE Clean(j)
    BY <1>0, <1>3, <2>1, <2>2 DEF LaneOK, ReadsAt, Op
  <2> QED
    BY <1>1, <1>2, <2>1, <2>2, CleanKept DEF ReadsAt, Op
<1>18. ReportAt(r)'
  BY <1>0, <1>1, <1>2 DEF LaneOK, ReportAt, Concluded
<1>19. LaneOK(r)'
  BY <1>8, <1>9, <1>10, <1>11, <1>12, <1>13, <1>14, <1>15, <1>16, <1>17, <1>18 DEF LaneOK
<1> QED
  BY <1>4, <1>5, <1>19 DEF IInv

\* A read is posted to the native worker with nothing before it left to do.
LEMMA PostReadKeeps ==
    ASSUME LaneAssumption, IInv, NEW r \in Rank, PostRead(r)
    PROVE  IInv'
<1>0. TypesOK /\ LaneOK(r)
  BY DEF IInv
<1> DEFINE n == ip[r]
<1>1. /\ main[r] = "posting" /\ stage' = [stage EXCEPT ![r][n] = "queued"]
      /\ tracked' = [tracked EXCEPT ![r] = @ \cup {n}]
      /\ ip' = [ip EXCEPT ![r] = @ + 1] /\ main' = [main EXCEPT ![r] = "ready"]
      /\ UNCHANGED <<program, owner, queue, failed, error, dirty, brought, report,
                     spoiled, away, caught, local>>
  BY DEF posted, PostRead, Advance, Goto, handle
<1>2. /\ n \in Step /\ Op(r) = "read" /\ Step' = Step /\ Step \subseteq Nat /\ n \in Nat
      /\ Op(r) \notin Writes /\ Op(r) # "close" /\ Op(r) \in Reads
  BY <1>0, <1>1, Facts DEF LaneOK, PlaceAt, Between, Step, Writes, Reads
<1>3. /\ main'[r] = "ready" /\ ip'[r] = n + 1 /\ tracked'[r] = tracked[r] \cup {n}
      /\ stage'[r][n] = "queued" /\ \A i \in Step : i # n => stage'[r][i] = stage[r][i]
      /\ \A q \in Rank \ {r} : /\ main'[q] = main[q] /\ stage'[q] = stage[q]
                               /\ ip'[q] = ip[q] /\ tracked'[q] = tracked[q]
      /\ main' \in [Rank -> Main] /\ stage' \in [Rank -> [Step -> Stages]]
      /\ tracked' \in [Rank -> SUBSET Step]
  BY <1>0, <1>1, <1>2 DEF TypesOK, TypeOK, Stages, Main
<1>4. TypesOK'
  <2>1. ip' \in [Rank -> 1 .. Len(program) + 1]
    BY <1>0, <1>1, <1>2, Facts DEF TypesOK, TypeOK
  <2> QED
    BY <1>0, <1>1, <1>2, <1>3, <2>1 DEF TypesOK, TypeOK, Stages
<1>5. \A q \in Rank \ {r} : LaneOK(q)'
  BY <1>1, <1>3, Others DEF IInv, SameRow
<1>6. /\ stage[r][n] = "none"
      /\ \A i \in Step : i > n => stage[r][i] = "none" /\ stage'[r][i] = "none"
  BY <1>0, <1>1, <1>2, <1>3, AheadKept DEF LaneOK, StageAt, StageHere
<1>7. \A i \in Step : i < n => stage[r][i] \in Left
  BY <1>0, <1>1, <1>2, AllLeft DEF Alone
<1>8. brought[r][n] # NotBrought => \A q \in Rank : brought[q][n] # NotBrought
  <2>1. brought[r][n] # NotBrought => \A q \in Rank : brought[q][n] = None
    BY <1>0, <1>1, <1>2 DEF LaneOK, BroughtAt, Agreeing
  <2> QED
    BY <2>1 DEF None, NotBrought
<1>9. BroughtAt(r)' /\ PlaceAt(r)' /\ SteadyAt(r)' /\ StageHere(r)'
       /\ \A s \in Slot : Unwinding(r, s) => Unwinding(r, s)'
  BY <1>0, <1>1, <1>2, <1>3, <1>8, AdvanceKeeps
<1>10. StageAt(r)'
  <2>1. \A i \in Step : i > ip'[r] => stage'[r][i] = "none"
    <3> SUFFICES ASSUME NEW i \in Step, i > n + 1 PROVE stage'[r][i] = "none"
      BY <1>3
    <3>1. i > n
      BY <1>2
    <3> QED
      BY <1>6, <3>1
  <2>2. \A i \in Step : i < ip'[r] /\ stage'[r][i] \in Held =>
           program[i].op \in Writes \/ (program[i].op = "read" /\ i \in tracked'[r])
    <3> SUFFICES ASSUME NEW i \in Step, i < n + 1, stage'[r][i] \in Held
                 PROVE  program[i].op = "read" /\ i \in tracked'[r]
      BY <1>3
    <3>1. i = n
      <4>1. i < n \/ i = n
        BY <1>2
      <4> QED
        BY <1>2, <1>3, <1>7, <4>1 DEF Held, Left
    <3> QED
      BY <1>2, <1>3, <3>1 DEF Op
  <2>3. main'[r] \notin Alone \cup {"putting"}
    BY <1>3 DEF Alone
  <2>4. \A i \in Step : stage'[r][i] = "queued" => program[i].op \in Writes \cup {"read"}
    BY <1>0, <1>2, <1>3 DEF LaneOK, StageAt, Op
  <2> QED
    BY <1>1, <1>2, <1>9, <2>1, <2>2, <2>3, <2>4 DEF StageAt
<1>11. QueueAt(r)'
  <2>1. program[n].op \notin Writes /\ queue'[r] = queue[r] /\ queue[r] \in Seq(Step)
    BY <1>0, <1>1, <1>2, Facts DEF Op
  <2> QED
    BY <1>0, <1>1, <1>2, <1>3, <2>1, QueueKept
<1>12. OwnerAt(r)'
  <2>1. \A i \in Step : program[i].op \in Writes => stage'[r][i] = stage[r][i]
    BY <1>2, <1>3 DEF Op
  <2>2. main'[r] \notin Alone \cup {"settling"}
    BY <1>3 DEF Alone
  <2> QED
    BY <1>0, <1>1, <1>2, <2>1, <2>2 DEF LaneOK, OwnerAt
<1>13. OrderAt(r)'
  <2>1. \A j \in Step : j > n => ~Entered(r, j) /\ stage[r][j] # "queued"
    BY <1>6 DEF Entered
  <2> QED
    BY <1>0, <1>1, <1>2, <1>3, <1>7, <2>1, OrderKept
<1>14. ErrorAt(r)'
  BY <1>0, <1>1, <1>2, <1>3, <1>6, ErrorKept
<1>15. DirtyAt(r)'
  <2>3. program' = program /\ brought' = brought /\ Step' = Step /\ ip'[r] = n + 1
    BY <1>1, <1>2, <1>3
  <2> SUFFICES ASSUME NEW i \in Step, i < n + 1, program[i].op \in Writes
               PROVE  /\ stage'[r][i] # "none" /\ ~dirty'[r][program[i].slot] =>
                           \E k \in Step : /\ k > i /\ program[k].slot = program[i].slot
                                           /\ brought[r][k] # NotBrought
                      /\ stage'[r][i] = "none" => Unwinding(r, program[i].slot)'
    BY ZenonT(60), <2>3 DEF DirtyAt
  <2>0. program[i].slot \in Slot /\ i # n
    BY <1>0, <1>2, Facts DEF Op
  <2>1. i < n
    BY <1>2, <2>0
  <2>2. stage'[r][i] = stage[r][i]
    BY <1>3, <2>0
  <2> QED
    BY <1>0, <1>1, <1>9, <2>0, <2>1, <2>2 DEF LaneOK, DirtyAt
<1>16. ReadsAt(r)'
  <2>1. Clean(n)
    BY <1>0, <1>1, <1>2 DEF LaneOK, ReadsAt
  <2>2. ASSUME NEW j \in Step, program[j].op \in Reads, stage'[r][j] # "none" PROVE Clean(j)
    BY <1>0, <1>3, <2>1, <2>2 DEF LaneOK, ReadsAt
  <2> QED
    BY <1>1, <1>2, <1>3, <2>2, CleanKept DEF ReadsAt
<1>17. ReportAt(r)'
  BY <1>0, <1>1, <1>2 DEF LaneOK, ReportAt, Concluded
<1>18. LaneOK(r)'
  BY <1>9, <1>10, <1>11, <1>12, <1>13, <1>14, <1>15, <1>16, <1>17 DEF LaneOK
<1> QED
  BY <1>4, <1>5, <1>18 DEF IInv

-----------------------------------------------------------------------------
(* The lane's worker and the native read workers *)

\* What is neither queued now nor afterwards is not in the queue.
LEMMA QueueSame ==
    ASSUME NEW r \in Rank, LaneOK(r), program' = program, queue'[r] = queue[r], NEW n \in Step,
           \A i \in Step : i # n => stage'[r][i] = stage[r][i],
           stage[r][n] # "queued", stage'[r][n] # "queued", queue[r] \in Seq(Step)
    PROVE  QueueAt(r)'
<1>0. Step' = Step /\ \A a \in 1 .. Len(queue[r]) : queue[r][a] \in Step
  BY DEF Step
<1>1. \A a \in 1 .. Len(queue[r]) : queue[r][a] # n
  BY <1>0 DEF LaneOK, QueueAt
<1>2. \A a \in 1 .. Len(queue[r]) : stage'[r][queue[r][a]] = stage[r][queue[r][a]]
  BY <1>0, <1>1
<1> QED
  BY <1>0, <1>2 DEF LaneOK, QueueAt

\* An operation that ends with an error leaves it to its handle.
LEMMA FailKept ==
    ASSUME LaneAssumption, TypesOK, NEW r \in Rank, LaneOK(r), program' = program, NEW n \in Step,
           NEW fails \in BOOLEAN, Fail(r, n, fails), program[n].op \in Writes \cup {"close"},
           \A i \in Step : i # n => stage'[r][i] = stage[r][i],
           stage[r][n] # "done", stage'[r][n] = "done"
    PROVE  /\ ErrorAt(r)'
           /\ \A i \in Step : i # n => failed'[r][i] = failed[r][i]
           /\ \A q \in Rank \ {r} : failed'[q] = failed[q] /\ error'[q] = error[q]
           /\ failed' \in [Rank -> [Step -> BOOLEAN]]
           /\ error' \in [Rank -> [Slot -> Step \cup {None}]]
<1> DEFINE t == program[n].slot
<1>0. Step' = Step /\ t \in Slot /\ n # None
  BY Facts DEF Step, None
<1>1. /\ failed' = [failed EXCEPT ![r][n] = fails]
      /\ error' = [error EXCEPT ![r][t] = IF fails /\ @ = None THEN n ELSE @]
  BY DEF Fail
<1>2. /\ failed'[r][n] = fails /\ \A i \in Step : i # n => failed'[r][i] = failed[r][i]
      /\ \A q \in Rank \ {r} : failed'[q] = failed[q]
      /\ failed' \in [Rank -> [Step -> BOOLEAN]]
  BY <1>1 DEF TypesOK, TypeOK
<1>3. /\ error'[r][t] = IF fails /\ error[r][t] = None THEN n ELSE error[r][t]
      /\ \A s \in Slot : s # t => error'[r][s] = error[r][s]
      /\ \A q \in Rank \ {r} : error'[q] = error[q]
      /\ error' \in [Rank -> [Slot -> Step \cup {None}]]
  BY <1>0, <1>1 DEF TypesOK, TypeOK
<1>4. ~failed[r][n]
  BY DEF LaneOK, ErrorAt
<1>5. \A i \in Step : failed'[r][i] =>
         stage'[r][i] = "done" /\ program[i].op \in Writes \cup {"close"}
  BY <1>2 DEF LaneOK, ErrorAt
<1>6. ASSUME NEW s \in Slot
      PROVE  error'[r][s] # None <=> \E i \in Step : program[i].slot = s /\ failed'[r][i]
  <2>1. error[r][s] # None <=> \E i \in Step : program[i].slot = s /\ failed[r][i]
    BY DEF LaneOK, ErrorAt
  <2>2. CASE s = t /\ fails
    BY <1>0, <1>2, <1>3, <2>2
  <2>3. CASE s # t
    BY <1>2, <1>3, <2>1, <2>3
  <2>4. CASE s = t /\ ~fails
    BY <1>2, <1>3, <1>4, <2>1, <2>4
  <2> QED
    BY <2>2, <2>3, <2>4
<1>7. ErrorAt(r)'
  BY <1>0, <1>5, <1>6 DEF ErrorAt
<1> QED
  BY <1>2, <1>3, <1>7

\* A report stays while all that was brought does.
LEMMA ReportKept ==
    ASSUME NEW r \in Rank, LaneOK(r), program' = program, brought' = brought,
           report'[r] = report[r]
    PROVE  ReportAt(r)'
<1>0. Step' = Step
  BY DEF Step
<1> QED
  BY <1>0 DEF LaneOK, ReportAt, Concluded

\* A worker goes on with an operation that a main thread has gone past.
LEMMA WorkerKeeps ==
    ASSUME LaneAssumption, IInv, NEW r \in Rank, NEW n \in Step, NEW new \in {"inside", "done"},
           stage[r][n] \in Held, program[n].op \in Writes \cup {"read"},
           stage' = [stage EXCEPT ![r][n] = new],
           UNCHANGED <<program, ip, main, owner, tracked, dirty, brought, report, away,
                       caught, local>>,
           spoiled' \in [Rank -> SUBSET Step],
           \A q \in Rank \ {r} :
              queue'[q] = queue[q] /\ failed'[q] = failed[q] /\ error'[q] = error[q],
           \A i \in Step : i # n => failed'[r][i] = failed[r][i],
           program[n].op = "read" => failed'[r] = failed[r],
           queue' \in [Rank -> Seq(Step)], \A q \in Rank : Len(queue'[q]) <= MaxQueued,
           failed' \in [Rank -> [Step -> BOOLEAN]],
           error' \in [Rank -> [Slot -> Step \cup {None}]],
           QueueAt(r)', OrderAt(r)', ErrorAt(r)'
    PROVE  IInv'
<1>0. TypesOK /\ LaneOK(r) /\ Step' = Step /\ Step \subseteq Nat
  BY Facts DEF IInv, Step
<1>1. /\ stage'[r][n] = new /\ \A i \in Step : i # n => stage'[r][i] = stage[r][i]
      /\ \A q \in Rank \ {r} : stage'[q] = stage[q]
      /\ stage' \in [Rank -> [Step -> Stages]]
  BY <1>0 DEF TypesOK, TypeOK, Stages
<1>2. TypesOK'
  BY <1>0, <1>1 DEF TypesOK, TypeOK, Stages
<1>3. \A q \in Rank \ {r} : LaneOK(q)'
  BY <1>1, Others DEF IInv, SameRow
<1>4. n < ip[r]
  <2>1. ip[r] \in Nat /\ n \in Nat
    BY <1>0, Facts
  <2>2. ~(n > ip[r])
    BY <1>0 DEF LaneOK, StageAt, Held
  <2>3. n # ip[r]
    BY <1>0 DEF LaneOK, StageAt, StageHere, PlaceAt, Op, Held, Writes
  <2> QED
    BY <2>1, <2>2, <2>3
<1>5. \A i \in Step : /\ stage'[r][i] = "none" <=> stage[r][i] = "none"
                      /\ stage'[r][i] = "queued" => stage[r][i] = "queued"
                      /\ stage'[r][i] \in Held => stage[r][i] \in Held
                      /\ stage[r][i] \in Left => stage'[r][i] = stage[r][i]
  BY <1>1 DEF Held, Left
<1>6. PlaceAt(r)' /\ SteadyAt(r)'
  BY <1>0 DEF LaneOK, PlaceAt, SteadyAt, Op, SlotOf, Unwinding
<1>7. StageAt(r)'
  <2>1. StageHere(r)'
    BY <1>0, <1>1, <1>4, Facts DEF LaneOK, StageAt, StageHere, Op
  <2>2. \A i \in Step : i > ip[r] => stage'[r][i] = "none"
    BY <1>0, <1>5 DEF LaneOK, StageAt
  <2>3. \A i \in Step : i < ip[r] /\ stage'[r][i] \in Held =>
           program[i].op \in Writes \/ (program[i].op = "read" /\ i \in tracked[r])
    BY <1>0, <1>5 DEF LaneOK, StageAt
  <2>4. main[r] \in Alone \cup {"putting"} => \A i \in tracked[r] : stage'[r][i] = "done"
    <3> SUFFICES ASSUME main[r] \in Alone \cup {"putting"}, NEW i \in tracked[r]
                 PROVE  stage'[r][i] = "done"
      OBVIOUS
    <3>1. stage[r][i] = "done" /\ i \in Step
      BY <1>0, Facts DEF LaneOK, StageAt
    <3> QED
      BY <1>5, <3>1 DEF Left
  <2>5. \A i \in Step : stage'[r][i] = "queued" => program[i].op \in Writes \cup {"read"}
    BY <1>0, <1>5 DEF LaneOK, StageAt
  <2> QED
    BY <1>0, <2>1, <2>2, <2>3, <2>4, <2>5 DEF StageAt
<1>8. OwnerAt(r)'
  BY <1>0, <1>5 DEF LaneOK, OwnerAt, Op
<1>9. BroughtAt(r)'
  <2>1. ASSUME NEW k \in Step, brought[r][k] # NotBrought
        PROVE  Telling(r, k)' /\ Agreeing(r, k)'
    <3>1. Telling(r, k) /\ Agreeing(r, k)
      BY <1>0, <2>1 DEF LaneOK, BroughtAt
    <3>2. k <= n /\ k \in Nat /\ n \in Nat
      <4>1. n \in Nat \ {0} /\ k \in Nat
        BY <1>0, Facts
      <4>2. n < k => n \in 1 .. k - 1
        BY <4>1
      <4>3. ~(n < k)
        BY <3>1, <4>2 DEF Telling, Held, Left
      <4> QED
        BY <4>1, <4>3
    <3>3. \A i \in 1 .. k : i \in Step /\ (i = n => n = k)
      BY <1>0, <3>2, Facts
    <3>4. program[k].op \notin Writes
      BY <3>1 DEF Telling, Reads, Writes
    <3>5. \A i \in 1 .. k : failed'[r][i] = failed[r][i]
      BY <3>3, <3>4
    <3>6. /\ \A i \in 1 .. k - 1 : stage'[r][i] \in Left
          /\ program[k].op = "close" => stage'[r][k] = "done"
      <4>1. \A i \in 1 .. k - 1 : i \in 1 .. k
        BY <3>2
      <4> QED
        BY <1>5, <3>1, <3>3, <4>1 DEF Telling, Left
    <3>7. Telling(r, k)'
      BY <3>1, <3>5, <3>6 DEF Telling
    <3>8. Agreeing(r, k)'
      BY <3>1 DEF Agreeing, Op
    <3> QED
      BY <3>7, <3>8
  <2> QED
    BY <1>0, <2>1 DEF LaneOK, BroughtAt
<1>10. DirtyAt(r)'
  BY <1>0, <1>5 DEF LaneOK, DirtyAt, Unwinding
<1>11. ReadsAt(r)'
  BY <1>0, <1>5, CleanKept DEF LaneOK, ReadsAt, Op
<1>12. ReportAt(r)'
  <2>1. program' = program /\ brought' = brought /\ report' = report
    OBVIOUS
  <2> QED
    BY <1>0, <2>1, ReportKept
<1>13. LaneOK(r)'
  BY <1>6, <1>7, <1>8, <1>9, <1>10, <1>11, <1>12 DEF LaneOK
<1> QED
  BY <1>2, <1>3, <1>13 DEF IInv

\* What is before the first queued write has left.
LEMMA TakeWriteKeeps ==
    ASSUME LaneAssumption, IInv, NEW r \in Rank, TakeWrite(r)
    PROVE  IInv'
<1>a. TypesOK /\ LaneOK(r) /\ program' = program
  BY DEF IInv, TakeWrite
<1>0. TypesOK /\ LaneOK(r) /\ Step' = Step /\ Step \subseteq Nat /\ queue[r] \in Seq(Step)
  BY <1>a, Facts DEF Step
<1>1. /\ queue[r] # <<>> /\ queue' = [queue EXCEPT ![r] = Tail(@)]
      /\ ~\E i \in Step : program[i].op \in Writes /\ stage[r][i] = "inside"
      /\ UNCHANGED <<program, ip, main, owner, tracked, failed, error, dirty, brought,
                     report, spoiled, away, caught, local>>
  BY DEF posted, TakeWrite, handle
<1>2. PICK n \in Step : n = Head(queue[r])
  BY <1>0, <1>1, HeadTailProperties
<1>3. PICK t \in Seq(Step) : t = Tail(queue[r])
  BY <1>0, <1>1, HeadTailProperties
<1>4. PICK l \in Nat : l = Len(queue[r])
  BY <1>0
<1>5. /\ Len(t) = l - 1 /\ l >= 1 /\ queue[r][1] = n /\ l <= MaxQueued /\ MaxQueued \in Nat
      /\ \A a \in 1 .. l : queue[r][a] \in Step
      /\ \A a \in 1 .. l - 1 : t[a] = queue[r][a + 1]
  BY <1>0, <1>1, <1>2, <1>3, <1>4, HeadTailProperties, EmptySeq
     DEF TypesOK, TypeOK, LaneAssumption
<1>6. /\ queue'[r] = t /\ \A q \in Rank \ {r} : queue'[q] = queue[q]
      /\ queue' \in [Rank -> Seq(Step)]
  BY <1>0, <1>1, <1>3 DEF TypesOK
<1>7. \A q \in Rank : Len(queue'[q]) <= MaxQueued
  <2>1. Len(queue'[r]) <= MaxQueued
    BY <1>5, <1>6
  <2> QED
    BY <1>0, <1>6, <2>1 DEF TypesOK, TypeOK
<1>8. stage' = [stage EXCEPT ![r][n] = "inside"]
  BY <1>2 DEF TakeWrite
<1>9. stage'[r][n] = "inside" /\ \A i \in Step : i # n => stage'[r][i] = stage[r][i]
  BY <1>0, <1>8 DEF TypesOK, TypeOK
<1>10. program[n].op \in Writes /\ stage[r][n] = "queued"
  BY <1>0, <1>4, <1>5 DEF LaneOK, QueueAt
<1>11. \A a, b \in 1 .. l : b < a => queue[r][b] < queue[r][a]
  <2> SUFFICES ASSUME NEW a \in 1 .. l, NEW b \in 1 .. l, b < a
               PROVE  queue[r][b] < queue[r][a]
    OBVIOUS
  <2>1. b \in 1 .. a - 1
    OBVIOUS
  <2> QED
    BY <1>0, <1>4, <2>1 DEF LaneOK, QueueAt
<1>12. \A i \in Step : program[i].op \in Writes /\ stage[r][i] = "queued" /\ i # n => n < i
  <2> SUFFICES ASSUME NEW i \in Step, program[i].op \in Writes, stage[r][i] = "queued", i # n
               PROVE  n < i
    OBVIOUS
  <2>1. PICK a \in 1 .. l : queue[r][a] = i
    BY <1>0, <1>4 DEF LaneOK, QueueAt
  <2>2. 1 < a /\ 1 \in 1 .. l
    BY <1>5, <2>1
  <2> QED
    BY <1>5, <1>11, <2>1, <2>2
<1>13. QueueAt(r)'
  <2>1. ASSUME NEW a \in 1 .. l - 1
        PROVE  /\ program[t[a]].op \in Writes /\ stage'[r][t[a]] = "queued"
               /\ \A b \in 1 .. a - 1 : t[b] < t[a]
    <3>1. a + 1 \in 1 .. l /\ t[a] = queue[r][a + 1] /\ t[a] \in Step
      BY <1>5
    <3>2. program[t[a]].op \in Writes /\ stage[r][t[a]] = "queued"
      BY <1>0, <1>4, <3>1 DEF LaneOK, QueueAt
    <3>3. t[a] # n
      <4>1. n < t[a]
        BY <1>5, <1>11, <3>1
      <4> QED
        BY <1>0, <4>1
    <3>4. ASSUME NEW b \in 1 .. a - 1 PROVE t[b] < t[a]
      <4>1. b + 1 \in 1 .. l /\ b \in 1 .. l - 1 /\ b + 1 < a + 1
        BY <3>1
      <4> QED
        BY <1>5, <1>11, <3>1, <4>1
    <3> QED
      BY <1>9, <3>1, <3>2, <3>3, <3>4
  <2>2. ASSUME NEW i \in Step, program[i].op \in Writes, stage'[r][i] = "queued"
        PROVE  \E a \in 1 .. l - 1 : t[a] = i
    <3>1. i # n /\ stage[r][i] = "queued"
      BY <1>9, <2>2
    <3>2. PICK a \in 1 .. l : queue[r][a] = i
      BY <1>0, <1>4, <2>2, <3>1 DEF LaneOK, QueueAt
    <3>3. PICK b \in 1 .. l - 1 : b + 1 = a
      BY <1>5, <3>1, <3>2
    <3>4. t[b] = i
      BY <1>5, <3>2, <3>3
    <3> QED
      BY <3>4
  <2> QED
    BY <1>0, <1>1, <1>5, <1>6, <2>1, <2>2 DEF QueueAt
<1>14. OrderAt(r)'
  <2>1. ASSUME NEW i \in Step, i < n PROVE stage[r][i] \in Left
    <3>1. i \in 1 .. n - 1
      BY <1>0, <2>1, Facts
    <3>2. stage[r][i] \in Left \/ program[i].op \in Writes
      BY <1>0, <1>10, <3>1 DEF LaneOK, OrderAt
    <3>3. program[i].op \in Writes => stage[r][i] \notin {"queued", "inside"}
      <4>1. i # n /\ ~(n < i)
        BY <1>0, <2>1
      <4> QED
        BY <1>1, <1>12, <4>1
    <3> QED
      BY <1>0, <3>2, <3>3, Facts DEF Stages, Left
  <2>2. ASSUME NEW j \in Step, j > n
        PROVE  /\ ~Entered(r, j)
               /\ stage[r][j] = "queued" => program[n].op \in Writes /\ program[j].op \in Writes
    <3>1. n \in 1 .. j - 1
      BY <1>0, <2>2, Facts
    <3> QED
      BY <1>0, <1>10, <3>1 DEF LaneOK, OrderAt, Left
  <2> QED
    BY <1>0, <1>1, <1>9, <2>1, <2>2, OrderKept
<1>15. ErrorAt(r)'
  BY <1>0, <1>1, <1>9, <1>10, ErrorKept
<1>16. failed' \in [Rank -> [Step -> BOOLEAN]] /\ error' \in [Rank -> [Slot -> Step \cup {None}]]
  BY <1>0, <1>1 DEF TypesOK, TypeOK
<1>17. spoiled' \in [Rank -> SUBSET Step]
  BY <1>0, <1>1 DEF posted, TypesOK, TypeOK, Step, TakeWrite
<1> QED
  BY <1>1, <1>6, <1>7, <1>8, <1>10, <1>13, <1>14, <1>15, <1>16, <1>17, WorkerKeeps
  DEF Held

\* A write or a close fails or not.
LEMMA Fails ==
    ASSUME NEW f \in {FALSE, FailuresSoFar < MaxFailures}
    PROVE  f \in BOOLEAN /\ \A known : (f \/ known) \in BOOLEAN
<1>1. CASE FailuresSoFar < MaxFailures
  <2>1. (FailuresSoFar < MaxFailures) = TRUE
    BY <1>1, Zenon
  <2> QED
    BY <2>1, Zenon
<1>2. CASE ~(FailuresSoFar < MaxFailures)
  <2>1. (FailuresSoFar < MaxFailures) = FALSE
    BY <1>2, SMT
  <2> QED
    BY <2>1, Zenon
<1> QED
  BY <1>1, <1>2

\* A write ends, and the lane knows how.
LEMMA FinishWriteKeeps ==
    ASSUME LaneAssumption, IInv, NEW r \in Rank, NEW n \in Step, FinishWrite(r, n)
    PROVE  IInv'
<1>0. TypesOK /\ LaneOK(r) /\ queue[r] \in Seq(Step)
  BY Facts DEF IInv
<1>1. /\ program[n].op \in Writes /\ stage[r][n] = "inside"
      /\ stage' = [stage EXCEPT ![r][n] = "done"]
      /\ UNCHANGED <<program, ip, main, owner, queue, tracked, dirty, brought, report,
                     spoiled, away, caught, local>>
  BY DEF posted, FinishWrite, MayLeave, lane
<1>2. PICK fails \in BOOLEAN : Fail(r, n, fails)
  <2>1. PICK f \in {FALSE, FailuresSoFar < MaxFailures} : Fail(r, n, f)
    BY DEF FinishWrite
  <2>2. f \in BOOLEAN
    BY Fails
  <2> QED
    BY <2>1, <2>2
<1>3. stage'[r][n] = "done" /\ \A i \in Step : i # n => stage'[r][i] = stage[r][i]
  BY <1>0, <1>1 DEF TypesOK, TypeOK
<1>4. /\ ErrorAt(r)'
      /\ \A i \in Step : i # n => failed'[r][i] = failed[r][i]
      /\ \A q \in Rank \ {r} : failed'[q] = failed[q] /\ error'[q] = error[q]
      /\ failed' \in [Rank -> [Step -> BOOLEAN]]
      /\ error' \in [Rank -> [Slot -> Step \cup {None}]]
  BY <1>0, <1>1, <1>2, <1>3, FailKept
<1>5. QueueAt(r)'
  BY <1>0, <1>1, <1>3, QueueSame
<1>6. \A i \in Step : i < n => stage[r][i] \in Left
  <2> SUFFICES ASSUME NEW i \in Step, i < n PROVE stage[r][i] \in Left
    OBVIOUS
  <2>1. i \in 1 .. n - 1
    BY <1>0, Facts
  <2> QED
    BY <1>0, <1>1, <2>1 DEF LaneOK, OrderAt, Entered
<1>7. OrderAt(r)'
  BY <1>0, <1>1, <1>3, <1>6, OrderKept
<1>8. queue' \in [Rank -> Seq(Step)] /\ \A q \in Rank : Len(queue'[q]) <= MaxQueued
  BY <1>0, <1>1 DEF TypesOK, TypeOK
<1>9. spoiled' \in [Rank -> SUBSET Step]
  BY <1>0 DEF posted, TypesOK, TypeOK, Step, FinishWrite
<1> QED
  BY <1>1, <1>4, <1>5, <1>7, <1>8, <1>9, WorkerKeeps DEF Held, Writes

\* A posted read begins, and returns.
LEMMA NativeKeeps ==
    ASSUME LaneAssumption, IInv, NEW r \in Rank, NEW n \in Step,
           TakeRead(r, n) \/ FinishRead(r, n)
    PROVE  IInv'
<1>0. TypesOK /\ LaneOK(r) /\ queue[r] \in Seq(Step)
  BY Facts DEF IInv
<1>1. PICK new \in {"inside", "done"} :
        /\ stage' = [stage EXCEPT ![r][n] = new]
        /\ \/ new = "inside" /\ stage[r][n] = "queued"
           \/ new = "done" /\ stage[r][n] = "inside"
  BY DEF TakeRead, FinishRead, MayLeave
<1>2. /\ program[n].op = "read" /\ program[n].op \notin Writes
      /\ UNCHANGED <<program, ip, main, owner, queue, tracked, failed, error, dirty, brought,
                     report, away, caught, local>>
  BY DEF posted, TakeRead, FinishRead, lane, handle, Writes, Reads
<1>10. spoiled' \in [Rank -> SUBSET Step]
  <2>1. CASE TakeRead(r, n)
    BY <1>0, <2>1 DEF TakeRead, posted, TypesOK, TypeOK, Step
  <2>2. CASE FinishRead(r, n)
    <3>1. PICK fails : spoiled' = [spoiled EXCEPT ![r] = IF fails THEN @ \cup {n} ELSE @]
      BY <2>2 DEF FinishRead
    <3> QED
      BY <1>0, <3>1 DEF TypesOK, TypeOK
  <2> QED
    BY <2>1, <2>2
<1>3. stage'[r][n] = new /\ \A i \in Step : i # n => stage'[r][i] = stage[r][i]
  BY <1>0, <1>1 DEF TypesOK, TypeOK
<1>4. QueueAt(r)'
  BY <1>0, <1>2, <1>3, QueueKept
<1>5. \A i \in Step : i < n => stage[r][i] \in Left
  <2> SUFFICES ASSUME NEW i \in Step, i < n PROVE stage[r][i] \in Left
    OBVIOUS
  <2>1. i \in 1 .. n - 1
    BY <1>0, Facts
  <2> QED
    BY <1>0, <1>1, <1>2, <2>1 DEF LaneOK, OrderAt, Entered
<1>6. \A j \in Step : j > n =>
        /\ ~Entered(r, j)
        /\ stage[r][j] = "queued" => program[n].op \in Writes /\ program[j].op \in Writes
  <2> SUFFICES ASSUME NEW j \in Step, j > n
               PROVE  /\ ~Entered(r, j)
                      /\ stage[r][j] = "queued" =>
                           program[n].op \in Writes /\ program[j].op \in Writes
    OBVIOUS
  <2>1. n \in 1 .. j - 1 /\ stage[r][n] \notin Left
    BY <1>0, <1>1, Facts DEF Left
  <2> QED
    BY <1>0, <2>1 DEF LaneOK, OrderAt
<1>7. OrderAt(r)'
  BY <1>0, <1>2, <1>3, <1>5, <1>6, OrderKept
<1>8. ErrorAt(r)'
  BY <1>0, <1>1, <1>2, <1>3, ErrorKept
<1>9. /\ queue' \in [Rank -> Seq(Step)] /\ \A q \in Rank : Len(queue'[q]) <= MaxQueued
      /\ failed' \in [Rank -> [Step -> BOOLEAN]]
      /\ error' \in [Rank -> [Slot -> Step \cup {None}]]
  BY <1>0, <1>2 DEF TypesOK, TypeOK
<1> QED
  BY <1>1, <1>2, <1>4, <1>7, <1>8, <1>9, <1>10, WorkerKeeps DEF Held

-----------------------------------------------------------------------------
(* A call returns *)

\* A call returns: a handle's close may fail, and is agreed on; any other operation
\* is over.
LEMMA ReturnKeeps ==
    ASSUME LaneAssumption, IInv, NEW r \in Rank, Return(r)
    PROVE  IInv'
<1>0. TypesOK /\ LaneOK(r) /\ queue[r] \in Seq(Step)
  BY Facts DEF IInv
<1> DEFINE n == ip[r]
<1>1. /\ main[r] = "inside" /\ MayLeave(r, n) /\ stage' = [stage EXCEPT ![r][n] = "done"]
      /\ UNCHANGED <<program, owner, queue, tracked, dirty, brought, report,
                     spoiled, away, caught, local>>
  BY DEF posted, Return, lane
<1>2. /\ n \in Step /\ Op(r) \in {"create", "close"} /\ Step' = Step
      /\ Step \subseteq Nat /\ n \in Nat /\ Op(r) \notin Writes /\ program[n].op \notin Writes
  BY <1>0, <1>1, Facts DEF LaneOK, PlaceAt, Between, Step, Writes, Op
<1>3. /\ stage'[r][n] = "done" /\ \A i \in Step : i # n => stage'[r][i] = stage[r][i]
      /\ \A q \in Rank \ {r} : stage'[q] = stage[q]
      /\ stage' \in [Rank -> [Step -> Stages]]
  BY <1>0, <1>1, <1>2 DEF TypesOK, TypeOK, Stages
<1>4. /\ stage[r][n] = "inside"
      /\ \A i \in Step : i > n => stage[r][i] = "none" /\ stage'[r][i] = "none"
  BY <1>0, <1>1, <1>2, <1>3, AheadKept DEF MayLeave
<1>5. \A i \in Step : i < n => stage[r][i] \in Left
  BY <1>0, <1>1, <1>2, AllLeft DEF Alone
<1>6. \A i \in Step : i < n => stage'[r][i] = stage[r][i] /\ stage'[r][i] \notin Held
  <2> SUFFICES ASSUME NEW i \in Step, i < n
               PROVE  stage'[r][i] = stage[r][i] /\ stage'[r][i] \notin Held
    OBVIOUS
  <2>1. i # n
    BY <1>2
  <2> QED
    BY <1>3, <1>5, <2>1 DEF Left, Held
<1>7. QueueAt(r)'
  BY <1>0, <1>1, <1>2, <1>3, <1>4, QueueSame
<1>8. OrderAt(r)'
  BY <1>0, <1>1, <1>2, <1>3, <1>5, OrderKept
<1>9. \A i \in Step : stage'[r][i] = "queued" => program[i].op \in Writes \cup {"read"}
  BY <1>0, <1>3 DEF LaneOK, StageAt
<1>10. /\ owner[r] = NoSlot
       /\ \A i \in Step : program[i].op \in Writes => stage'[r][i] \notin Held
  <2>1. owner[r] = NoSlot
    BY <1>0, <1>1, <1>2 DEF LaneOK, OwnerAt, Alone
  <2>2. \A i \in Step : program[i].op \in Writes => stage'[r][i] = stage[r][i]
    BY <1>2, <1>3
  <2> QED
    BY <1>0, <2>1, <2>2 DEF LaneOK, OwnerAt
<1>11. ReportAt(r)'
  BY <1>0, <1>1, ReportKept
<1>12. \A i \in tracked[r] : stage'[r][i] = "done"
  <2>1. \A i \in tracked[r] : stage[r][i] = "done" /\ i \in Step
    BY <1>0, <1>1, Facts DEF LaneOK, StageAt, Alone
  <2> QED
    BY <1>3, <2>1
<1>13. \A j \in Step : program[j].op \in Reads /\ stage'[r][j] # "none" => Clean(j)
  <2>1. Op(r) \in Reads => Clean(n)
    BY <1>0, <1>1 DEF LaneOK, ReadsAt
  <2> QED
    BY <1>0, <1>3, <2>1 DEF LaneOK, ReadsAt, Op
<1>14. CASE Op(r) = "close"
  <2>1. PICK fails \in BOOLEAN : Fail(r, n, fails)
    <3>1. PICK f \in {FALSE, FailuresSoFar < MaxFailures} : Fail(r, n, f \/ Known(r))
      BY <1>14 DEF Return
    <3>2. (f \/ Known(r)) \in BOOLEAN
      BY Fails, Zenon
    <3> QED
      BY <3>1, <3>2
  <2>2. ip' = ip /\ main' = [main EXCEPT ![r] = "agreeing"]
    BY <1>14 DEF Return, Goto
  <2>3. /\ main'[r] = "agreeing" /\ \A q \in Rank \ {r} : main'[q] = main[q]
        /\ main' \in [Rank -> Main]
    BY <1>0, <2>2 DEF TypesOK, TypeOK, Main
  <2>4. program[n].op = "close"
    BY <1>14 DEF Op
  <2>5. /\ ErrorAt(r)'
        /\ \A i \in Step : i # n => failed'[r][i] = failed[r][i]
        /\ \A q \in Rank \ {r} : failed'[q] = failed[q] /\ error'[q] = error[q]
        /\ failed' \in [Rank -> [Step -> BOOLEAN]]
        /\ error' \in [Rank -> [Slot -> Step \cup {None}]]
    BY <1>0, <1>1, <1>2, <1>3, <1>4, <2>1, <2>4, FailKept
  <2>6. TypesOK'
    BY <1>0, <1>1, <1>2, <1>3, <2>2, <2>3, <2>5 DEF TypesOK, TypeOK, Stages
  <2>7. \A q \in Rank \ {r} : LaneOK(q)'
    BY <1>1, <1>3, <2>2, <2>3, <2>5, Others DEF IInv, SameRow
  <2>8. PlaceAt(r)'
    BY <1>1, <1>2, <1>14, <2>2, <2>3 DEF PlaceAt, Op
  <2>9. StageAt(r)'
    <3>1. StageHere(r)'
      BY <1>1, <1>3, <1>14, <2>2, <2>3 DEF StageHere, Op
    <3> QED
      BY <1>1, <1>2, <1>4, <1>6, <1>9, <1>12, <2>2, <3>1 DEF StageAt
  <2>10. OwnerAt(r)'
    BY <1>1, <1>2, <1>10, <2>2 DEF OwnerAt
  <2>11. BroughtAt(r)'
    <3>1. ASSUME NEW k \in Step, brought[r][k] # NotBrought
          PROVE  Telling(r, k)' /\ Agreeing(r, k)'
      <4>1. Telling(r, k) /\ Agreeing(r, k)
        BY <1>0, <3>1 DEF LaneOK, BroughtAt
      <4>2. k # n
        BY <1>1, <1>14, <4>1 DEF Agreeing, Reads
      <4>3. k \in Nat /\ k < n
        BY <1>2, <4>1, <4>2 DEF Telling
      <4>4. \A i \in 1 .. k : i \in Step /\ i # n
        BY <1>0, <1>2, <4>3, Facts
      <4>5. \A i \in 1 .. k : stage'[r][i] = stage[r][i] /\ failed'[r][i] = failed[r][i]
        BY <1>3, <2>5, <4>4
      <4>6. k \in 1 .. k /\ \A i \in 1 .. k - 1 : i \in 1 .. k
        BY <1>0, <4>3, Facts
      <4>7. Telling(r, k)'
        BY <1>1, <2>2, <4>1, <4>5, <4>6 DEF Telling
      <4>8. Agreeing(r, k)'
        BY <1>1, <2>2, <4>1, <4>2 DEF Agreeing
      <4> QED
        BY <4>7, <4>8
    <3> QED
      BY <1>1, <1>2, <2>3, <3>1 DEF BroughtAt
  <2>12. DirtyAt(r)'
    <3>1. \A s \in Slot : Unwinding(r, s)' <=> Unwinding(r, s)
      BY <1>1, <2>2 DEF Unwinding
    <3>2. \A i \in Step : program[i].slot \in Slot
      BY <1>0, Facts
    <3> QED
      BY <1>0, <1>1, <1>2, <1>6, <2>2, <3>1, <3>2 DEF LaneOK, DirtyAt
  <2>13. SteadyAt(r)'
    BY <1>1, <1>14, <2>2 DEF SteadyAt, Op
  <2>14. ReadsAt(r)'
    BY <1>1, <1>2, <1>13, <2>3, CleanKept DEF ReadsAt
  <2>15. LaneOK(r)'
    BY <1>7, <1>8, <1>11, <2>5, <2>8, <2>9, <2>10, <2>11, <2>12, <2>13, <2>14 DEF LaneOK
  <2> QED
    BY <2>6, <2>7, <2>15 DEF IInv
<1>15. CASE Op(r) # "close"
  <2>1. /\ ip' = [ip EXCEPT ![r] = @ + 1] /\ main' = [main EXCEPT ![r] = "ready"]
        /\ failed' = failed /\ error' = error
    BY <1>15 DEF Return, Goto, Advance
  <2>2. /\ ip'[r] = n + 1 /\ main'[r] = "ready" /\ ip' \in [Rank -> 1 .. Len(program) + 1]
        /\ \A q \in Rank \ {r} : ip'[q] = ip[q] /\ main'[q] = main[q]
        /\ main' \in [Rank -> Main]
    BY <1>0, <1>2, <2>1, Facts DEF TypesOK, TypeOK, Main
  <2>3. TypesOK'
    BY <1>0, <1>1, <1>2, <1>3, <2>1, <2>2 DEF TypesOK, TypeOK, Stages
  <2>4. \A q \in Rank \ {r} : LaneOK(q)'
    BY <1>1, <1>3, <2>1, <2>2, Others DEF IInv, SameRow
  <2>5. brought[r][n] # NotBrought => \A q \in Rank : brought[q][n] # NotBrought
    <3>1. brought[r][n] # NotBrought => \A q \in Rank : brought[q][n] = None
      BY <1>0, <1>1, <1>2 DEF LaneOK, BroughtAt, Agreeing
    <3> QED
      BY <3>1 DEF None, NotBrought
  <2>6. BroughtAt(r)' /\ PlaceAt(r)' /\ SteadyAt(r)' /\ StageHere(r)'
        /\ \A s \in Slot : Unwinding(r, s) => Unwinding(r, s)'
    BY <1>0, <1>1, <1>2, <1>3, <1>15, <2>1, <2>2, <2>5, AdvanceKeeps
  <2>7. StageAt(r)'
    <3>1. \A i \in Step : i > ip'[r] => stage'[r][i] = "none"
      <4> SUFFICES ASSUME NEW i \in Step, i > n + 1 PROVE stage'[r][i] = "none"
        BY <2>2
      <4>1. i > n
        BY <1>2
      <4> QED
        BY <1>4, <4>1
    <3>2. \A i \in Step : i < ip'[r] => stage'[r][i] \notin Held
      <4> SUFFICES ASSUME NEW i \in Step, i < n + 1 PROVE stage'[r][i] \notin Held
        BY <2>2
      <4>1. i < n \/ i = n
        BY <1>2
      <4> QED
        BY <1>3, <1>6, <4>1 DEF Held
    <3> QED
      BY <1>1, <1>2, <1>9, <1>12, <2>6, <3>1, <3>2 DEF StageAt
  <2>8. OwnerAt(r)'
    <3>1. main'[r] \notin Alone \cup {"settling"}
      BY <2>2 DEF Alone
    <3> QED
      BY <1>1, <1>2, <1>10, <3>1 DEF OwnerAt
  <2>9. ErrorAt(r)'
    BY <1>0, <1>1, <1>2, <1>3, <2>1, ErrorKept
  <2>10. DirtyAt(r)'
    <3> SUFFICES ASSUME NEW i \in Step, i < n + 1, program[i].op \in Writes
                 PROVE  /\ stage'[r][i] # "none" /\ ~dirty[r][program[i].slot] =>
                             \E k \in Step : /\ k > i /\ program[k].slot = program[i].slot
                                             /\ brought[r][k] # NotBrought
                        /\ stage'[r][i] = "none" => Unwinding(r, program[i].slot)'
      BY <1>1, <1>2, <2>2 DEF DirtyAt
    <3>1. i # n /\ program[i].slot \in Slot
      BY <1>0, <1>2, Facts
    <3>2. i < n
      BY <1>2, <3>1
    <3> QED
      BY <1>0, <1>1, <1>6, <2>6, <3>1, <3>2 DEF LaneOK, DirtyAt
  <2>11. ReadsAt(r)'
    BY <1>1, <1>2, <1>13, <2>2, CleanKept DEF ReadsAt
  <2>12. LaneOK(r)'
    BY <1>7, <1>8, <1>11, <2>6, <2>7, <2>8, <2>9, <2>10, <2>11 DEF LaneOK
  <2> QED
    BY <2>3, <2>4, <2>12 DEF IInv
<1> QED
  BY <1>14, <1>15

-----------------------------------------------------------------------------
(* Errors are brought to an agreement *)

\* What a rank brings is new, and what was brought before stays.
LEMMA BringRow ==
    ASSUME LaneAssumption, IInv, NEW r \in Rank, Bring(r)
    PROVE  /\ ip[r] \in Step /\ SlotOf(r) \in Slot /\ brought[r][ip[r]] = NotBrought
           /\ brought'[r][ip[r]] = error[r][SlotOf(r)] /\ brought'[r][ip[r]] # NotBrought
           /\ \A k \in Step : k # ip[r] => brought'[r][k] = brought[r][k]
           /\ \A q \in Rank \ {r} : brought'[q] = brought[q]
           /\ brought' \in [Rank -> [Step -> Step \cup {None, NotBrought}]]
           /\ \A q \in Rank, k \in Step :
                brought[q][k] # NotBrought => brought'[q][k] = brought[q][k]
<1>0. TypesOK /\ LaneOK(r) /\ main[r] = "agreeing"
  BY DEF IInv, Bring
<1>1. ip[r] \in Step /\ SlotOf(r) \in Slot
  BY <1>0, Facts DEF LaneOK, PlaceAt, Between, SlotOf
<1>2. brought[r][ip[r]] = NotBrought
  BY <1>0, <1>1, NotYetBrought
<1>3. PICK e \in Step \cup {None} : e = error[r][SlotOf(r)]
  BY <1>0, <1>1, Facts
<1>4. brought' = [brought EXCEPT ![r][ip[r]] = e]
  BY <1>3 DEF Bring
<1>5. e # NotBrought
  BY <1>0, <1>3, Facts DEF NotBrought, None
<1>6. /\ brought'[r][ip[r]] = e
      /\ \A k \in Step : k # ip[r] => brought'[r][k] = brought[r][k]
      /\ \A q \in Rank \ {r} : brought'[q] = brought[q]
      /\ brought' \in [Rank -> [Step -> Step \cup {None, NotBrought}]]
  BY <1>0, <1>1, <1>4 DEF TypesOK, TypeOK
<1>7. \A q \in Rank, k \in Step :
         brought[q][k] # NotBrought => brought'[q][k] = brought[q][k]
  BY <1>2, <1>6
<1> QED
  BY <1>1, <1>2, <1>3, <1>5, <1>6, <1>7

\* A write that was sealed stays sealed, and nobody's unwinding changes.
LEMMA BringAway ==
    ASSUME LaneAssumption, IInv, NEW r \in Rank, Bring(r)
    PROVE  /\ \A j \in Step : Clean(j) => Clean(j)'
           /\ \A q \in Rank, s \in Slot : Unwinding(q, s)' <=> Unwinding(q, s)
<1>0. TypesOK /\ program' = program /\ ip' = ip /\ Step' = Step
  BY DEF IInv, Bring, Step
<1>1. /\ ip[r] \in Step
      /\ \A k \in Step : k # ip[r] => brought'[r][k] = brought[r][k]
      /\ \A q \in Rank \ {r} : brought'[q] = brought[q]
      /\ \A q \in Rank, k \in Step :
           brought[q][k] # NotBrought => brought'[q][k] = brought[q][k]
  BY BringRow
<1>2. ASSUME NEW q \in Rank, NEW i \in Step, Sealed(q, i) PROVE Sealed(q, i)'
  <2>1. PICK k \in Step : /\ k > i /\ program[k].slot = program[i].slot
                          /\ program[k].op \in Reads /\ brought[q][k] = None
    BY <1>2 DEF Sealed
  <2>2. brought'[q][k] = None
    BY <1>1, <2>1 DEF None, NotBrought
  <2> QED
    BY <1>0, <2>1, <2>2 DEF Sealed
<1>3. \A j \in Step : Clean(j) => Clean(j)'
  <2> SUFFICES ASSUME NEW j \in Step, Clean(j), NEW q \in Rank, NEW i \in 1 .. j - 1,
                      program[i].op \in Writes, program[i].slot = program[j].slot
               PROVE  Sealed(q, i)'
    BY <1>0 DEF Clean
  <2>1. i \in Step
    BY <1>0, Facts
  <2>2. Sealed(q, i)
    BY DEF Clean
  <2> QED
    BY <1>2, <2>1, <2>2
<1>4. ASSUME NEW q \in Rank, NEW s \in Slot PROVE Unwinding(q, s)' <=> Unwinding(q, s)
  <2>1. \A i \in 1 .. ip[q] - 1 : i \in Step /\ i < ip[q]
    BY <1>0, Facts
  <2>2. ASSUME NEW i \in 1 .. ip[q] - 1, brought[q][i] # NotBrought
        PROVE  \A p \in Rank : brought'[p][i] = brought[p][i]
    <3>1. \A p \in Rank : brought[p][i] # NotBrought
      BY <2>1, <2>2 DEF IInv, LaneOK, BroughtAt, Agreeing
    <3> QED
      BY <1>1, <2>1, <3>1
  <2>3. \A i \in 1 .. ip[q] - 1 : brought'[q][i] = brought[q][i]
    <3> SUFFICES ASSUME NEW i \in 1 .. ip[q] - 1 PROVE brought'[q][i] = brought[q][i]
      OBVIOUS
    <3>1. i \in Step /\ i < ip[q] /\ i # ip[q]
      BY <1>0, <2>1, Facts
    <3> QED
      BY <1>1, <3>1
  <2>4. away' = away
    BY DEF Bring, posted
  <2> QED
    BY <1>0, <2>2, <2>3, <2>4 DEF Unwinding
<1> QED
  BY <1>3, <1>4

\* What brought errors do not touch.
LEMMA BringData ==
    ASSUME LaneAssumption, IInv, NEW r \in Rank, Bring(r), NEW q \in Rank
    PROVE  QueueAt(q)' /\ OrderAt(q)' /\ ErrorAt(q)' /\ ReportAt(q)'
<1>0. LaneOK(q) /\ program' = program /\ Step' = Step /\ queue' = queue /\ stage' = stage
      /\ failed' = failed /\ error' = error /\ report' = report
  BY DEF IInv, Bring, Step, lane
<1>1. QueueAt(q)'
  BY <1>0 DEF LaneOK, QueueAt
<1>2. OrderAt(q)'
  BY <1>0 DEF LaneOK, OrderAt, Entered
<1>3. ErrorAt(q)'
  BY <1>0 DEF LaneOK, ErrorAt
<1>4. ReportAt(q)'
  <2> SUFFICES ASSUME NEW s \in Slot, report[q][s] # "open"
               PROVE  \E k \in Step :
                        /\ program[k].op = "close" /\ program[k].slot = s
                        /\ \A p \in Rank : brought'[p][k] # NotBrought
                        /\ report[q][s] = "raised" <=> \E p \in Rank : brought'[p][k] # None
    BY <1>0 DEF ReportAt, Concluded
  <2>1. PICK k \in Step :
          /\ program[k].op = "close" /\ program[k].slot = s /\ Concluded(k)
          /\ report[q][s] = "raised" <=> \E p \in Rank : brought[p][k] # None
    BY <1>0 DEF LaneOK, ReportAt
  <2>2. \A p \in Rank : brought'[p][k] = brought[p][k] /\ brought[p][k] # NotBrought
    BY <2>1, BringRow DEF Concluded
  <2> QED
    BY <2>1, <2>2
<1> QED
  BY <1>1, <1>2, <1>3, <1>4

\* What one rank brings leaves the others where they are.
LEMMA BringOthers ==
    ASSUME LaneAssumption, IInv, NEW r \in Rank, Bring(r), NEW q \in Rank \ {r}
    PROVE  LaneOK(q)'
<1>0. /\ LaneOK(q) /\ program' = program /\ Step' = Step /\ SameRow(q)
      /\ brought'[q] = brought[q] /\ TypesOK
  <2>1. main'[q] = main[q] /\ dirty'[q] = dirty[q]
    BY DEF IInv, TypesOK, TypeOK, Bring, Goto
  <2> QED
    BY <2>1, BringRow DEF IInv, Bring, SameRow, lane, posted, Step
<1>1. PlaceAt(q)'
  BY <1>0 DEF LaneOK, PlaceAt, SameRow, Op
<1>2. StageAt(q)'
  BY <1>0 DEF LaneOK, StageAt, StageHere, SameRow, Op
<1>3. OwnerAt(q)'
  BY <1>0 DEF LaneOK, OwnerAt, SameRow, Op
<1>4. QueueAt(q)' /\ OrderAt(q)' /\ ErrorAt(q)' /\ ReportAt(q)'
  BY BringData
<1>5. BroughtAt(q)'
  <2>1. ASSUME NEW k \in Step, brought[q][k] # NotBrought
        PROVE  Telling(q, k)' /\ Agreeing(q, k)'
    <3>1. Telling(q, k) /\ Agreeing(q, k)
      BY <1>0, <2>1 DEF LaneOK, BroughtAt
    <3>2. Telling(q, k)'
      BY <1>0, <3>1 DEF Telling, SameRow
    <3>3. \A p \in Rank : brought[p][k] # NotBrought => brought'[p][k] = brought[p][k]
      BY BringRow
    <3>4. (\A p \in Rank : brought[p][k] = None) => \A p \in Rank : brought'[p][k] = None
      BY <3>3 DEF None, NotBrought
    <3>5. (\A p \in Rank : brought[p][k] # NotBrought) =>
             \A p \in Rank : brought'[p][k] # NotBrought
      BY <3>3
    <3>6. Agreeing(q, k)'
      BY <1>0, <3>1, <3>4, <3>5 DEF Agreeing, SameRow, Op
    <3> QED
      BY <3>2, <3>6
  <2> QED
    BY <1>0, <2>1 DEF LaneOK, BroughtAt, SameRow
<1>6. \A i \in Step : program[i].slot \in Slot
  BY <1>0, Facts
<1>7. DirtyAt(q)'
  BY <1>0, <1>6, BringAway DEF LaneOK, DirtyAt, SameRow
<1>8. SteadyAt(q)'
  <2>1. PICK s : s = SlotOf(q)
    OBVIOUS
  <2>2. SlotOf(q)' = s
    BY <1>0, <2>1 DEF SlotOf, SameRow
  <2>3. main[q] \notin Between => s \in Slot
    BY <1>0, <1>6, <2>1 DEF LaneOK, PlaceAt, SlotOf
  <2> QED
    BY <1>0, <2>1, <2>2, <2>3, BringAway DEF LaneOK, SteadyAt, SameRow, Op
<1>9. ReadsAt(q)'
  <2>1. main[q] \in {"posting", "calling", "inside"} => ip[q] \in Step
    BY <1>0 DEF LaneOK, PlaceAt, Between
  <2>2. main[q] \in {"posting", "calling", "inside"} /\ Op(q) \in Reads => Clean(ip[q])
    BY <1>0 DEF LaneOK, ReadsAt
  <2>3. \A j \in Step : program[j].op \in Reads /\ stage[q][j] # "none" => Clean(j)
    BY <1>0 DEF LaneOK, ReadsAt
  <2>4. \A j \in Step : Clean(j) => Clean(j)'
    BY BringAway
  <2> QED
    BY <1>0, <2>1, <2>2, <2>3, <2>4 DEF ReadsAt, SameRow, Op
<1> QED
  BY <1>1, <1>2, <1>3, <1>4, <1>5, <1>7, <1>8, <1>9 DEF LaneOK

\* A rank brings an error that tells of all its failures so far.
LEMMA BringKeeps ==
    ASSUME LaneAssumption, IInv, NEW r \in Rank, Bring(r)
    PROVE  IInv'
<1> DEFINE n == ip[r]
           t == SlotOf(r)
<1>0. TypesOK /\ LaneOK(r)
  BY DEF IInv
<1>1. /\ main[r] = "agreeing" /\ main' = [main EXCEPT ![r] = "hearing"]
      /\ dirty' = [dirty EXCEPT ![r][t] = FALSE]
      /\ UNCHANGED <<program, ip, owner, queue, tracked, stage, failed, error, report,
                     spoiled, away, caught, local>>
  BY DEF posted, Bring, Goto, lane
<1>2. /\ n \in Step /\ t \in Slot /\ Op(r) \in Reads \cup {"close"} /\ Op(r) \notin Writes
      /\ Step' = Step /\ Step \subseteq Nat /\ n \in Nat /\ Op(r)' = Op(r) /\ SlotOf(r)' = t
  BY <1>0, <1>1, BringRow, Facts DEF LaneOK, PlaceAt, Step, Writes, Reads, Op, SlotOf
<1>3. /\ main'[r] = "hearing" /\ \A q \in Rank \ {r} : main'[q] = main[q]
      /\ main' \in [Rank -> Main]
      /\ ~dirty'[r][t] /\ \A s \in Slot : s # t => dirty'[r][s] = dirty[r][s]
      /\ dirty' \in [Rank -> [Slot -> BOOLEAN]]
  BY <1>0, <1>1, <1>2 DEF TypesOK, TypeOK, Main
<1>4. TypesOK'
  BY <1>0, <1>1, <1>2, <1>3, BringRow DEF TypesOK, TypeOK
<1>5. \A q \in Rank \ {r} : LaneOK(q)'
  BY BringOthers
<1>6. QueueAt(r)' /\ OrderAt(r)' /\ ErrorAt(r)' /\ ReportAt(r)'
  BY BringData
<1>7. PlaceAt(r)'
  BY <1>1, <1>2, <1>3 DEF PlaceAt
<1>8. StageAt(r)'
  <2>1. StageHere(r)'
    BY <1>0, <1>1, <1>2, <1>3 DEF LaneOK, StageAt, StageHere
  <2> QED
    BY <1>0, <1>1, <1>2, <2>1 DEF LaneOK, StageAt, Alone
<1>9. OwnerAt(r)'
  BY <1>0, <1>1, <1>2, <1>3 DEF LaneOK, OwnerAt, Alone
<1>10. Telling(r, n)'
  <2>1. program[n].op = "close" => stage[r][n] = "done"
    BY <1>0, <1>1, <1>2 DEF LaneOK, StageAt, StageHere, Op
  <2>2. \A i \in 1 .. n - 1 : stage[r][i] \in Left
    <3>1. \A i \in 1 .. n - 1 : i \in Step /\ i < n
      BY <1>0, <1>2, Facts
    <3> QED
      BY <1>0, <1>1, <1>2, <3>1, AllLeft DEF Alone
  <2>3. brought'[r][n] # None <=>
          \E i \in 1 .. n : program[i].slot = program[n].slot /\ failed[r][i]
    <3>1. error[r][t] # None <=> \E i \in Step : program[i].slot = t /\ failed[r][i]
      BY <1>0, <1>2 DEF LaneOK, ErrorAt
    <3>2. \A i \in Step : failed[r][i] => ~(i > n)
      BY <1>0 DEF LaneOK, ErrorAt, StageAt
    <3>3. \A i \in Step : failed[r][i] => i \in 1 .. n
      BY <1>0, <1>2, <3>2, Facts
    <3>4. \A i \in 1 .. n : i \in Step
      BY <1>0, <1>2, Facts
    <3> QED
      BY <3>1, <3>3, <3>4, BringRow DEF SlotOf
  <2>4. program[n].op \in Reads \cup {"close"} /\ n <= n
    BY <1>2 DEF Op
  <2> QED
    BY <1>1, <2>1, <2>2, <2>3, <2>4 DEF Telling
<1>11. BroughtAt(r)'
  <2>1. ASSUME NEW k \in Step, k # n, brought'[r][k] # NotBrought
        PROVE  Telling(r, k)' /\ Agreeing(r, k)'
    <3>1. brought'[r][k] = brought[r][k]
      BY <2>1, BringRow
    <3>2. Telling(r, k) /\ Agreeing(r, k)
      BY <1>0, <2>1, <3>1 DEF LaneOK, BroughtAt
    <3>3. k < n
      BY <1>2, <2>1, <3>2 DEF Telling
    <3>4. \A q \in Rank : brought'[q][k] # NotBrought
      <4>1. \A q \in Rank : brought[q][k] # NotBrought
        BY <3>2, <3>3 DEF Agreeing
      <4> QED
        BY <4>1, BringRow
    <3>5. Telling(r, k)'
      BY <1>1, <3>1, <3>2 DEF Telling
    <3>6. Agreeing(r, k)'
      BY <1>1, <2>1, <3>4 DEF Agreeing
    <3> QED
      BY <3>5, <3>6
  <2>2. Agreeing(r, n)'
    BY <1>1, <1>2, <1>3 DEF Agreeing
  <2>3. brought'[r][n] # NotBrought
    BY BringRow
  <2> QED
    BY <1>1, <1>2, <1>10, <2>1, <2>2, <2>3 DEF BroughtAt
<1>12. DirtyAt(r)'
  <2> SUFFICES ASSUME NEW i \in Step, i < n, program[i].op \in Writes
               PROVE  /\ stage[r][i] # "none" /\ ~dirty'[r][program[i].slot] =>
                           \E k \in Step : /\ k > i /\ program[k].slot = program[i].slot
                                           /\ brought'[r][k] # NotBrought
                      /\ stage[r][i] = "none" => Unwinding(r, program[i].slot)'
    BY <1>1, <1>2 DEF DirtyAt
  <2>1. program[i].slot \in Slot
    BY <1>0, Facts
  <2>2. stage[r][i] = "none" => Unwinding(r, program[i].slot)'
    BY <1>0, <1>1, <2>1, BringAway DEF LaneOK, DirtyAt
  <2>3. CASE program[i].slot = t
    <3>1. n > i /\ program[n].slot = program[i].slot /\ brought'[r][n] # NotBrought
      BY <1>2, <2>3, BringRow DEF SlotOf
    <3> QED
      BY <1>2, <2>2, <3>1
  <2>4. CASE program[i].slot # t
    <3>1. dirty'[r][program[i].slot] = dirty[r][program[i].slot]
      BY <1>3, <2>1, <2>4
    <3>2. \A k \in Step : brought[r][k] # NotBrought => brought'[r][k] # NotBrought
      BY BringRow
    <3> QED
      BY <1>0, <2>2, <3>1, <3>2 DEF LaneOK, DirtyAt
  <2> QED
    BY <2>3, <2>4
<1>13. SteadyAt(r)'
  <2>1. Op(r) # "close" => ~Unwinding(r, t)
    BY <1>0, <1>1 DEF LaneOK, SteadyAt, Between
  <2>2. Unwinding(r, t)' <=> Unwinding(r, t)
    BY <1>2, BringAway
  <2>3. PICK s \in Slot : s = SlotOf(r)
    BY <1>2
  <2>4. SlotOf(r)' = s
    BY <1>2, <2>3
  <2>5. Op(r) # "close" => ~Unwinding(r, s)'
    BY <2>1, <2>3, BringAway
  <2> QED
    BY <1>2, <2>4, <2>5 DEF SteadyAt
<1>14. ReadsAt(r)'
  <2>1. \A j \in Step : program[j].op \in Reads /\ stage[r][j] # "none" => Clean(j)
    BY <1>0 DEF LaneOK, ReadsAt
  <2>2. \A j \in Step : Clean(j) => Clean(j)'
    BY BringAway
  <2> QED
    BY <1>1, <1>2, <1>3, <2>1, <2>2 DEF ReadsAt
<1>15. LaneOK(r)'
  BY <1>6, <1>7, <1>8, <1>9, <1>11, <1>12, <1>13, <1>14 DEF LaneOK
<1> QED
  BY <1>4, <1>5, <1>15 DEF IInv

\* An agreement is heard: a close reports, and a read goes on if there is no error.
LEMMA HearKeeps ==
    ASSUME LaneAssumption, IInv, NEW r \in Rank, Hear(r)
    PROVE  IInv'
<1> DEFINE n == ip[r]
           t == SlotOf(r)
           raised == \E q \in Rank : brought[q][n] # None
<1>0. TypesOK /\ LaneOK(r)
  BY DEF IInv
<1>1. /\ main[r] = "hearing" /\ \A q \in Rank : brought[q][n] # NotBrought
      /\ UNCHANGED <<program, owner, queue, tracked, stage, failed, error, dirty, brought,
                     spoiled, away, caught, local>>
  BY DEF posted, Hear, Agreed, lane
<1>2. /\ n \in Step /\ t \in Slot /\ Op(r) \in Reads \cup {"close"} /\ Op(r) \notin Writes
      /\ Step' = Step /\ Step \subseteq Nat /\ n \in Nat
  BY <1>0, <1>1, Facts DEF LaneOK, PlaceAt, Between, Step, Writes, Reads, SlotOf
<1>3. QueueAt(r)' /\ OrderAt(r)' /\ ErrorAt(r)'
  <2>1. QueueAt(r)'
    BY <1>0, <1>1, <1>2 DEF LaneOK, QueueAt
  <2>2. OrderAt(r)'
    BY <1>0, <1>1, <1>2 DEF LaneOK, OrderAt, Entered
  <2>3. ErrorAt(r)'
    BY <1>0, <1>1, <1>2 DEF LaneOK, ErrorAt
  <2> QED
    BY <2>1, <2>2, <2>3
<1>4. ASSUME Advance(r), report' \in [Rank -> [Slot -> {"open", "ok", "raised"}]],
             \A q \in Rank \ {r} : report'[q] = report[q], ReportAt(r)'
      PROVE  IInv'
  <2>1. /\ ip'[r] = n + 1 /\ main'[r] = "ready" /\ ip' \in [Rank -> 1 .. Len(program) + 1]
        /\ \A q \in Rank \ {r} : ip'[q] = ip[q] /\ main'[q] = main[q]
        /\ main' \in [Rank -> Main]
    BY <1>0, <1>2, <1>4, Facts, SMTT(60) DEF Advance, Goto, TypesOK, TypeOK, Main
  <2>2. TypesOK'
    BY <1>0, <1>1, <1>2, <1>4, <2>1 DEF TypesOK, TypeOK
  <2>3. \A q \in Rank \ {r} : LaneOK(q)'
    BY <1>1, <1>4, <2>1, Others DEF IInv, SameRow
  <2>4. BroughtAt(r)' /\ PlaceAt(r)' /\ SteadyAt(r)' /\ StageHere(r)'
        /\ \A s \in Slot : Unwinding(r, s) => Unwinding(r, s)'
    BY <1>0, <1>1, <1>2, <2>1, AdvanceKeeps
  <2>5. stage[r][n] \in Left
    BY <1>0, <1>1, <1>2 DEF LaneOK, StageAt, StageHere, Left
  <2>6. \A i \in Step : i < n => stage[r][i] \in Left
    BY <1>0, <1>1, <1>2, AllLeft DEF Alone
  <2>7. StageAt(r)'
    <3>1. \A i \in Step : i > ip'[r] => stage[r][i] = "none"
      <4> SUFFICES ASSUME NEW i \in Step, i > n + 1 PROVE stage[r][i] = "none"
        BY <2>1
      <4>1. i > n
        BY <1>2
      <4> QED
        BY <1>0, <4>1 DEF LaneOK, StageAt
    <3>2. \A i \in Step : i < ip'[r] => stage[r][i] \notin Held
      <4> SUFFICES ASSUME NEW i \in Step, i < n + 1 PROVE stage[r][i] \notin Held
        BY <2>1
      <4>1. i < n \/ i = n
        BY <1>2
      <4> QED
        BY <2>5, <2>6, <4>1 DEF Held, Left
    <3>3. main'[r] \notin Alone \cup {"putting"}
      BY <2>1 DEF Alone
    <3>4. \A i \in Step : stage[r][i] = "queued" => program[i].op \in Writes \cup {"read"}
      BY <1>0 DEF LaneOK, StageAt
    <3> QED
      BY <1>1, <1>2, <2>4, <3>1, <3>2, <3>3, <3>4 DEF StageAt
  <2>8. OwnerAt(r)'
    <3>1. main'[r] \notin Alone \cup {"settling"}
      BY <2>1 DEF Alone
    <3> QED
      BY <1>0, <1>1, <1>2, <3>1 DEF LaneOK, OwnerAt
  <2>9. DirtyAt(r)'
    <3> SUFFICES ASSUME NEW i \in Step, i < n + 1, program[i].op \in Writes
                 PROVE  /\ stage[r][i] # "none" /\ ~dirty[r][program[i].slot] =>
                             \E k \in Step : /\ k > i /\ program[k].slot = program[i].slot
                                             /\ brought[r][k] # NotBrought
                        /\ stage[r][i] = "none" => Unwinding(r, program[i].slot)'
      BY <1>1, <1>2, <2>1 DEF DirtyAt
    <3>1. i # n /\ program[i].slot \in Slot
      BY <1>0, <1>2, Facts DEF Op
    <3>2. i < n
      BY <1>2, <3>1
    <3> QED
      BY <1>0, <1>1, <2>4, <3>1, <3>2 DEF LaneOK, DirtyAt
  <2>10. ReadsAt(r)'
    BY <1>0, <1>1, <1>2, <2>1, CleanKept DEF LaneOK, ReadsAt
  <2>11. LaneOK(r)'
    BY <1>3, <1>4, <2>4, <2>7, <2>8, <2>9, <2>10 DEF LaneOK
  <2> QED
    BY <2>2, <2>3, <2>11 DEF IInv
<1>5. CASE Op(r) = "close"
  <2>1. PICK v \in {"raised", "ok"} : v = IF raised THEN "raised" ELSE "ok"
    OBVIOUS
  <2>2. report' = [report EXCEPT ![r][t] = v] /\ Advance(r)
    BY <1>5, <2>1 DEF Hear
  <2>3. /\ report'[r][t] = v /\ \A s \in Slot : s # t => report'[r][s] = report[r][s]
        /\ \A q \in Rank \ {r} : report'[q] = report[q]
        /\ report' \in [Rank -> [Slot -> {"open", "ok", "raised"}]]
    BY <1>0, <1>2, <2>2 DEF TypesOK, TypeOK
  <2>4. ReportAt(r)'
    <3> SUFFICES ASSUME NEW s \in Slot, report'[r][s] # "open"
                 PROVE  \E k \in Step :
                          /\ program[k].op = "close" /\ program[k].slot = s
                          /\ \A q \in Rank : brought[q][k] # NotBrought
                          /\ report'[r][s] = "raised" <=> \E q \in Rank : brought[q][k] # None
      BY <1>1, <1>2 DEF ReportAt, Concluded
    <3>1. CASE s = t
      <4>1. program[n].op = "close" /\ program[n].slot = s
        BY <1>5, <3>1 DEF Op, SlotOf
      <4>2. report'[r][s] = "raised" <=> \E q \in Rank : brought[q][n] # None
        BY <2>1, <2>3, <3>1
      <4> QED
        BY <1>1, <1>2, <4>1, <4>2
    <3>2. CASE s # t
      BY <1>0, <2>3, <3>2 DEF LaneOK, ReportAt, Concluded
    <3> QED
      BY <3>1, <3>2
  <2> QED
    BY <1>4, <2>2, <2>3, <2>4
<1>6. CASE Op(r) # "close" /\ raised
  <2>1. report' = report /\ Advance(r)
    BY <1>6 DEF Hear
  <2>2. ReportAt(r)'
    BY <1>0, <1>1, <2>1, ReportKept
  <2>3. report \in [Rank -> [Slot -> {"open", "ok", "raised"}]]
    BY <1>0 DEF TypesOK, TypeOK
  <2> QED
    BY <1>4, <2>1, <2>2, <2>3
<1>7. CASE Op(r) # "close" /\ ~raised
  <2>1. PICK where \in {"posting"} : main' = [main EXCEPT ![r] = where]
    BY <1>7 DEF Hear, Goto
  <2>2. report' = report /\ ip' = ip
    BY <1>7 DEF Hear
  <2>3. /\ main'[r] = where /\ \A q \in Rank \ {r} : main'[q] = main[q]
        /\ main' \in [Rank -> Main]
    BY <1>0, <2>1 DEF TypesOK, TypeOK, Main
  <2>4. TypesOK'
    BY <1>0, <1>1, <1>2, <2>2, <2>3 DEF TypesOK, TypeOK
  <2>5. \A q \in Rank \ {r} : LaneOK(q)'
    BY <1>1, <2>2, <2>3, Others DEF IInv, SameRow
  <2>6. /\ Op(r)' = Op(r) /\ Op(r) \in Reads
        /\ where = "posting" /\ Op(r) = "read"
    BY <1>1, <1>2, <1>7, <2>1, <2>2 DEF Op, Reads
  <2>7. ReportAt(r)'
    BY <1>0, <1>1, <2>2, ReportKept
  <2>8. PlaceAt(r)'
    BY <1>1, <1>2, <2>2, <2>3, <2>6 DEF PlaceAt
  <2>9. StageAt(r)'
    <3>1. StageHere(r)'
      BY <1>0, <1>1, <1>2, <1>7, <2>2, <2>3, <2>6 DEF LaneOK, StageAt, StageHere
    <3> QED
      BY <1>0, <1>1, <1>2, <2>2, <3>1 DEF LaneOK, StageAt, Alone
  <2>10. OwnerAt(r)'
    BY <1>0, <1>1, <1>2, <2>2, <2>3, <2>6 DEF LaneOK, OwnerAt, Alone
  <2>11. BroughtAt(r)'
    <3>1. ASSUME NEW k \in Step, brought[r][k] # NotBrought
          PROVE  Telling(r, k)' /\ Agreeing(r, k)'
      <4>1. Telling(r, k) /\ Agreeing(r, k)
        BY <1>0, <3>1 DEF LaneOK, BroughtAt
      <4>2. Telling(r, k)'
        BY <1>1, <2>2, <4>1 DEF Telling
      <4>3. Agreeing(r, k)'
        BY <1>1, <1>7, <2>2, <2>3, <2>6, <4>1 DEF Agreeing
      <4> QED
        BY <4>2, <4>3
    <3> QED
      BY <1>1, <1>2, <2>3, <3>1 DEF BroughtAt
  <2>12. \A s \in Slot : Unwinding(r, s)' <=> Unwinding(r, s)
    BY <1>1, <2>2 DEF Unwinding
  <2>13. DirtyAt(r)'
    <3>1. \A i \in Step : program[i].slot \in Slot
      BY <1>0, Facts
    <3> QED
      BY <1>0, <1>1, <1>2, <2>2, <2>12, <3>1 DEF LaneOK, DirtyAt
  <2>14. SteadyAt(r)'
    BY <1>0, <1>1, <1>2, <2>2 DEF LaneOK, SteadyAt, Unwinding, Op, SlotOf, Between
  <2>15. Clean(n)
    <3> SUFFICES ASSUME NEW q \in Rank, NEW i \in 1 .. n - 1,
                        program[i].op \in Writes, program[i].slot = program[n].slot
                 PROVE  Sealed(q, i)
      BY DEF Clean
    <3>1. n > i /\ program[n].op \in Reads /\ brought[q][n] = None
      BY <1>2, <1>7, <2>6 DEF Op
    <3> QED
      BY <1>2, <3>1 DEF Sealed
  <2>16. ReadsAt(r)'
    <3>1. \A j \in Step : program[j].op \in Reads /\ stage[r][j] # "none" => Clean(j)
      BY <1>0 DEF LaneOK, ReadsAt
    <3> QED
      BY <1>1, <1>2, <2>2, <2>15, <3>1, CleanKept DEF ReadsAt
  <2>17. LaneOK(r)'
    BY <1>3, <2>7, <2>8, <2>9, <2>10, <2>11, <2>13, <2>14, <2>16 DEF LaneOK
  <2> QED
    BY <2>4, <2>5, <2>17 DEF IInv
<1> QED
  BY <1>5, <1>6, <1>7

-----------------------------------------------------------------------------
(* The theorems *)

\* The invariant holds before the program begins.
LEMMA LaneInit ==
    ASSUME LaneAssumption, Init
    PROVE  IInv
<1>1. /\ program \in Seq(Instruction) /\ Len(program) \in Nat /\ Step = 1 .. Len(program)
      /\ 1 \in 1 .. Len(program) + 1
  <2>1. program \in Seq([op : Operation, slot : Slot])
    BY DEF LaneAssumption, Init
  <2>2. program \in Seq(Instruction) /\ Len(program) \in Nat
    BY <2>1 DEF Instruction
  <2> QED
    BY <2>2 DEF Step
<1>2. /\ <<>> \in Seq(Step) /\ Len(<<>>) = 0 /\ MaxQueued \in Nat
  BY DEF LaneAssumption
<1>3. \A r \in Rank : /\ ip[r] = 1 /\ main[r] = "ready" /\ owner[r] = NoSlot
                      /\ queue[r] = <<>> /\ tracked[r] = {}
                      /\ \A i \in Step : /\ stage[r][i] = "none" /\ failed[r][i] = FALSE
                                         /\ brought[r][i] = NotBrought
                      /\ \A s \in Slot : error[r][s] = None /\ report[r][s] = "open"
  BY DEF Init
<1>4. TypesOK
  <2>1. /\ ip \in [Rank -> 1 .. Len(program) + 1] /\ main \in [Rank -> Main]
        /\ owner \in [Rank -> Slot \cup {NoSlot}] /\ tracked \in [Rank -> SUBSET Step]
        /\ queue \in [Rank -> Seq(Step)] /\ \A r \in Rank : Len(queue[r]) <= MaxQueued
    BY <1>1, <1>2 DEF Init, Main
  <2>2. /\ stage \in [Rank -> [Step -> Stages]] /\ failed \in [Rank -> [Step -> BOOLEAN]]
        /\ error \in [Rank -> [Slot -> Step \cup {None}]]
        /\ dirty \in [Rank -> [Slot -> BOOLEAN]]
    BY DEF Init, Stages
  <2>3. /\ brought \in [Rank -> [Step -> Step \cup {None, NotBrought}]]
        /\ report \in [Rank -> [Slot -> {"open", "ok", "raised"}]]
        /\ local \in [Rank -> 0 .. MaxLocal] /\ spoiled \in [Rank -> SUBSET Step]
        /\ away \in [Rank -> SUBSET Slot] /\ caught \in [Rank -> SUBSET Slot]
    BY DEF Init, LaneAssumption
  <2> QED
    BY <1>1, <2>1, <2>2, <2>3 DEF TypesOK, TypeOK, Init, Stages, Instruction
<1>5. ASSUME NEW r \in Rank PROVE LaneOK(r)
  <2>1. PlaceAt(r) /\ OwnerAt(r) /\ SteadyAt(r)
    BY <1>3 DEF PlaceAt, OwnerAt, SteadyAt, Between, Held, Alone
  <2>2. StageAt(r)
    BY <1>3 DEF StageAt, StageHere, Held, Alone
  <2>3. QueueAt(r)
    BY <1>2, <1>3 DEF QueueAt
  <2>4. OrderAt(r)
    BY <1>1, <1>3 DEF OrderAt, Entered
  <2>5. ErrorAt(r)
    BY <1>3 DEF ErrorAt
  <2>6. BroughtAt(r)
    BY <1>3 DEF BroughtAt
  <2>7. DirtyAt(r)
    BY <1>1, <1>3 DEF DirtyAt
  <2>8. ReadsAt(r)
    BY <1>3 DEF ReadsAt
  <2>9. ReportAt(r)
    BY <1>3 DEF ReportAt
  <2> QED
    BY <2>1, <2>2, <2>3, <2>4, <2>5, <2>6, <2>7, <2>8, <2>9 DEF LaneOK
<1> QED
  BY <1>4, <1>5 DEF IInv

\* Every step of every thread keeps the invariant.
LEMMA LaneNext ==
    ASSUME LaneAssumption, IInv, [Next]_vars
    PROVE  IInv'
<1>1. ASSUME NEW r \in Rank, MainStep(r) PROVE IInv'
  BY <1>1, BeginKeeps, SkipKeeps, FinishWritesKeeps, FinishReadsKeeps, SubmitWriteKeeps,
     QuiesceKeeps, CallKeeps, ReturnKeeps, PostReadKeeps, BringKeeps, HearKeeps DEF MainStep
<1>2. ASSUME NEW r \in Rank, Quiesce(r) PROVE IInv'
  BY <1>2, QuiesceKeeps
<1>3. ASSUME NEW r \in Rank, WorkerStep(r) PROVE IInv'
  BY <1>3, TakeWriteKeeps, FinishWriteKeeps DEF WorkerStep
<1>4. ASSUME NEW r \in Rank, NativeStep(r) PROVE IInv'
  BY <1>4, NativeKeeps DEF NativeStep
<1>5. CASE UNCHANGED vars
  <2>1. /\ UNCHANGED <<program, ip, main, owner, queue, tracked, stage, failed, error, dirty,
                       brought, report, spoiled, away, caught, local>>
        /\ Step' = Step
    BY <1>5 DEF posted, vars, lane, handle, Step
  <2>2. \A q \in Rank : LaneOK(q)'
    BY <2>1, Others DEF IInv, SameRow
  <2>3. TypesOK'
    BY <2>1 DEF IInv, TypesOK, TypeOK
  <2> QED
    BY <2>2, <2>3 DEF IInv
<1> QED
  BY <1>1, <1>2, <1>3, <1>4, <1>5 DEF Next

\* The invariant is one of the specification.
THEOREM Inductive == ASSUME LaneAssumption PROVE Spec => []IInv
<1>1. Init => IInv
  BY LaneInit
<1>2. IInv /\ [Next]_vars => IInv'
  BY LaneNext
<1> QED
  BY <1>1, <1>2, PTL DEF Spec

\* No two threads of a process are inside HDF5 at once, and the calls of the main
\* thread, the lane's worker and the native readers keep the order of the program:
\* what submit, quiesce and _finish_reads wait for.
THEOREM OneOrder == ASSUME LaneAssumption PROVE Spec => []EntersInProgramOrder
<1>1. IInv => EntersInProgramOrder
  BY DEF IInv, LaneOK, OrderAt, EntersInProgramOrder, Left
<1> QED
  BY <1>1, Inductive, PTL

\* A read that has begun has an agreement behind every write of its handle.
LEMMA GoodReads ==
    ASSUME LaneAssumption, IInv
    PROVE  ReadSeesGoodWrites
<1> SUFFICES ASSUME NEW r \in Rank, NEW j \in Step, program[j].op \in Reads,
                    stage[r][j] # "none", NEW q \in Rank, NEW i \in 1 .. j - 1,
                    program[i].slot = program[j].slot, failed[q][i]
             PROVE  FALSE
  BY DEF ReadSeesGoodWrites
<1>1. TypesOK /\ LaneOK(r) /\ LaneOK(q) /\ i \in Step /\ j \in Nat /\ i \in Nat /\ i < j
  BY Facts DEF IInv
<1>2. program[i].op \in Writes
  <2>1. program[i].op \in Writes \cup {"close"}
    BY <1>1 DEF LaneOK, ErrorAt
  <2>2. program[i].op # "close"
    BY <1>1, Facts
  <2> QED
    BY <2>1, <2>2
<1>3. Sealed(q, i)
  BY <1>1, <1>2 DEF LaneOK, ReadsAt, Clean
<1>4. PICK k \in Step : /\ k > i /\ program[k].slot = program[i].slot
                        /\ program[k].op \in Reads /\ brought[q][k] = None
  BY <1>3 DEF Sealed
<1>5. Telling(q, k)
  BY <1>1, <1>4 DEF LaneOK, BroughtAt, None, NotBrought
<1>6. i \in 1 .. k
  BY <1>1, <1>4, Facts
<1> QED
  BY <1>4, <1>5, <1>6 DEF Telling

\* What close was told at its agreement is all there is to tell of its handle.
LEMMA TrueReports ==
    ASSUME LaneAssumption, IInv
    PROVE  CloseTellsAll
<1> SUFFICES ASSUME NEW r \in Rank, NEW s \in Slot, report[r][s] # "open"
             PROVE  report[r][s] = "raised" <=>
                       \E q \in Rank : \E i \in Step : program[i].slot = s /\ failed[q][i]
  BY DEF CloseTellsAll
<1>1. TypesOK /\ \A q \in Rank : LaneOK(q)
  BY DEF IInv
<1>2. PICK k \in Step :
        /\ program[k].op = "close" /\ program[k].slot = s /\ Concluded(k)
        /\ report[r][s] = "raised" <=> \E q \in Rank : brought[q][k] # None
  BY <1>1 DEF LaneOK, ReportAt
<1>3. \A q \in Rank : Telling(q, k)
  BY <1>1, <1>2 DEF LaneOK, BroughtAt, Concluded
<1>4. \A i \in Step : program[i].slot = s => i \in 1 .. k
  BY <1>1, <1>2, Facts
<1>5. \A i \in 1 .. k : i \in Step
  BY <1>1, Facts
<1>6. \A q \in Rank :
         brought[q][k] # None <=> \E i \in Step : program[i].slot = s /\ failed[q][i]
  BY <1>2, <1>3, <1>4, <1>5 DEF Telling
<1> QED
  BY <1>2, <1>6

\* Reads see good writes and close reports every rank's failures of its own handle,
\* whatever fails, in whatever order the threads of the ranks go.
THEOREM HandlesTellTheTruth == ASSUME LaneAssumption PROVE Spec => []LaneInv
<1>1. IInv => LaneInv
  BY GoodReads, TrueReports DEF LaneInv, IInv, TypesOK
<1> QED
  BY <1>1, Inductive, PTL
=============================================================================
