--------------------------- MODULE CollectiveLane ---------------------------
(***************************************************************************)
(* file_io._slab_io_ffi: the one lane of each process for asynchronous     *)
(* collective HDF5 work, under the operations of the SlabIO handles that   *)
(* use it, on several ranks that run the same program.                     *)
(*                                                                         *)
(* In each process three kinds of thread reach HDF5: the main thread       *)
(* (create, close), the lane's worker (queued writes) and a handle's       *)
(* native read worker (read_slab, read_multi and read_slabs return before  *)
(* the read has landed; a read in file-order pieces waits for all but its  *)
(* last one).  HDF5 is not thread-safe, and a collective call returns only *)
(* when every rank has entered it.                                         *)
(*                                                                         *)
(* A posted read that fails is noticed by the next entry of any handle, if *)
(* at all: it raises there on its own rank, before the entry's collective. *)
(* What the collectives of two different operations make of each other is  *)
(* outside the model: ranks that are in different ones wait.               *)
(*                                                                         *)
(* The dispatcher below the lane is AsyncDispatcher: drain is one step     *)
(* here, enabled when every queued write has finished.  The agreements are *)
(* the reductions of HostControl: one step to bring an error, one to hear  *)
(* the decision, once every rank has brought its own.  A task that fails   *)
(* before it enters its own collective is outside the code's contract      *)
(* (async_io) and outside this model.                                      *)
(***************************************************************************)
EXTENDS Integers, Sequences, FiniteSets

CONSTANTS
    N,           \* ranks
    Slot,        \* SlabIO handles of the program, one _LaneSlot each
    NoSlot,
    Programs,    \* the programs to run: sequences of operations
    MaxQueued,   \* queued_write_inputs
    MaxFailures, \* bound: writes, reads and closes that fail, over all ranks
    MaxLocal     \* bound: rank-local quiesce_pending_io calls of each rank

Rank == 0 .. N-1
Operation == {"create", "write", "independent", "read", "close"}
Writes == {"write", "independent"}
Reads == {"read"}

VARIABLES
    program,     \* what every rank runs
    ip,          \* the operation each main thread is in, or comes to next
    main,        \* where the main thread is in it
    owner,       \* _CollectiveLane._owner
    queue,       \* the dispatcher's queue of writes
    tracked,     \* _CollectiveLane._reads: reads not known to be complete
    stage,       \* stage[r][i]: how far rank r has come with operation i
    failed,      \* failed[r][i]: rank r's write i has failed
    error,       \* _LaneSlot.error: the first write that failed, or 0
    dirty,       \* _writes_submitted # _writes_agreed
    brought,     \* brought[r][i]: the error rank r brought to i's agreement
    report,      \* how close ended for each handle
    spoiled,     \* the posted reads that failed on each rank
    away,        \* the handles whose with blocks a rank has left by itself
    caught,      \* the handles whose close caught a read's error as it drained
    local        \* rank-local quiesce calls made so far

lane == <<owner, queue, tracked>>
handle == <<failed, error, dirty, brought, report>>
posted == <<spoiled, away, caught>>
vars == <<program, ip, main, lane, stage, handle, posted, local>>

Step == 1 .. Len(program)
None == 0
NotBrought == -1

Main == {"ready", "draining", "settling", "putting", "posting", "agreeing",
         "hearing", "calling", "inside",
         "localdraining", "localsettling"}

\* What the constants are.  A program ends its handle with the handle's close, as
\* every user of SlabIO does (its with block).
LaneAssumption ==
    /\ N \in Nat \ {0} /\ MaxQueued \in Nat \ {0}
    /\ MaxFailures \in Nat /\ MaxLocal \in Nat
    /\ NoSlot \notin Slot
    /\ \A p \in Programs :
         /\ p \in Seq([op : Operation, slot : Slot])
         /\ \A i, j \in 1 .. Len(p) : p[i].op = "close" /\ p[j].slot = p[i].slot => j <= i

TypeOK ==
    /\ program \in Seq([op : Operation, slot : Slot])
    /\ ip \in [Rank -> 1 .. Len(program) + 1]
    /\ main \in [Rank -> Main]
    /\ owner \in [Rank -> Slot \cup {NoSlot}]
    /\ \A r \in Rank : queue[r] \in Seq(Step) /\ Len(queue[r]) <= MaxQueued
    /\ tracked \in [Rank -> SUBSET Step]
    /\ stage \in [Rank -> [Step -> {"none", "queued", "inside", "done"}]]
    /\ failed \in [Rank -> [Step -> BOOLEAN]]
    /\ error \in [Rank -> [Slot -> Step \cup {None}]]
    /\ dirty \in [Rank -> [Slot -> BOOLEAN]]
    /\ brought \in [Rank -> [Step -> Step \cup {None, NotBrought}]]
    /\ report \in [Rank -> [Slot -> {"open", "ok", "raised"}]]
    /\ spoiled \in [Rank -> SUBSET Step]
    /\ away \in [Rank -> SUBSET Slot]
    /\ caught \in [Rank -> SUBSET Slot]
    /\ local \in [Rank -> 0 .. MaxLocal]

Init ==
    /\ program \in Programs
    /\ ip = [r \in Rank |-> 1]
    /\ main = [r \in Rank |-> "ready"]
    /\ owner = [r \in Rank |-> NoSlot]
    /\ queue = [r \in Rank |-> <<>>]
    /\ tracked = [r \in Rank |-> {}]
    /\ stage = [r \in Rank |-> [i \in Step |-> "none"]]
    /\ failed = [r \in Rank |-> [i \in Step |-> FALSE]]
    /\ error = [r \in Rank |-> [s \in Slot |-> None]]
    /\ dirty = [r \in Rank |-> [s \in Slot |-> FALSE]]
    /\ brought = [r \in Rank |-> [i \in Step |-> NotBrought]]
    /\ report = [r \in Rank |-> [s \in Slot |-> "open"]]
    /\ spoiled = [r \in Rank |-> {}]
    /\ away = [r \in Rank |-> {}]
    /\ caught = [r \in Rank |-> {}]
    /\ local = [r \in Rank |-> 0]

-----------------------------------------------------------------------------
(* Helpers *)

Op(r) == program[ip[r]].op
SlotOf(r) == program[ip[r]].slot

Goto(r, label) == main' = [main EXCEPT ![r] = label]
Advance(r) == ip' = [ip EXCEPT ![r] = @ + 1] /\ Goto(r, "ready")

\* The dispatcher's pending count is zero.
Drained(r) == \A i \in Step : program[i].op \in Writes
                                 => stage[r][i] \notin {"queued", "inside"}
Settled(r) == \A i \in tracked[r] : stage[r][i] = "done"

Entered(r, i) == stage[r][i] \in {"inside", "done"}

\* An independent write waits for nobody; every other call is collective.
MayLeave(r, i) ==
    /\ stage[r][i] = "inside"
    /\ program[i].op # "independent" => \A q \in Rank : Entered(q, i)

FailuresSoFar ==
    Cardinality({x \in Rank \X Step : failed[x[1]][x[2]] \/ x[2] \in spoiled[x[1]]})

\* Operation i ends on rank r; the handle keeps its first error.
Fail(r, i, fails) ==
    /\ failed' = [failed EXCEPT ![r][i] = fails]
    /\ error' = [error EXCEPT ![r][program[i].slot] =
                   IF fails /\ @ = None THEN i ELSE @]

\* A rank has raised out of a handle's with block, with all the others or by
\* itself, and closes it next.
Unwinding(r, s) ==
    \/ s \in away[r]
    \/ \E i \in 1 .. ip[r] - 1 : /\ program[i].slot = s /\ program[i].op \in Reads
                                 /\ brought[r][i] # NotBrought
                                 /\ \E q \in Rank : brought[q][i] \notin {None, NotBrought}

\* A handle of mode "r": close leaves out what its block raised.
ReadOnly(s) == \A i \in Step : program[i].slot = s => program[i].op \in Reads \cup {"close"}

\* The error a close knows of before H5Fclose: _context_error, or what its drain
\* has raised.
Known(r) == \/ SlotOf(r) \in caught[r]
            \/ (SlotOf(r) \in away[r] /\ ~ReadOnly(SlotOf(r)))

-----------------------------------------------------------------------------
(* The lane: submit and quiesce, on the main thread *)

\* Mutant of MustDrain: another handle's queued writes do not matter.
MustDrain_OwnOnly(r) ==
    owner[r] # NoSlot /\ Op(r) \notin Writes /\ owner[r] = SlotOf(r)

\* submit drains when the queued writes are another handle's, quiesce whenever
\* there are any.
MustDrain(r) ==
    owner[r] # NoSlot /\ (Op(r) \in Writes => owner[r] # SlotOf(r))

Begin(r) ==
    /\ main[r] = "ready"
    /\ ip[r] \in Step
    /\ ~(Op(r) # "close" /\ Unwinding(r, SlotOf(r)))
    /\ Goto(r, IF MustDrain(r) THEN "draining" ELSE "settling")
    /\ UNCHANGED <<program, ip, lane, stage, handle, posted, local>>

\* What a raised error keeps the program from doing with the handle.
Skip(r) ==
    /\ main[r] = "ready"
    /\ ip[r] \in Step
    /\ Op(r) # "close" /\ Unwinding(r, SlotOf(r))
    /\ Advance(r)
    /\ UNCHANGED <<program, lane, stage, handle, posted, local>>

FinishWrites(r) ==
    /\ main[r] = "draining"
    /\ Drained(r)
    /\ owner' = [owner EXCEPT ![r] = IF Op(r) \in Writes THEN @ ELSE NoSlot]
    /\ Goto(r, "settling")
    /\ UNCHANGED <<program, ip, queue, tracked, stage, handle, posted, local>>

\* _finish_reads, and on to the operation itself: _drain_for_read agrees first
\* when there are writes that have not been agreed on.  A failed read that is
\* ready by now is dropped unnoticed.
FinishReads(r) ==
    /\ main[r] = "settling"
    /\ Settled(r)
    /\ tracked' = [tracked EXCEPT ![r] = {}]
    /\ Goto(r, CASE Op(r) \in Writes -> "putting"
                 [] Op(r) \in Reads /\ dirty[r][SlotOf(r)] -> "agreeing"
                 [] Op(r) \in Reads /\ ~dirty[r][SlotOf(r)] -> "posting"
                 [] OTHER -> "calling")
    /\ UNCHANGED <<program, ip, owner, queue, stage, handle, posted, local>>

\* The other end of _finish_reads: a read fails while it waits.  The reads it has
\* are of one handle, since every read waits for those before it.
ReadRaises(r) ==
    /\ Settled(r)
    /\ spoiled[r] \cap tracked[r] # {}
    /\ tracked' = [tracked EXCEPT ![r] = {}]

\* The rank raises before the operation, out of the handle's with block and of
\* those around it that do not catch the error.
RaiseAlone(r) ==
    /\ main[r] = "settling"
    /\ Op(r) # "close"
    /\ ReadRaises(r)
    /\ \E out \in SUBSET Slot : /\ SlotOf(r) \in out
                               /\ away' = [away EXCEPT ![r] = @ \cup out]
    /\ Advance(r)
    /\ UNCHANGED <<program, owner, queue, stage, handle, spoiled, caught, local>>

\* close catches the error, goes on and brings it to its agreement.
CatchInClose(r) ==
    /\ main[r] = "settling"
    /\ Op(r) = "close"
    /\ ReadRaises(r)
    /\ caught' = [caught EXCEPT ![r] = @ \cup {SlotOf(r)}]
    /\ Goto(r, "calling")
    /\ UNCHANGED <<program, ip, owner, queue, stage, handle, spoiled, away, local>>

\* _dispatch_write: the queue takes the task, or blocks while it is full.
SubmitWrite(r) ==
    /\ main[r] = "putting"
    /\ Len(queue[r]) < MaxQueued
    /\ owner' = [owner EXCEPT ![r] = SlotOf(r)]
    /\ queue' = [queue EXCEPT ![r] = Append(@, ip[r])]
    /\ stage' = [stage EXCEPT ![r][ip[r]] = "queued"]
    /\ dirty' = [dirty EXCEPT ![r][SlotOf(r)] = TRUE]
    /\ Advance(r)
    /\ UNCHANGED <<program, tracked, failed, error, brought, report, posted, local>>

\* quiesce_pending_io: any rank, at any point between two operations.
Quiesce(r) ==
    /\ main[r] = "ready"
    /\ local[r] < MaxLocal
    /\ local' = [local EXCEPT ![r] = @ + 1]
    /\ Goto(r, IF owner[r] # NoSlot THEN "localdraining" ELSE "localsettling")
    /\ UNCHANGED <<program, ip, lane, stage, handle, posted>>

QuiesceWrites(r) ==
    /\ main[r] = "localdraining"
    /\ Drained(r)
    /\ owner' = [owner EXCEPT ![r] = NoSlot]
    /\ Goto(r, "localsettling")
    /\ UNCHANGED <<program, ip, queue, tracked, stage, handle, posted, local>>

QuiesceReads(r) ==
    /\ main[r] = "localsettling"
    /\ Settled(r)
    /\ tracked' = [tracked EXCEPT ![r] = {}]
    /\ Goto(r, "ready")
    /\ UNCHANGED <<program, ip, owner, queue, stage, handle, posted, local>>

\* quiesce_pending_io raises what it finds to a caller that may be in any with
\* blocks, or catch it.
QuiesceRaises(r) ==
    /\ main[r] = "localsettling"
    /\ ReadRaises(r)
    /\ \E out \in SUBSET Slot : away' = [away EXCEPT ![r] = @ \cup out]
    /\ Goto(r, "ready")
    /\ UNCHANGED <<program, ip, owner, queue, stage, handle, spoiled, caught, local>>

-----------------------------------------------------------------------------
(* The main thread's own calls *)

\* create_dataset and H5Fclose enter HDF5 here.
Call(r) ==
    /\ main[r] = "calling"
    /\ stage' = [stage EXCEPT ![r][ip[r]] = "inside"]
    /\ Goto(r, "inside")
    /\ UNCHANGED <<program, ip, lane, handle, posted, local>>

\* The close may raise on one rank (not for what fails inside H5Fclose, which
\* SlabCommit models); it keeps the first error it knows of and goes on to the
\* agreement.
Return(r) ==
    /\ main[r] = "inside"
    /\ MayLeave(r, ip[r])
    /\ stage' = [stage EXCEPT ![r][ip[r]] = "done"]
    /\ IF Op(r) = "close"
         THEN /\ \E fails \in {FALSE, FailuresSoFar < MaxFailures} :
                   Fail(r, ip[r], fails \/ Known(r))
              /\ Goto(r, "agreeing")
              /\ UNCHANGED ip
         ELSE Advance(r) /\ UNCHANGED <<failed, error>>
    /\ UNCHANGED <<program, lane, dirty, brought, report, posted, local>>

\* read_slab, read_multi and read_slabs post the read to the native worker and
\* return; the lane keeps the completion token (track_read).
PostRead(r) ==
    /\ main[r] = "posting"
    /\ stage' = [stage EXCEPT ![r][ip[r]] = "queued"]
    /\ tracked' = [tracked EXCEPT ![r] = @ \cup {ip[r]}]
    /\ Advance(r)
    /\ UNCHANGED <<program, owner, queue, handle, posted, local>>

-----------------------------------------------------------------------------
(* Agreements: read_after_write and data_close *)

\* _writes_agreed moves before the agreement is heard.
Bring(r) ==
    /\ main[r] = "agreeing"
    /\ brought' = [brought EXCEPT ![r][ip[r]] = error[r][SlotOf(r)]]
    /\ dirty' = [dirty EXCEPT ![r][SlotOf(r)] = FALSE]
    /\ Goto(r, "hearing")
    /\ UNCHANGED <<program, ip, lane, stage, failed, error, report, posted, local>>

\* Mutant of Agreed: a rank that has no error of its own goes on at once.
Agreed_Alone(r, i) == brought[r][i] = None \/ \A q \in Rank : brought[q][i] # NotBrought

Agreed(r, i) == \A q \in Rank : brought[q][i] # NotBrought

\* The agreement raises on every rank or on none.
Hear(r) ==
    /\ main[r] = "hearing"
    /\ Agreed(r, ip[r])
    /\ LET raised == \E q \in Rank : brought[q][ip[r]] # None IN
         IF Op(r) = "close"
           THEN /\ report' = [report EXCEPT ![r][SlotOf(r)] =
                                IF raised THEN "raised" ELSE "ok"]
                /\ Advance(r)
           ELSE /\ UNCHANGED report
                /\ IF raised THEN Advance(r)
                   ELSE Goto(r, "posting") /\ UNCHANGED ip
    /\ UNCHANGED <<program, lane, stage, failed, error, dirty, brought, posted, local>>

-----------------------------------------------------------------------------
(* The lane's worker and the native read workers *)

TakeWrite(r) ==
    /\ queue[r] # <<>>
    /\ ~\E i \in Step : program[i].op \in Writes /\ stage[r][i] = "inside"
    /\ stage' = [stage EXCEPT ![r][Head(queue[r])] = "inside"]
    /\ queue' = [queue EXCEPT ![r] = Tail(@)]
    /\ UNCHANGED <<program, ip, main, owner, tracked, handle, posted, local>>

\* Mutant of FinishWrite: the error goes to the handle that owns the lane now.
FinishWrite_OwnersError(r, i) ==
    /\ program[i].op \in Writes
    /\ MayLeave(r, i)
    /\ stage' = [stage EXCEPT ![r][i] = "done"]
    /\ \E fails \in {FALSE, FailuresSoFar < MaxFailures} :
         /\ failed' = [failed EXCEPT ![r][i] = fails]
         /\ error' = [error EXCEPT ![r] =
              [s \in Slot |-> IF fails /\ error[r][s] = None
                                 /\ ip[r] \in Step /\ s = SlotOf(r)
                                THEN i ELSE error[r][s]]]
    /\ UNCHANGED <<program, ip, main, lane, dirty, brought, report, posted, local>>

\* The write returns, or fails on this rank alone, and the worker goes on with
\* the next task.
FinishWrite(r, i) ==
    /\ program[i].op \in Writes
    /\ MayLeave(r, i)
    /\ stage' = [stage EXCEPT ![r][i] = "done"]
    /\ \E fails \in {FALSE, FailuresSoFar < MaxFailures} : Fail(r, i, fails)
    /\ UNCHANGED <<program, ip, main, lane, dirty, brought, report, posted, local>>

TakeRead(r, i) ==
    /\ program[i].op \in Reads
    /\ stage[r][i] = "queued"
    /\ stage' = [stage EXCEPT ![r][i] = "inside"]
    /\ UNCHANGED <<program, ip, main, lane, handle, posted, local>>

\* The read lands, or fails on this rank alone.
FinishRead(r, i) ==
    /\ program[i].op \in Reads
    /\ MayLeave(r, i)
    /\ stage' = [stage EXCEPT ![r][i] = "done"]
    /\ \E fails \in {FALSE, FailuresSoFar < MaxFailures} :
         spoiled' = [spoiled EXCEPT ![r] = IF fails THEN @ \cup {i} ELSE @]
    /\ UNCHANGED <<program, ip, main, lane, handle, away, caught, local>>

-----------------------------------------------------------------------------

MainStep(r) ==
    \/ Begin(r) \/ Skip(r) \/ FinishWrites(r)
    \/ FinishReads(r) \/ RaiseAlone(r) \/ CatchInClose(r)
    \/ SubmitWrite(r) \/ QuiesceWrites(r) \/ QuiesceReads(r) \/ QuiesceRaises(r)
    \/ Call(r) \/ Return(r) \/ PostRead(r) \/ Bring(r) \/ Hear(r)
WorkerStep(r) == TakeWrite(r) \/ \E i \in Step : FinishWrite(r, i)
NativeStep(r) == \E i \in Step : TakeRead(r, i) \/ FinishRead(r, i)

Ended(r) == ip[r] = Len(program) + 1 /\ main[r] = "ready"
AllDone == \A r \in Rank : Ended(r) /\ Drained(r) /\ Settled(r)

Next ==
    \E r \in Rank : MainStep(r) \/ Quiesce(r) \/ WorkerStep(r) \/ NativeStep(r)

Spec == Init /\ [][Next]_vars

\* Every thread is scheduled, and HDF5 returns from a call all ranks are in.
FairSpec ==
    /\ Spec
    /\ \A r \in Rank : /\ WF_vars(MainStep(r))
                       /\ WF_vars(WorkerStep(r))
                       /\ WF_vars(NativeStep(r))
-----------------------------------------------------------------------------
(* Correctness *)

\* No two threads of a process are inside HDF5 at once, and a call enters only
\* when every earlier operation of the program has left: the main thread, the
\* lane's worker and the native readers of all the handles together make the
\* one order the program has.
EntersInProgramOrder ==
    \A r \in Rank : \A j \in Step :
        Entered(r, j) => \A i \in 1 .. j - 1 : stage[r][i] \in {"none", "done"}

\* A read reaches the file only if every earlier write of the handle succeeded
\* on every rank: no rank returns bytes another rank failed to write.
ReadSeesGoodWrites ==
    \A r \in Rank : \A j \in Step :
        program[j].op \in Reads /\ stage[r][j] # "none" =>
            \A q \in Rank : \A i \in 1 .. j - 1 :
                program[i].slot = program[j].slot => ~failed[q][i]

\* close raises on every rank if any rank failed to write any part of this
\* handle, left its with block by itself or had a close that failed, and on none
\* if the only failures are another handle's.
CloseTellsAll ==
    \A r \in Rank : \A s \in Slot :
        report[r][s] # "open" =>
            (report[r][s] = "raised" <=>
                \E q \in Rank : \E i \in Step :
                    program[i].slot = s /\ failed[q][i])

\* Every rank reaches the end of the program: whatever fails, no two ranks ever
\* wait in different collectives, but for a rank that a posted read of its own
\* has made leave a with block that its peers are in (README, "Divergences").
EveryProgramEnds == <>(AllDone \/ \E r \in Rank : away[r] # {})

\* What the handles of a program promise together: reads see good writes and
\* close reports every rank's failures, of its own handle alone.
LaneInv == TypeOK /\ ReadSeesGoodWrites /\ CloseTellsAll
=============================================================================
