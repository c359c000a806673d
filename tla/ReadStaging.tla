----------------------------- MODULE ReadStaging -----------------------------
(***************************************************************************)
(* ffi/cpp/phdf5/context.cc: the host buffer each open file keeps for its  *)
(* synchronous reads, on the device build.  A buffer up to Keep is kept    *)
(* for the next read; a larger one only under a budget of the process,     *)
(* which the readers of the files take from by compare and exchange.  What *)
(* does not fit is handed to the file's worker, which frees it when the    *)
(* copy to the device is over.  Freeing page-locked memory waits for the   *)
(* copies from it (external).                                              *)
(***************************************************************************)
EXTENDS Integers, FiniteSets, Sequences, Functions

CONSTANTS
    File,        \* open files, each with its reader thread and its worker
    Buffer,      \* host allocations
    Keep,        \* kMaxRetainedReadStaging, in units of the rounding
    Budget,      \* read_retain_budget
    MaxSize      \* bound: the largest read

NoBuffer == "none"

VARIABLES
    buffer,      \* read_buf
    capacity,    \* read_capacity
    reserved,    \* read_reserved
    used,        \* g_read_reserved
    reader,      \* where the handler of a file is
    seen,        \* the value of used its loop has seen
    copying,     \* buffers with a copy to the device in flight
    retired      \* buffers handed to a file's worker

vars == <<buffer, capacity, reserved, used, reader, seen, copying, retired>>

Reader == {"idle", "reading", "settling", "looping", "failed", "closing", "closed"}

TypeOK ==
    /\ buffer \in [File -> Buffer \cup {NoBuffer}]
    /\ capacity \in [File -> 0 .. MaxSize]
    /\ reserved \in [File -> 0 .. MaxSize]
    /\ used \in 0 .. Budget
    /\ reader \in [File -> Reader]
    /\ seen \in [File -> 0 .. Budget]
    /\ copying \subseteq Buffer
    /\ retired \in [File -> Seq(Buffer)]

Init ==
    /\ buffer = [f \in File |-> NoBuffer]
    /\ capacity = [f \in File |-> 0]
    /\ reserved = [f \in File |-> 0]
    /\ used = 0
    /\ reader = [f \in File |-> "idle"]
    /\ seen = [f \in File |-> 0]
    /\ copying = {}
    /\ retired = [f \in File |-> <<>>]

Allocated == {buffer[f] : f \in File} \cup UNION {Range(retired[f]) : f \in File}
Free == Buffer \ Allocated

At(f, place) == reader' = [reader EXCEPT ![f] = place]

\* release_read_reservation
ReleaseReservation(f) ==
    /\ used' = used - reserved[f]
    /\ reserved' = [reserved EXCEPT ![f] = 0]

-----------------------------------------------------------------------------
\* The buffer is written again only after its last copy (h2d_event).
CopyIsOver(f) == buffer[f] \notin copying

\* ensure_read_buf with a buffer that is large enough ...
Reuse(f, need) ==
    /\ reader[f] \in {"idle", "failed"} /\ capacity[f] >= need /\ CopyIsOver(f)
    /\ At(f, "reading")
    /\ UNCHANGED <<buffer, capacity, reserved, used, seen, copying, retired>>

\* ... or that grows: its reservation and then the buffer itself go first, and
\* the allocation may fail.
Grow(f, need) ==
    /\ reader[f] \in {"idle", "failed"} /\ capacity[f] < need /\ CopyIsOver(f)
    /\ ReleaseReservation(f)
    /\ \/ /\ \E b \in Free : buffer' = [buffer EXCEPT ![f] = b]
          /\ capacity' = [capacity EXCEPT ![f] = need]
          /\ At(f, "reading")
       \/ /\ buffer' = [buffer EXCEPT ![f] = NoBuffer]
          /\ capacity' = [capacity EXCEPT ![f] = 0]
          /\ At(f, "failed")
    /\ UNCHANGED <<seen, copying, retired>>

\* H5Dread fails; the handler returns without settling the buffer.
ReadFails(f) ==
    /\ reader[f] = "reading"
    /\ At(f, "failed")
    /\ UNCHANGED <<buffer, capacity, reserved, used, seen, copying, retired>>

\* The data is read and its copy to the device enqueued (stage_host_to_output).
Copy(f) ==
    /\ reader[f] = "reading"
    /\ copying' = copying \cup {buffer[f]}
    /\ At(f, "settling")
    /\ UNCHANGED <<buffer, capacity, reserved, used, seen, retired>>

CopyEnds(b) ==
    /\ b \in copying
    /\ copying' = copying \ {b}
    /\ UNCHANGED <<buffer, capacity, reserved, used, reader, seen, retired>>

\* settle_read_buf up to its loop.
Settle(f) ==
    /\ reader[f] = "settling"
    /\ IF capacity[f] <= Keep \/ reserved[f] = capacity[f]
         THEN At(f, "idle") /\ UNCHANGED <<used, reserved, seen>>
         ELSE /\ ReleaseReservation(f)
              /\ seen' = [seen EXCEPT ![f] = used']
              /\ At(f, "looping")
    /\ UNCHANGED <<buffer, capacity, copying, retired>>

Fits(f) == seen[f] + capacity[f] <= Budget

\* Mutant of Reserve: the sum is stored without comparing.
Reserve_Blind(f) ==
    /\ reader[f] = "looping" /\ Fits(f)
    /\ used' = seen[f] + capacity[f]
    /\ reserved' = [reserved EXCEPT ![f] = capacity[f]]
    /\ At(f, "idle")
    /\ UNCHANGED <<buffer, capacity, seen, copying, retired>>

\* One compare and exchange: it takes the reservation, or shows the new value.
Reserve(f) ==
    /\ reader[f] = "looping" /\ Fits(f)
    /\ \/ /\ used = seen[f]
          /\ used' = seen[f] + capacity[f]
          /\ reserved' = [reserved EXCEPT ![f] = capacity[f]]
          /\ At(f, "idle")
          /\ UNCHANGED seen
       \/ /\ used # seen[f]
          /\ seen' = [seen EXCEPT ![f] = used]
          /\ UNCHANGED <<used, reserved, reader>>
    /\ UNCHANGED <<buffer, capacity, copying, retired>>

\* retire_read_buf: the worker gets the buffer.
Retire(f) ==
    /\ reader[f] = "looping" /\ ~Fits(f)
    /\ retired' = [retired EXCEPT ![f] = Append(@, buffer[f])]
    /\ buffer' = [buffer EXCEPT ![f] = NoBuffer]
    /\ capacity' = [capacity EXCEPT ![f] = 0]
    /\ ReleaseReservation(f)
    /\ At(f, "idle")
    /\ UNCHANGED <<seen, copying>>

\* Mutant of FreeRetired: a closing file's worker takes no more tasks.
FreeRetired_Stopped(f) ==
    /\ retired[f] # <<>> /\ Head(retired[f]) \notin copying /\ reader[f] # "closing"
    /\ retired' = [retired EXCEPT ![f] = Tail(@)]
    /\ UNCHANGED <<buffer, capacity, reserved, used, reader, seen, copying>>

\* The worker frees it when the stream has passed its copy.
FreeRetired(f) ==
    /\ retired[f] # <<>> /\ Head(retired[f]) \notin copying
    /\ retired' = [retired EXCEPT ![f] = Tail(@)]
    /\ UNCHANGED <<buffer, capacity, reserved, used, reader, seen, copying>>

\* close_ctx joins the worker, which has emptied its queue, and then frees.
Close(f) ==
    /\ reader[f] \in {"idle", "failed"}
    /\ At(f, "closing")
    /\ UNCHANGED <<buffer, capacity, reserved, used, seen, copying, retired>>

Closed(f) ==
    /\ reader[f] = "closing" /\ retired[f] = <<>> /\ CopyIsOver(f)
    /\ buffer' = [buffer EXCEPT ![f] = NoBuffer]
    /\ capacity' = [capacity EXCEPT ![f] = 0]
    /\ ReleaseReservation(f)
    /\ At(f, "closed")
    /\ UNCHANGED <<seen, copying, retired>>

Step(f) == Copy(f) \/ Settle(f) \/ Reserve(f) \/ Retire(f) \/ Closed(f)

Next ==
    \/ \E f \in File, need \in 1 .. MaxSize : Reuse(f, need) \/ Grow(f, need)
    \/ \E f \in File : Step(f) \/ ReadFails(f) \/ FreeRetired(f) \/ Close(f)
    \/ \E b \in Buffer : CopyEnds(b)

Spec == Init /\ [][Next]_vars

Fairness ==
    /\ \A f \in File : WF_vars(Step(f)) /\ WF_vars(FreeRetired(f))
    /\ \A b \in Buffer : WF_vars(CopyEnds(b))

FairSpec == Spec /\ Fairness

-----------------------------------------------------------------------------
\* What files of these sizes hold, unit by unit.
Units(size, files) == UNION {{f} \X (1 .. size[f]) : f \in files}

\* The counter of the process is what the files hold, through growth, retries
\* of the exchange and closing: a share counted twice or given back twice would
\* end the budget or exceed it.
BudgetIsWhatIsHeld == used = Cardinality(Units(reserved, File))

AboveKeep(places) == {f \in File : reader[f] \in places /\ capacity[f] > Keep}

\* "Idle read staging is bounded per file and, above that, by one process-wide
\* budget" (read_ffi.cc), for the files whose last read succeeded.
IdleStagingIsBounded == Cardinality(Units(capacity, AboveKeep({"idle"}))) <= Budget

\* The same for every file no handler is at work on.  It does not hold: a read
\* that fails leaves its buffer outside the budget (README, "Divergences").
StagingIsBounded == Cardinality(Units(capacity, AboveKeep({"idle", "failed"}))) <= Budget

\* A buffer is not written while a copy reads it, nor used for another file.
BuffersArePrivate ==
    /\ \A f \in File : reader[f] = "reading" => buffer[f] \notin copying
    /\ \A f, g \in File : f # g /\ buffer[f] # NoBuffer => buffer[f] # buffer[g]
    /\ copying \subseteq Allocated

\* A close ends: the worker's queue empties although nobody reads any more.  (A
\* handler in the loop of the exchange may lose to the others for ever.)
CloseEnds == \A f \in File : reader[f] = "closing" ~> reader[f] = "closed"

\* The budget and the buffers together: counted once, bounded when idle, and
\* never shared.
StagingInv ==
    TypeOK /\ BudgetIsWhatIsHeld /\ IdleStagingIsBounded /\ BuffersArePrivate
=============================================================================
