----------------------------- MODULE HostControl -----------------------------
(***************************************************************************)
(* The host control plane: all-rank exchanges of small receipts through    *)
(* the distributed runtime's key-value store, with no device collective.   *)
(*                                                                         *)
(* Two kinds of exchange share one per-process occurrence counter:         *)
(*   reduce_bytes_to_all (under agree_io_error): every rank publishes one  *)
(*     record, rank zero reduces them, every rank gets the reduction;      *)
(*   rank0_read: rank zero reads a file and every rank gets its value or   *)
(*     its failure.                                                        *)
(* Both end alike: the peers count themselves in once they have the        *)
(* result, and rank zero then deletes the exchange's directory.            *)
(*                                                                         *)
(* The store is the coordination service's: one RPC is one atomic step,    *)
(* and nothing is atomic across two RPCs.                                  *)
(***************************************************************************)
EXTENDS ControlRecords

VARIABLES
    program,     \* program[r][c]: the stage of rank r's c-th call
    occurrence,  \* _IO_CONTROL_OCCURRENCE of each process
    call,        \* calls each rank has returned from
    pc,          \* where each rank is inside its exchange
    key,         \* the directory of the exchange a rank is in
    envelope,    \* the envelope a rank holds: made (rank 0) or read (peer)
    offered,     \* offered[r][c]: what rank r brought to its c-th call
    heard,       \* heard[r][c]: what its c-th call returned or raised
    (* The store, by exchange: the values under the directory key/. *)
    record,      \* key/rank/<r>
    arrived,     \* key/arrived, the counter of the records
    complete,    \* key/complete
    chunks,      \* key/chunk/<i>, all of them
    result,      \* key/result
    readArrived, \* key/read/arrived, the counter of the readers
    readComplete \* key/read/complete

posted == <<record, arrived, complete>>
answer == <<chunks, result>>
readers == <<readArrived, readComplete>>
store == <<posted, answer, readers>>
caller == <<program, occurrence, call, key, offered, heard>>
vars == <<caller, pc, envelope, store>>

NoKey == [stage |-> "none", occ |-> -1]

\* The directory of exchange k holds no key.
Absent(k) ==
    /\ record[k] = [r \in Rank |-> NoReceipt]
    /\ arrived[k] = 0
    /\ ~complete[k]
    /\ ~chunks[k]
    /\ result[k] = NoVerdict
    /\ readArrived[k] = 0
    /\ ~readComplete[k]

PC == {"ready",                       \* between calls
       "counting", "marking",         \* publish_rank_record
       "collecting",                  \* rank 0 waits for key/complete
       "chunking",                    \* rank 0 of a read stores the body
       "publishing",                  \* rank 0 sets key/result
       "gathering", "deleting",       \* rank 0 waits for the readers
       "awaiting",                    \* a peer waits for key/result
       "body",                        \* a peer of a read waits for the chunks
       "acking", "ackmarking"}        \* _arrive(key/read)

TypeOK ==
    /\ program \in [Rank -> [Call -> Stage]]
    /\ occurrence \in [Rank -> 0 .. Calls]
    /\ call \in [Rank -> 0 .. Calls]
    /\ pc \in [Rank -> PC]
    /\ key \in [Rank -> Key \cup {NoKey}]
    /\ envelope \in [Rank -> Verdict \cup {NoVerdict}]
    /\ record \in [Key -> [Rank -> Receipt \cup {NoReceipt}]]
    /\ arrived \in [Key -> 0 .. N]
    /\ complete \in [Key -> BOOLEAN]
    /\ chunks \in [Key -> BOOLEAN]
    /\ result \in [Key -> Verdict \cup {NoVerdict}]
    /\ readArrived \in [Key -> 0 .. N-1]
    /\ readComplete \in [Key -> BOOLEAN]
    /\ offered \in [Rank -> [Call -> Receipt \cup {NoReceipt}]]
    /\ heard \in [Rank -> [Call -> Verdict \cup {NoVerdict}]]

Init ==
    /\ program \in Programs
    /\ occurrence = [r \in Rank |-> 0]
    /\ call = [r \in Rank |-> 0]
    /\ pc = [r \in Rank |-> "ready"]
    /\ key = [r \in Rank |-> NoKey]
    /\ envelope = [r \in Rank |-> NoVerdict]
    /\ record = [k \in Key |-> [r \in Rank |-> NoReceipt]]
    /\ arrived = [k \in Key |-> 0]
    /\ complete = [k \in Key |-> FALSE]
    /\ chunks = [k \in Key |-> FALSE]
    /\ result = [k \in Key |-> NoVerdict]
    /\ readArrived = [k \in Key |-> 0]
    /\ readComplete = [k \in Key |-> FALSE]
    /\ offered = [r \in Rank |-> [c \in Call |-> NoReceipt]]
    /\ heard = [r \in Rank |-> [c \in Call |-> NoVerdict]]

-----------------------------------------------------------------------------
(* Helpers of the actions *)

Goto(r, label) == pc' = [pc EXCEPT ![r] = label]

\* Mutant of NextKey: the stage names the exchange, no occurrence.
NextKey_SameEveryTime(r) == [stage |-> program[r][call[r]], occ |-> 0]

\* _io_control_key: the occurrence is taken and the counter moves under one
\* lock, so the pair is one step.
NextKey(r) == [stage |-> program[r][call[r]], occ |-> occurrence[r]]

\* The call returns (or raises) verdict v to rank r's caller.
Return(r, v) ==
    /\ heard' = [heard EXCEPT ![r][call[r]] = v]
    /\ call' = [call EXCEPT ![r] = @ + 1]
    /\ Goto(r, "ready")
    /\ key' = [key EXCEPT ![r] = NoKey]
    /\ envelope' = [envelope EXCEPT ![r] = NoVerdict]

-----------------------------------------------------------------------------
(* Entering an exchange *)

\* agree_io_error / reduce_bytes_to_all: store this rank's record.
EnterReduce(r) ==
    /\ pc[r] = "ready"
    /\ call[r] < Calls
    /\ LET k == NextKey(r) IN
         /\ k.stage \notin ReadStages
         /\ \E x \in Offers(r, k.stage) :
              /\ offered' = [offered EXCEPT ![r][call[r]] = x]
              /\ record' = [record EXCEPT ![k][r] = x]
         /\ key' = [key EXCEPT ![r] = k]
    /\ occurrence' = [occurrence EXCEPT ![r] = @ + 1]
    /\ Goto(r, "counting")
    /\ UNCHANGED <<program, call, envelope, heard, arrived, complete, answer, readers>>

\* rank0_read: rank zero reads the file, the peers only wait for it.
EnterRead(r) ==
    /\ pc[r] = "ready"
    /\ call[r] < Calls
    /\ LET k == NextKey(r) IN
         /\ k.stage \in ReadStages
         /\ \E x \in Offers(r, k.stage) :
              /\ offered' = [offered EXCEPT ![r][call[r]] = x]
              /\ envelope' = [envelope EXCEPT ![r] =
                               IF r = 0 THEN ReadEnvelope(x) ELSE NoVerdict]
         /\ key' = [key EXCEPT ![r] = k]
    /\ occurrence' = [occurrence EXCEPT ![r] = @ + 1]
    /\ Goto(r, IF r = 0 THEN "chunking" ELSE "awaiting")
    /\ UNCHANGED <<program, call, store, heard>>

-----------------------------------------------------------------------------
(* _arrive: one atomic increment, then the last arrival marks the directory *)

Collecting(r) == IF r = 0 THEN "collecting" ELSE "awaiting"

CountRecord(r) ==
    /\ pc[r] = "counting"
    /\ arrived' = [arrived EXCEPT ![key[r]] = @ + 1]
    /\ Goto(r, IF arrived[key[r]] + 1 = N THEN "marking" ELSE Collecting(r))
    /\ UNCHANGED <<caller, envelope, record, complete, answer, readers>>

MarkComplete(r) ==
    /\ pc[r] = "marking"
    /\ complete' = [complete EXCEPT ![key[r]] = TRUE]
    /\ Goto(r, Collecting(r))
    /\ UNCHANGED <<caller, envelope, record, arrived, answer, readers>>

-----------------------------------------------------------------------------
(* Rank zero *)

\* Mutant of CollectRecords: rank zero reduces what is there so far.
CollectRecords_NoWait ==
    /\ pc[0] = "collecting"
    /\ envelope' = [envelope EXCEPT ![0] = FirstIoError(record[key[0]])]
    /\ Goto(0, "publishing")
    /\ UNCHANGED <<caller, store>>

\* collect_rank_records and the reduction.
CollectRecords ==
    /\ pc[0] = "collecting"
    /\ complete[key[0]]
    /\ envelope' = [envelope EXCEPT ![0] = Envelope(record[key[0]])]
    /\ Goto(0, "publishing")
    /\ UNCHANGED <<caller, store>>

\* rank0_read stores the body before the head that announces it.
StoreChunks ==
    /\ pc[0] = "chunking"
    /\ chunks' = [chunks EXCEPT ![key[0]] = TRUE]
    /\ Goto(0, "publishing")
    /\ UNCHANGED <<caller, envelope, posted, result, readers>>

PublishResult ==
    /\ pc[0] = "publishing"
    /\ result' = [result EXCEPT ![key[0]] = envelope[0]]
    /\ Goto(0, "gathering")
    /\ UNCHANGED <<caller, envelope, posted, chunks, readers>>

\* Mutant of AwaitReaders: the directory goes as soon as one reader was there.
AwaitReaders_First ==
    /\ pc[0] = "gathering"
    /\ readArrived[key[0]] > 0
    /\ Goto(0, "deleting")
    /\ UNCHANGED <<caller, envelope, store>>

AwaitReaders ==
    /\ pc[0] = "gathering"
    /\ readComplete[key[0]]
    /\ Goto(0, "deleting")
    /\ UNCHANGED <<caller, envelope, store>>

\* Mutant of DeleteDirectory: only the result key is deleted.
DeleteDirectory_ResultOnly ==
    /\ pc[0] = "deleting"
    /\ result' = [result EXCEPT ![key[0]] = NoVerdict]
    /\ Return(0, envelope[0])
    /\ UNCHANGED <<program, occurrence, offered, posted, chunks, readers>>

\* One delete removes the whole key/ directory, then the call ends.
DeleteDirectory ==
    /\ pc[0] = "deleting"
    /\ record' = [record EXCEPT ![key[0]] = [r \in Rank |-> NoReceipt]]
    /\ arrived' = [arrived EXCEPT ![key[0]] = 0]
    /\ complete' = [complete EXCEPT ![key[0]] = FALSE]
    /\ chunks' = [chunks EXCEPT ![key[0]] = FALSE]
    /\ result' = [result EXCEPT ![key[0]] = NoVerdict]
    /\ readArrived' = [readArrived EXCEPT ![key[0]] = 0]
    /\ readComplete' = [readComplete EXCEPT ![key[0]] = FALSE]
    /\ Return(0, envelope[0])
    /\ UNCHANGED <<program, occurrence, offered>>

-----------------------------------------------------------------------------
(* The peers *)

TakeResult(r) ==
    /\ pc[r] = "awaiting"
    /\ r # 0
    /\ result[key[r]] # NoVerdict
    /\ envelope' = [envelope EXCEPT ![r] = result[key[r]]]
    /\ Goto(r, IF key[r].stage \in ReadStages THEN "body" ELSE "acking")
    /\ UNCHANGED <<caller, store>>

TakeChunks(r) ==
    /\ pc[r] = "body"
    /\ chunks[key[r]]
    /\ Goto(r, "acking")
    /\ UNCHANGED <<caller, envelope, store>>

\* Mutant of CountRead: rank zero is counted among the readers.
CountRead_AllRanks(r) ==
    /\ pc[r] = "acking"
    /\ readArrived' = [readArrived EXCEPT ![key[r]] = @ + 1]
    /\ IF readArrived[key[r]] + 1 = N
         THEN /\ Goto(r, "ackmarking")
              /\ UNCHANGED <<call, key, envelope, heard>>
         ELSE Return(r, envelope[r])
    /\ UNCHANGED <<program, occurrence, offered, posted, answer, readComplete>>

\* Every reader but the last returns right after its increment.
CountRead(r) ==
    /\ pc[r] = "acking"
    /\ readArrived' = [readArrived EXCEPT ![key[r]] = @ + 1]
    /\ IF readArrived[key[r]] + 1 = N - 1
         THEN /\ Goto(r, "ackmarking")
              /\ UNCHANGED <<call, key, envelope, heard>>
         ELSE Return(r, envelope[r])
    /\ UNCHANGED <<program, occurrence, offered, posted, answer, readComplete>>

MarkReadComplete(r) ==
    /\ pc[r] = "ackmarking"
    /\ readComplete' = [readComplete EXCEPT ![key[r]] = TRUE]
    /\ Return(r, envelope[r])
    /\ UNCHANGED <<program, occurrence, offered, posted, answer, readArrived>>

-----------------------------------------------------------------------------

RootStep ==
    CollectRecords \/ StoreChunks \/ PublishResult \/ AwaitReaders
    \/ DeleteDirectory

Step(r) ==
    \/ EnterReduce(r)
    \/ EnterRead(r)
    \/ CountRecord(r)
    \/ MarkComplete(r)
    \/ TakeResult(r)
    \/ TakeChunks(r)
    \/ CountRead(r)
    \/ MarkReadComplete(r)

Next == RootStep \/ \E r \in Rank : Step(r)

Spec == Init /\ [][Next]_vars

\* A rank is a process of its own and the store answers every RPC, so an
\* exchange step that can be taken is taken.  That a rank reaches its next
\* call at all is what the collective contract asks of the caller.
Fairness == WF_vars(RootStep) /\ \A r \in Rank : WF_vars(Step(r))
FairSpec == Spec /\ Fairness
-----------------------------------------------------------------------------
(* Correctness *)

Aligned == \A r \in Rank : program[r] = program[0]

Past(r, k) == heard[r][k.occ] # NoVerdict /\ program[r][k.occ] = k.stage

\* No call ends with a verdict unless it is everybody's: two ranks whose n-th
\* calls ended made the same call and got the same verdict, even when a rank
\* has left the common program (its exchange then hangs instead of taking a
\* record or a result of another one).  This is what lets a caller act on
\* agree_io_error and rank0_read without a further barrier.
VerdictIsShared ==
    \A r, q \in Rank, c \in Call :
        heard[r][c] # NoVerdict /\ heard[q][c] # NoVerdict
            => /\ program[r][c] = program[q][c]
               /\ heard[r][c] = heard[q][c]

\* What a reduction says of the ranks' receipts: every rank had come to this
\* very call; success means that nobody failed, a failure names the lowest
\* failing rank, and the root's own failure is raised only for records that
\* do not fit (agree_io_error's contract).
VerdictIsTrue ==
    \A r \in Rank, c \in Call :
        heard[r][c] # NoVerdict /\ program[r][c] \notin ReadStages =>
            LET v == heard[r][c]
                receipt(q) == offered[q][c]
            IN /\ \A q \in Rank : /\ program[q][c] = program[r][c]
                                  /\ receipt(q) # NoReceipt
               /\ v.kind = "root" <=> \E q \in Rank : receipt(q) = "misfit"
               /\ v.kind = "ok" => \A q \in Rank : receipt(q) = "ok"
               /\ v.kind = "error" =>
                    /\ receipt(v.rank) = "error"
                    /\ \A q \in Rank : q < v.rank => receipt(q) = "ok"

\* What rank0_read returns is rank zero's own outcome of the same call.
ReadIsRootsOwn ==
    \A r \in Rank, c \in Call :
        heard[r][c] # NoVerdict /\ program[r][c] \in ReadStages =>
            /\ program[0][c] = program[r][c]
            /\ heard[r][c] = ReadEnvelope(offered[0][c])

\* reduce_bytes_to_all's arrival protocol: a directory that is marked complete
\* holds every rank's record, so the one directory get finds no hole.
CompleteMeansAllRecords ==
    \A k \in Key : complete[k] =>
        \A r \in Rank : record[k][r] # NoReceipt

\* Rank zero removes a directory only after the last reader is done with it:
\* a delete never takes away a result or a chunk somebody still waits for.
DeleteAfterLastRead ==
    [][\A k \in Key :
         ~Absent(k) /\ Absent(k)'
            => \A r \in Rank : Past(r, k)']_vars

\* A reader that holds the head of rank0_read never waits for the body: the
\* chunks were stored first and are still there.
ReaderFindsBody ==
    \A r \in Rank : pc[r] = "body" => chunks[key[r]]

\* With every rank on the same program, the store holds at most the exchange
\* rank zero is in and the one some peers have already entered, ...
AtMostTwoDirectories ==
    Aligned => Cardinality({k \in Key : ~Absent(k)}) <= 2

\* ... and nothing at all once the last call has ended: "a long run does not
\* retain one record per I/O transaction".
NothingRetained ==
    Aligned /\ (\A r \in Rank : call[r] = Calls)
        => \A k \in Key : Absent(k)

\* Every call of a program that all ranks share returns on every rank.
EveryCallReturns == Aligned ~> (\A r \in Rank : call[r] = Calls)
-----------------------------------------------------------------------------
(* The abstract specification this implements *)

\* An exchange is decided by its result, and stays decided when rank zero has
\* deleted the directory.
DecidedOf(k) ==
    IF result[k] # NoVerdict THEN result[k]
    ELSE IF Past(0, k) THEN heard[0][k.occ]
    ELSE NoVerdict

Abstract == INSTANCE Agreement WITH decided <- [k \in Key |-> DecidedOf(k)]

\* The exchanges over the store behave as one decision per exchange that the
\* ranks hear: nothing is decided early, twice or differently.
ImplementsAgreement == Abstract!Spec
=============================================================================
