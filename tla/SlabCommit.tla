------------------------------ MODULE SlabCommit ------------------------------
(***************************************************************************)
(* The life of one artifact under file_io.slab_io: SlabIO handles opened   *)
(* and closed on it one after the other by all ranks of a job, the commit  *)
(* receipt of file_io.commit_state, rank zero's serial reopens of a file   *)
(* the ranks write collectively, failures, and jobs that are killed.       *)
(*                                                                         *)
(* Queued writes and the order of HDF5 calls inside a process are          *)
(* CollectiveLane; sessions, meetings and kills are Meetings.              *)
(*                                                                         *)
(* A killed job leaves on disk what HDF5 had handed to the system; what a  *)
(* call that did not return has written is torn.                           *)
(***************************************************************************)
EXTENDS Meetings

Mode == {"r", "a", "w"}
\* "close" is an error the teardown reports, "H5Fclose" one it does not.
Fault == {"unlink", "create", "zeros", "write", "close", "H5Fclose", "materialize", "publish"}

ASSUME FaultsAssumption == Faults \subseteq Fault

\* In the order a handle comes to them.
Meeting == {"SlabIO.open", "replace_inode", "H5Fopen", "H5Dcreate", "zeros",
            "initialize_receipt", "H5Dwrite", "H5Fclose", "data_close",
            "materialized", "metadata_commit"}

VARIABLES
    exists,      \* the path exists
    receipt,     \* lorrax_io_committed: none, unset (never written), 0, 1
    block,       \* block[r]: the session that wrote rank r's part of the data
    attr,        \* the session that wrote the deferred metadata
    unclosed,    \* a native close of this file has failed
    modes,       \* the modes the program opens the path in
    native,      \* ranks that hold the path through the parallel HDF5
    serial       \* h5py handles rank zero holds on the path

disk == <<exists, receipt, block, attr, unclosed>>
vars == <<disk, modes, native, serial, ranks>>

Torn == -1       \* a write that has not landed, or not wholly
Nothing == -2
Before == 0      \* what an artifact held before the first session
Content == {Torn, Nothing, Before} \cup Session

Place == {"preflight", "checking", "replacing", "left", "writing", "closing",
          "materializing", "reopening", "stamping", "flushing", "committing",
          "releasing"}

TypeOK ==
    /\ exists \in BOOLEAN
    /\ receipt \in {"none", "unset", "0", "1"}
    /\ block \in [Rank -> Content] /\ attr \in Content /\ unclosed \in BOOLEAN
    /\ modes \in [Session -> Mode]
    /\ native \subseteq Rank
    /\ serial \in 0 .. 1
    /\ RanksOK(Place, Meeting)

\* No file, one from before the receipt existed, or a committed one.
Init ==
    /\ \/ exists = FALSE /\ receipt = "none"
       \/ exists = TRUE /\ receipt \in {"none", "1"}
    /\ block = [r \in Rank |-> IF exists THEN Before ELSE Nothing]
    /\ attr = IF exists THEN Before ELSE Nothing
    /\ unclosed = FALSE
    /\ modes \in [Session -> Mode]
    /\ native = {}
    /\ serial = 0
    /\ RanksInit(Meeting)

-----------------------------------------------------------------------------

ModeOf(r) == modes[session[r]]
within == <<modes, session, crashes>>      \* what a session leaves alone

-----------------------------------------------------------------------------
(* Opening: _FfiBackend.__init__ *)

Start(r) ==
    /\ Begin(r)
    /\ IF r = 0 THEN Goto(r, "preflight") /\ UNCHANGED came
                ELSE ComeIn(session[r] + 1, r, "SlabIO.open", FALSE)
    /\ UNCHANGED <<disk, modes, native, serial, outcome, faults, crashes>>

\* rank0_transaction SlabIO.open: a and r look at the receipt of a file there is.
Preflight ==
    /\ pc[0] = "preflight"
    /\ IF ModeOf(0) # "w" /\ exists
         THEN serial' = serial + 1 /\ Goto(0, "checking") /\ UNCHANGED came
         ELSE Come(0, "SlabIO.open", FALSE) /\ UNCHANGED serial
    /\ UNCHANGED <<disk, within, error, native, outcome, faults>>

\* assert_committed refuses any receipt but 1; an append then clears it.  One
\* that was never written may read as anything.
CheckReceipt ==
    /\ pc[0] = "checking"
    /\ \E reads1 \in IF receipt = "unset" THEN BOOLEAN ELSE {receipt = "1"} :
         LET refuse == receipt # "none" /\ ~reads1 IN
         /\ receipt' = IF ~refuse /\ ModeOf(0) = "a" THEN "0" ELSE receipt
         /\ error' = [error EXCEPT ![0] = refuse]
         /\ Come(0, "SlabIO.open", refuse)
    /\ serial' = serial - 1
    /\ UNCHANGED <<exists, block, attr, unclosed, within, native, outcome, faults>>

Opened(r) ==
    /\ Met(r, "SlabIO.open")
    /\ IF Refused(r, "SlabIO.open") THEN End(r, "raised")
       ELSE IF ModeOf(r) = "w" /\ r = 0 THEN Move(r, "replacing")
       ELSE /\ Come(r, IF ModeOf(r) = "w" THEN "replace_inode" ELSE "H5Fopen", FALSE)
            /\ UNCHANGED outcome
    /\ UNCHANGED <<disk, within, error, native, serial, faults>>

\* _replace_inode_for_write: rank zero unlinks, or raises there and then.
UnlinkFails ==
    /\ pc[0] = "replacing"
    /\ exists
    /\ MayFail("unlink", TRUE)
    /\ End(0, "raised")
    /\ UNCHANGED <<disk, within, error, native, serial>>

ReplaceInode ==
    /\ pc[0] = "replacing"
    /\ exists' = FALSE
    /\ receipt' = "none"
    /\ block' = [r \in Rank |-> Nothing]
    /\ attr' = Nothing
    /\ unclosed' = FALSE
    /\ Come(0, "replace_inode", FALSE)
    /\ UNCHANGED <<within, error, native, serial, outcome, faults>>

Replaced(r) ==
    /\ Met(r, "replace_inode")
    /\ Come(r, "H5Fopen", FALSE)
    /\ UNCHANGED <<disk, within, error, native, serial, outcome, faults>>

\* The collective open for writing creates a file that is not there.
OpenToWrite(r) ==
    /\ Met(r, "H5Fopen")
    /\ ModeOf(r) # "r"
    /\ exists' = TRUE
    /\ native' = native \cup {r}
    /\ Come(r, "H5Dcreate", FALSE)
    /\ UNCHANGED <<receipt, block, attr, unclosed, within, error, serial, outcome, faults>>

\* With nothing to read, it fails on every rank.
OpenToRead(r) ==
    /\ Met(r, "H5Fopen")
    /\ ModeOf(r) = "r"
    /\ IF exists THEN Move(r, "closing") ELSE End(r, "raised")
    /\ native' = IF exists THEN native \cup {r} ELSE native
    /\ UNCHANGED <<disk, within, error, serial, faults>>

\* The receipt's dataset has no fill: creating it says nothing of its value.
Created == IF receipt = "none" THEN "unset" ELSE receipt

CreateReceipt(r) ==
    /\ Met(r, "H5Dcreate")
    /\ receipt' = Created
    /\ Come(r, "zeros", FALSE)
    /\ UNCHANGED <<exists, block, attr, unclosed, within, error, native, serial, outcome, faults>>

\* The creation, or the program that makes the zeros, raises on this rank outside
\* the guarded block: the rank leaves the constructor with the path still held,
\* neither closed nor agreed with its peers, and as long as its process holds the
\* path no handle is opened on it again (assert_writable_open_available, hdf5_owner).
CreateFails(r) ==
    /\ Met(r, "H5Dcreate")
    /\ MayFail("create", TRUE)
    /\ receipt' \in {receipt, Created}
    /\ Move(r, "left")
    /\ UNCHANGED <<exists, block, attr, unclosed, within, error, native, serial>>

\* Every rank takes part in the write, rank zero owns the one element.
WriteZero(r) ==
    /\ Met(r, "zeros")
    /\ \E fails \in BOOLEAN :
         /\ MayFail("zeros", fails)
         /\ receipt' = IF r = 0 /\ ~fails THEN "0" ELSE receipt
         /\ error' = [error EXCEPT ![r] = fails]
         /\ Come(r, "initialize_receipt", fails)
    /\ UNCHANGED <<exists, block, attr, unclosed, within, native, serial, outcome>>

\* A refused initialization closes the handle on every rank.
Initialized(r) ==
    /\ Met(r, "initialize_receipt")
    /\ Move(r, IF Refused(r, "initialize_receipt") THEN "closing" ELSE "writing")
    /\ UNCHANGED <<disk, within, error, native, serial, faults>>

-----------------------------------------------------------------------------
(* The with block *)

BeginWrite(r) ==
    /\ pc[r] = "writing"
    /\ block' = [block EXCEPT ![r] = Torn]
    /\ Come(r, "H5Dwrite", FALSE)
    /\ UNCHANGED <<exists, receipt, attr, unclosed, within, error, native, serial, outcome, faults>>

\* The write fails on this rank, or the body raises when all is written.
EndWrite(r) ==
    /\ Met(r, "H5Dwrite")
    /\ \E fails, lands \in BOOLEAN :
         /\ fails \/ lands
         /\ MayFail("write", fails)
         /\ block' = [block EXCEPT ![r] = IF lands THEN session[r] ELSE @]
         /\ error' = [error EXCEPT ![r] = fails]
    /\ Move(r, "closing")
    /\ UNCHANGED <<exists, receipt, attr, unclosed, within, native, serial>>

-----------------------------------------------------------------------------
(* Closing: _FfiBackend.close *)

\* Mutant of Close: a rank with an error raises instead of closing.
Close_SkipOnError(r) ==
    /\ pc[r] = "closing"
    /\ IF error[r] THEN End(r, "raised")
       ELSE Come(r, "H5Fclose", FALSE) /\ UNCHANGED outcome
    /\ UNCHANGED <<disk, within, error, native, serial, faults>>

\* The queued writes are drained, and every rank goes into H5Fclose.
Close(r) ==
    /\ pc[r] = "closing"
    /\ Come(r, "H5Fclose", FALSE)
    /\ UNCHANGED <<disk, within, error, native, serial, outcome, faults>>

\* The claim is released after the teardown; then the ranks agree on what it, or
\* anything before it, raised.
CloseFile(r) ==
    /\ Met(r, "H5Fclose")
    /\ native' = native \ {r}
    /\ \E fails \in BOOLEAN :
         /\ MayFail("close", fails)
         /\ error' = [error EXCEPT ![r] = @ \/ fails]
         /\ Come(r, "data_close", error[r] \/ fails)
    /\ UNCHANGED <<disk, within, serial, outcome>>

\* H5Dclose or H5Fclose fails in close_ctx, which prints so and returns: what the
\* ranks wrote may not have reached the file, the receipt's dataset included, and
\* this rank has no error to tell.
NativeCloseFails(r) ==
    /\ Met(r, "H5Fclose")
    /\ ModeOf(r) # "r"
    /\ MayFail("H5Fclose", TRUE)
    /\ unclosed' = TRUE
    /\ \E lost \in SUBSET Rank :
         block' = [q \in Rank |-> IF q \in lost THEN Torn ELSE block[q]]
    /\ receipt' \in {receipt, "none"}
    /\ native' = native \ {r}
    /\ Come(r, "data_close", error[r])
    /\ UNCHANGED <<exists, attr, within, error, serial, outcome>>

Proceed(r) == IF ModeOf(r) = "r" THEN End(r, "ok") ELSE Move(r, "materializing")

\* Mutant of Closed: each rank raises its own error.
Closed_OwnError(r) ==
    /\ Met(r, "data_close")
    /\ IF error[r] THEN End(r, "raised") ELSE Proceed(r)
    /\ UNCHANGED <<disk, within, error, native, serial, faults>>

\* Nothing is published unless every rank is through with its data, without an
\* error that it knows of.
Closed(r) ==
    /\ Met(r, "data_close")
    /\ IF Refused(r, "data_close") THEN End(r, "raised") ELSE Proceed(r)
    /\ UNCHANGED <<disk, within, error, native, serial, faults>>

-----------------------------------------------------------------------------
(* _publish_metadata *)

Materialize(r) ==
    /\ pc[r] = "materializing"
    /\ \E fails \in BOOLEAN :
         /\ MayFail("materialize", fails)
         /\ error' = [error EXCEPT ![r] = fails]
         /\ Come(r, "materialized", fails)
    /\ UNCHANGED <<disk, within, native, serial, outcome>>

Materialized(r) ==
    /\ Met(r, "materialized")
    /\ IF Refused(r, "materialized") THEN End(r, "raised")
       ELSE IF r = 0 THEN Move(r, "reopening")
       ELSE Come(r, "metadata_commit", FALSE) /\ UNCHANGED outcome
    /\ UNCHANGED <<disk, within, error, native, serial, faults>>

\* Rank zero reopens with h5py, writes the metadata, flushes, sets the receipt
\* and closes.
Reopen ==
    /\ pc[0] = "reopening"
    /\ serial' = serial + 1
    /\ Move(0, "stamping")
    /\ UNCHANGED <<disk, within, error, native, faults>>

Stamp ==
    /\ pc[0] = "stamping"
    /\ attr' = Torn
    /\ Move(0, "flushing")
    /\ UNCHANGED <<exists, receipt, block, unclosed, within, error, native, serial, faults>>

\* Mutant of Flush: the receipt goes out first, then the metadata.
Flush_ReceiptFirst ==
    /\ pc[0] = "flushing"
    /\ receipt' = "1"
    /\ attr' \in {Torn, session[0]}
    /\ Move(0, "committing")
    /\ UNCHANGED <<exists, block, unclosed, within, error, native, serial, faults>>

Flush ==
    /\ pc[0] = "flushing"
    /\ attr' = session[0]
    /\ Move(0, "committing")
    /\ UNCHANGED <<exists, receipt, block, unclosed, within, error, native, serial, faults>>

\* set_commit_state(h5, True) is last.
Commit ==
    /\ pc[0] = "committing"
    /\ receipt' = "1"
    /\ Move(0, "releasing")
    /\ UNCHANGED <<exists, block, attr, unclosed, within, error, native, serial, faults>>

Release ==
    /\ pc[0] = "releasing"
    /\ serial' = serial - 1
    /\ Come(0, "metadata_commit", FALSE)
    /\ UNCHANGED <<disk, within, error, native, outcome, faults>>

Publishing == {"stamping", "flushing", "committing", "releasing"}

\* Any of this may fail; the with statement closes the handle all the same.
PublishFails ==
    /\ pc[0] \in Publishing
    /\ MayFail("publish", TRUE)
    /\ serial' = serial - 1
    /\ error' = [error EXCEPT ![0] = TRUE]
    /\ Come(0, "metadata_commit", TRUE)
    /\ UNCHANGED <<disk, within, native, outcome>>

Committed(r) ==
    /\ Met(r, "metadata_commit")
    /\ End(r, IF Refused(r, "metadata_commit") THEN "raised" ELSE "ok")
    /\ UNCHANGED <<disk, within, error, native, serial, faults>>

-----------------------------------------------------------------------------

Crash ==
    /\ Kill
    /\ native' = {}
    /\ serial' = 0
    /\ UNCHANGED <<disk, modes>>

RootStep == Preflight \/ CheckReceipt \/ UnlinkFails \/ ReplaceInode \/ Reopen
            \/ Stamp \/ Flush \/ Commit \/ Release \/ PublishFails
RankStep(r) ==
    \/ Start(r) \/ Opened(r) \/ Replaced(r) \/ OpenToWrite(r) \/ OpenToRead(r)
    \/ CreateReceipt(r) \/ CreateFails(r) \/ WriteZero(r) \/ Initialized(r)
    \/ BeginWrite(r) \/ EndWrite(r)
    \/ Close(r) \/ CloseFile(r) \/ NativeCloseFails(r) \/ Closed(r)
    \/ Materialize(r) \/ Materialized(r) \/ Committed(r)

Next == RootStep \/ (\E r \in Rank : RankStep(r)) \/ Crash

Spec == Init /\ [][Next]_vars

\* A process that lives goes on: HDF5 returns from a call all ranks are in.
FairSpec == Spec /\ WF_vars(RootStep) /\ \A r \in Rank : WF_vars(RankStep(r))
-----------------------------------------------------------------------------
(* Correctness *)

Whole == /\ \A r \in Rank : block[r] = attr
         /\ attr # Torn

\* What a reader accepts is the whole of one session: a file with the receipt
\* set, not yet written, or absent (legacy) never holds data of two sessions,
\* or data without its metadata, wherever the job fails or is killed, unless a
\* native close of this very file has failed.
CommittedIsWhole == exists /\ receipt # "0" /\ ~unclosed => Whole

\* "No process may materialize metadata or publish anything until every process
\* has completed data teardown successfully": what the receipt vouches for is
\* whole.  It does not hold, since a failing native close is not an error of the
\* teardown (README, "Divergences").
PublishedIsWhole == exists /\ receipt = "1" => Whole

\* close returns on a rank only if the metadata and the receipt are on disk and,
\* unless a native close has failed, every rank's data (until the path is opened
\* again).
ReturnedMeansCommitted ==
    \A s \in Session : \A r \in Rank :
        /\ outcome[s][r] = "ok" /\ modes[s] # "r"
        /\ Latest(s)
        => receipt = "1" /\ attr = s /\ (Whole \/ unclosed)

\* Rank zero could not unlink the path of a mode "w" session and raised there
\* and then, before the barrier its peers go to.
UnlinkRaised(s) ==
    /\ modes[s] = "w" /\ outcome[s][0] = "raised"
    /\ came[s]["replace_inode"][0] = "no"
    /\ \A r \in Rank : came[s]["SlabIO.open"][r] # "failed"

\* Rank r raised out of the constructor of session s and still holds the path.
Left(s, r) == session[r] = s /\ pc[r] = "left"

\* "No rank skips a collective because of its own error": a rank that has ended
\* a session has been at every meeting a peer came to, unless rank zero could not
\* unlink.  A rank that left the session (CreateFails) has not ended it: the
\* other place where the rule is broken.
NobodySkips ==
    \A s \in Session : \A r \in Rank : outcome[s][r] # "none" /\ ~UnlinkRaised(s) =>
        \A m \in Meeting : (\E q \in Rank : came[s][m][q] # "no") => came[s][m][r] # "no"

\* The same without the exception.  It does not hold (README, "Divergences").
EveryRankComes ==
    \A s \in Session : \A r \in Rank : outcome[s][r] # "none" =>
        \A m \in Meeting : (\E q \in Rank : came[s][m][q] # "no") => came[s][m][r] # "no"

\* A session ends alike on every rank: with no error only if no rank raised.
EndsAlike ==
    \A s \in Session : \A r, q \in Rank :
        outcome[s][r] = "ok" => outcome[s][q] # "raised" /\ ~Left(s, q)

\* Rank zero's serial handle is never open while any rank, itself included,
\* holds the path through the parallel library: "one HDF5 library per file",
\* across processes, where hdf5_owner's registry sees only its own.  What the
\* library itself keeps of a file it failed to close nobody knows.
OneLibrary == serial > 0 => native = {}

\* Every session ends on every rank, unless a rank raised where its peers could
\* not know of it: rank zero's unlink, or the creation of the receipt.
EverySessionEnds ==
    <>(AllEnded \/ \E s \in Session : UnlinkRaised(s) \/ \E r \in Rank : Left(s, r))

\* What holds of every session together: its end is the same for all and true
\* of the file, nobody skips a meeting, one library has the file.
SlabInv == TypeOK /\ ReturnedMeansCommitted /\ EndsAlike /\ NobodySkips /\ OneLibrary
=============================================================================
