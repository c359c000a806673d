# LORRAX: a verification of its coordination, publication and restart core

LORRAX is a GW/BSE code that runs as one process per device, all processes
executing the same Python program over JAX. Most of its source is numerics on
device arrays. What is hard to test is the part that makes the processes agree
(exchanges of receipts, compiles, exits), the queues and handles that lead into
MPI-IO and HDF5, the protocols that give a file its name, and the computations
that are killed and continued from the files they left. A mistake there is a
hang after hours of computation, or an artifact that looks complete and is not.
This directory holds TLA+ specifications of that part, the TLC configurations
that check them, and TLAPS proofs of what most of them promise, for every number
of ranks, handles, files and kills.

Paths below are relative to `src/`; `ffi/...`, `common/...`, `file_io/...`,
`gw/...` and the like are under its `src/`.

## 1. Inventory

### Parts that are modelled

| Part | State it keeps | Operations | Correct means |
|---|---|---|---|
| Host control plane (`ffi/common/broadcast.py`, `common/collectives.py`) | a per-process count of exchanges; the directory of each exchange in the coordination service's key-value store | `reduce_bytes_to_all`, `agree_io_error`, `rank0_read` | every rank of an exchange gets the same verdict, it is true, nothing is deleted under a reader, nothing is left behind, every exchange ends |
| Compile agreement (`common/jax_compile_cache.py`) | request numbers, published records, the pool of helpers, what is compiled ahead | a live compile, `compile_ahead`, taking its result | a number names one program on all ranks, one text is compiled, nobody waits for a record that does not come, a refusal surfaces |
| Exit (`runtime/__init__.py`, `runtime/ordered_exit.py`, `runtime/run_session.py`) | where each rank is, its status, the report | the steps of main, the session's end, `finalize_process`, the fail-fast hook | a status of zero means a whole job; no peer is stranded; every job ends |
| Atomic publication (`common/collectives.py`) | a private staging file, the destination | `rank0_transaction`, `rank0_atomic_file_transaction`, `collective_atomic_file_transaction` | the final name never holds a torn file; each rank's verdict says what is under it |
| Writer thread (`common/async_io.py`) | a bounded queue, a count, the first error | `submit`, `drain`, `close`, the worker | order, bounded memory, a drain that sees every error, no lost wakeup |
| Collective lane (`file_io/_slab_io_ffi.py`) | the slot that owns the queued writes, reads in flight, errors per handle | create, write, read, posted read, close, `quiesce_pending_io` | HDF5 is entered by one thread at a time and in program order on every rank; errors reach every rank |
| Commit protocol (`file_io/_slab_io_ffi.py`, `file_io/commit_state.py`) | the file, its data, its metadata and its receipt; handles of two HDF5 libraries | open in `r`, `a`, `w`; write; close; publish | what a reader accepts is one whole session, whatever failed and whenever the job was killed |
| Handles (`file_io/hdf5_owner.py`, `ffi/io.py`, `ffi/cpp/phdf5/*`) | claims on a path, shared native contexts, dataset ids by address, read staging and its budget | open, share, use, close; read, grow, retire | one library has a path that is written; no handle loses its context or finds another file's dataset; failed opens hold nothing; the budget is counted once |
| Self-consistency (`gw/sc_iteration.py`, `mixing/acceleration.py`) | the mixer's window, the loop carry, the seed, the checkpoint | start, continue, evaluate, write, stop | a run split over processes is the unbroken one |
| Contour deformation (`gw/cd/sigma.py`) | accumulators, ghost knots, the checkpoint | the two chunk loops, the replay, instruments | every chunk is added once with its right ghosts |
| Propagation (`tdagw/*`) | one file per drive: rows, counters, carry | open, load, chunk, write, finish | rows as the unbroken run's |
| Multipole build (`gw/mpa/*`, `file_io/mpa_store.py`) | the sample store, the fit store and their ledgers | allocate, write, fit, commit, finalize; resume | files are handed over between ranks and libraries; ledgers certify what is on disk; committed is write-once |
| Tangential map (`gw/tangential_screening.py`, `file_io/tangential_store.py`, `file_io/tagged_arrays.py`) | bank, receipts, model, head, exports, the member of the restart bundle | prepare, build, resume, reuse, export, register | a model is used for its own operator only; a complete one is kept and stays usable |

They stand on each other. A `SlabIO` handle writes through the lane, the lane
through the writer thread; at open and close the handle runs rank-zero
transactions and agreements, which are exchanges of the host control plane, as
is the meeting of the exit. A collective file transaction runs a whole `SlabIO`
session on its staging file. The multipole build and the tangential map are made
of `SlabIO` sessions, serial edits by rank zero and barriers; the checkpoints of
the self-consistency loop and of the contour deformation are published by atomic
transactions.

Hard behaviours: N processes that interleave freely, two or three threads in
each of them, calls that fail on one rank only, a job killed between any two
steps and run again on the files it left, possibly with other settings, a store
in which nothing is atomic across two calls, collective calls that return only
when every rank is in them. No message is lost or duplicated: the coordination
service is a reliable store, and MPI is reliable. A process that dies takes its
job with it (the fail-fast hook and the launcher end the rest), so a crash is a
crash of the job; `OrderedExit` is where that is checked.

### Parts that are not modelled

`PROJECT.json` lists every part with the reason. In short:

- **Floating-point numerics**: what `gw`, `bse`, `isdf`, `psp`, `centroid`,
  `bandstructure`, `tdagw`, `solvers`, `services/*` and the native kernels
  compute. This is most of the repository, and the reason why the share of its
  lines that the models stand for is small.
- **Formats**: layouts, digests, validators of shapes, configuration, tools, the
  serial `SlabIO` transport (one process, same publication).
- **Of the parts above**: `broadcast_bytes`, heartbeats and the clock of the
  settle retry; the bootstrap of devices and the exit of a job of one rank; the
  lowering of a program and the eviction of its cache; write staging; the photon
  route of the tangential map and the receipts nobody reads; the release of the
  exports of earlier maps; dynamic heads and ordered residues of the multipole
  build (more components of the same two shapes); the one-map path
  (`sc_max_iter = 1`), the metric refresh and the numbered map files of the
  self-consistency loop; the error control of dp54; what a kill leaves *inside*
  one write of attributes; the removal of other jobs' orphaned staging files,
  which is a comparison of clocks.

## 2. Modules

| Module | Models | Extends or instantiates |
|---|---|---|
| `ControlRecords` | what the ranks hand in and get back; the reduction | |
| `Agreement` | abstract: one decision per exchange | `ControlRecords` |
| `HostControl` | the protocol over the key-value store; implements `Agreement` | `ControlRecords`, `Agreement` |
| `HostControlProofs` | TLAPS: safety and refinement of `HostControl`; `OrderedExit`: statuses, and who outlives the coordination service | `MCHostControl` |
| `CompileAgreement` | compile requests, records, helpers | |
| `OrderedExit` | how a main ends on several ranks | |
| `AsyncDispatcher` | the writer thread and its caller | |
| `CollectiveLane` | the lane of each process under programs of SlabIO operations | |
| `Meetings` | sessions, meetings, failing calls, kills | |
| `SlabCommit` | one artifact through several SlabIO sessions | `Meetings` |
| `AtomicPublish` | one destination through several file transactions | `Meetings` |
| `Hdf5Owner` | the claims of two HDF5 libraries on the paths of a process | |
| `FileContexts` | handles from open to close over claims, contexts, dataset ids | `Hdf5Owner` |
| `ReadStaging` | the read buffers of the open files and their budget | |
| `Anderson` | what the mixer carries and what it makes of a state given back | |
| `SelfConsistency` | the loop as a sequence of processes over one directory | `Anderson` |
| `CdStream` | the contour-deformation chunk loops, killed and resumed | |
| `TdRestart` | a propagation in chunks, killed and continued elsewhere | |
| `MpaStore` | the multipole build of several ranks, killed and started again | |
| `TangentialMap` | the directory of one tangential map through several processes | |
| `LaneProofs` | TLAPS: the dispatcher: what a drain sees, order, bounded memory, close; the lane: one order of HDF5 calls, honest reads and closes | `MCCollectiveLane` |
| `CompileAgreementProofs` | TLAPS: the numbers of the compile requests | `CompileAgreement` |
| `AtomicPublishProofs` | TLAPS: the destination, the verdicts, the staging files | `AtomicPublish` |
| `SlabCommitProofs` | TLAPS: what a reader accepts, and how sessions end | `SlabCommit` |
| `NativeProofs` | TLAPS: claims, contexts and dataset ids of `FileContexts`; the budget and the buffers of `ReadStaging` | `MCNative` |
| `SelfConsistencyProofs` | TLAPS: a continued run is the unbroken one | `SelfConsistency` |
| `RestartsProofs` | TLAPS: `TangentialMap`, `CdStream`, `TdRestart` and `MpaStore` | `MCRestarts` |
| `MC*` | programs, measurements and settings for TLC; `MCHostControl`, `MCCollectiveLane`, `MCNative` and `MCRestarts` check several modules side by side | |

A definition whose name is another's with a suffix (`Finish_NoNotify` beside
`Finish`) is a mutant: the code with a plausible bug. No specification uses it;
substituted for the original it makes TLC report the property that `PROJECT.json`
pairs with it, which shows that the property depends on that line of the code.

**Side by side.** `MCHostControl` checks the exchanges and the exit, which both lean
on the coordination service, `MCCollectiveLane` the lane and the dispatcher below
it, `MCNative` the two registries of native handles, `MCRestarts` four
computations. The modules in one run share no state: a behaviour picks one of
them at its start (`protocol`, `machine`, `registry`, `computation`) and the others
stand still, so the state space is the sum and not the product, and a property of one
holds trivially in the behaviours of the others and is tested in its own.

### HostControl

Each exchange has a directory in the store. `record`, `arrived`, `complete`,
`chunks`, `result`, `readArrived`, `readComplete` are the keys in it, indexed by
the exchange's name (the digest of path and stage, and the occurrence). One call
to the store is one action; `_arrive` is therefore two (`CountRecord` and
`MarkComplete`, `CountRead` and `MarkReadComplete`).

A process only counts its own calls, so nothing but the common program keeps the
names aligned. The module takes the programs as a constant: an assignment of a
list of stages to each rank. Safety is stated for all assignments, the divergent
ones included (a rank that makes another call hangs its exchange instead of
corrupting one); what needs the SPMD contract says so with `Aligned`.

The contents are abstract: a receipt is ok, an error, or a record of another
size; a verdict is success, the failing rank, or the root's own failure. Waits
have no deadline because no caller on this path sets one; the heartbeat only
prints.

### CompileAgreement

A request takes the next number of its process, publishes what it is about to
compile under it, and then looks into its cache; a hit compiles nothing, a miss
waits for the others' records (rank zero's for a peer) before XLA starts.
`compile_ahead` reserves the number on the caller's thread; helpers take tasks in
any order; a live call that finds an ahead entry claims it, waits for it or
overtakes it. `warm` is what a rank's cache holds, chosen freely per rank: that
is what lets ranks differ. `key` lets a peer lower a module its own way. JAX's
part is external: one thread compiles a lowering, others wait and find its
executable, nothing is kept of a failure.

### OrderedExit

Every rank makes `Work` collective steps and then the session's report, whose
barrier all must reach. A rank may raise or die anywhere. What leaves main well
goes through `finalize_process` (effects, the finalize barrier, the shutdown of
the coordination client, rank zero's duties); everything else ends the process at
once. Both barriers have a deadline of 1800 s: as long as somebody is missing, dead
or only late, who waits may give up (`GivesUp`), and a barrier given up on by one
fails for all who come to it. At the report that is a refusal, at the end the process
prints it and goes on to shut down. The launcher ends all ranks when one has ended with another status than
zero: that is what frees peers that wait in a collective.

### AsyncDispatcher and CollectiveLane

`AsyncDispatcher` has one action per critical section or queue operation. `drain`
is a loop around `Condition.wait`: `Check` tests the count, `Finish` (the
worker's `finally` clause) counts down and wakes. The caller calls what it likes
in any order, as the lane does from the main thread.

In `CollectiveLane` a program is a sequence of operations on handles, the same on
every rank. The main thread of a rank executes it (`ip`, `main`); the worker
takes queued writes; native readers complete posted reads. `stage[r][i]` is how
far rank r is with operation i, and a collective call leaves HDF5 only when every
rank has entered it (`MayLeave`). All reads are posted: a call returns before its
read is done, and the next entry to HDF5 of any handle waits for it. If it has failed
by itself on this rank (`spoiled`), that wait raises here and nowhere else
(`ReadRaises`): in a close it is caught and agreed on (`CatchInClose`), anywhere else
the rank leaves the `with` blocks it is in (`RaiseAlone`, `QuiesceRaises`), which
`away` records; D15 is what that means for its peers. The drain of `AsyncDispatcher` is one step
here, justified by its `DrainSeesEverything`; an agreement is to bring an error
and to hear the decision once all have brought theirs, justified by
`HostControl`. A write that fails before it enters its own collective is excluded
by the contract the code states (`common/async_io.py`, end of the class comment).

### Meetings, SlabCommit and AtomicPublish

A session of `SlabCommit` is one handle from open to close; a session of
`AtomicPublish` is one transaction. In both, ranks go through local steps and
meetings, and no rank leaves a meeting before all have come. A meeting that is an
`agree_io_error` also carries whether a rank failed, and then raises on every
rank. `MayFail` lets a call fail on one rank, within a bound. `Kill` ends the job
anywhere; the next job goes on with the next session and with the files as they
are.

`SlabCommit` keeps four facts of a file: that it exists, the receipt (absent,
created and never written, 0 or 1), which session wrote each rank's part of the
data, and which session wrote the metadata. A fifth is history: whether a native
close of this file has failed (`unclosed`), which the program never learns. A write that has not returned is
torn. A receipt that was never written reads as anything, because the dataset is
created without fill. HDF5's own metadata is taken to reach the disk in call
order: the model is about the order of LORRAX's calls, not about HDF5's crash
consistency. The body of a `with` block may raise on one rank after its last
collective call; raising before it is outside the caller's contract. Two failures
are not agreed on: the creation of the receipt's dataset or of its zeros raises outside
the guarded blocks (`CreateFails`; the rank is then `Left` in the constructor with the
path held), and a failing native close is printed (`NativeCloseFails`).

`AtomicPublish` has the rank-zero transaction with and without the all-rank
preflight, and the collective one. A writer may return without error and leave
its part out; finding that is what `validate_file` is for, so it is modelled as
refusing exactly incomplete files (or failing). The clean-up may fail to remove the
staging file, which raises over whatever the transaction was about to raise
(`CleanUpFails`); `unremoved` is the history of it.

### Hdf5Owner, FileContexts and ReadStaging

`FileContexts` follows a handle through preflight, claim, native open, use, close
and publication. Ranks make the same calls, so one copy of the tables stands for
all; what differs between ranks is the address their allocator gives a context,
and the dataset ids remembered by address (`memo`): whether a rank finds one
decides whether it enters a collective open. h5py users of the same paths come
and go. An open may raise at each of its stages; `lost` is the history of the handles
whose constructor raised at the receipt (`InitFails`).

`ReadStaging` is the C++ side: the buffer of a file grows for a read, is settled
afterwards (kept, counted against the budget by compare and exchange, or handed
to the worker to be freed), and copies to the device outlive the read.

### Anderson and SelfConsistency

The map is a pure function, so what a trajectory measures is chosen once and met
again when a continuation evaluates the same point again. Evaluations are named
by their number, a point built from anything but the right pairs is `Stray`, and
the solver's state is its ring, its best pair, the fallback flag and the norms.
Processes start trajectories or continue the checkpoint beside their seed, are
killed between any two of seed, map file and checkpoint, and stop by criterion,
stall or budget.

### CdStream, TdRestart, MpaStore, TangentialMap

`CdStream`: a sum of floating-point contributions is the list of what was added,
a stack of knots its range, so bit-identity is equality of lists. The checkpoint
carries the accumulators, the axis and the chunk; resuming the real axis replays
earlier windows for the ghosts. Instruments (`LORRAX_CD_STOP_AFTER`) are in.

`TdRestart`: a state is the number of steps it truly took; a sample is the state
it was taken from. A leg continues from a checkpoint of its own or another
directory with another chunk length or end. A checkpoint is written in place:
samples, counter, removal of the old carry and new carry are four actions a kill may
part, the carry being there once its last attribute is. The calls are taken to reach
the file in their order; what HDF5 buffers at a kill is not modelled.

`MpaStore`: a rank's program is a sequence of serial reads, serial writes of rank
zero, collective opens, transfers and closes, and barriers. It is in parts, each the
straight text of a function (`AllocateW`, `CheckW`, `WriteW`, `EnterEpoch`,
`LeaveEpoch`, `WriteHead`, ...), and `where` is the part a rank is in, what the
part's loop has left and how far the rank is; what it reads decides which part is
next (`After`). Ranks go at their own pace between meetings. `bad` is the set
of blocks no fit passes, `overwrite` the deck's key. A store is apart from the file
it is in: a file may be `there` and hold nothing, and until it is `sound` no library
opens it, because a kill may fall inside an allocation and the next start asks whether
the file exists. A sample file that is there and sound but empty is opened in mode `a`
and refused as uncommitted once its receipt's dataset is on disk, whatever `overwrite` says.

`TangentialMap`: an operator is a state identity and a bare interaction, which
the identity omits. A process keeps what authenticates for its own operator,
refuses a complete model that does not, and rebuilds the rest; receipts tear
(they are written in place), directories are removed file by file, the bundle
loses its commit mark while its member is entered. Whether the deck asks for the head
correction is the same for all processes of a directory (`headed`); whether it persists
the restart bundle is each process's own (`persist`), and without it the model is not
registered. A self-consistent map validates its export once more and then removes those
of earlier maps, which are other maps' files; it leaves either way. Decisions are rank
zero's and heard by all (`AtomicPublish` checks that), so a process is one actor.

## 3. What TLC checks

| Run | Instance | States | Shows |
|---|---|---|---|
| `hostcontrol` | 3 ranks; all common programs of 3 reductions and reads, and those in which one rank makes another second call; besides, 3 ranks with 2 collective steps, 2 of which raise or die | 430 k | exchanges of a common program end, with at most two directories and none at the end; no rank deletes under a reader; verdicts are true for any programs; the protocol implements `Agreement`; every job ends, zero means a whole job, the service outlives its users unless the last barrier gave up |
| `lane` | 2 ranks, 2 handles, 5 programs, 2 failures of writes, reads or closes, 1 call of its own per rank; besides, a dispatcher with a queue of 2 and 6 tasks | 254 k | one thread in HDF5, program order on every rank, reads see good writes, close tells all, programs end but for D15; a drain sees every error, no wakeup is lost |
| `slab` | 2 ranks, 2 sessions in all pairs of modes, over every kind of file, 3 failures of 8 kinds, 1 kill | 886 k | what a reader accepts is one whole session, D14 excepted; sessions end alike; one library at a time; who ends a session skips no meeting, D1 excepted |
| `slab_unlink` | 2 ranks, 1 session | small | a violation: D1 |
| `slab_close` | 2 ranks, 1 session | small | a violation: D14 |
| `publish` | 3 ranks, 2 transactions of any kind, 2 failures, 1 kill | 654 k | the destination is whole, the verdict is the file, only kills and failed unlinks litter, transactions end |
| `compile` | 2 ranks, 2 helpers each, 2 modules, 3 programs, any caches, with and without a deadline | 452 k | a number names one program; nothing different is built under one; nobody waits for a record that never comes; refusals surface |
| `native` | 2 handles and an h5py user on 2 paths, 2 ranks, 3 native opens at 2 addresses; 2 files with 3 buffers over a budget of 4 | 709 k | one library per written path; nothing left of failed opens, D6 excepted; the same collective opens on both ranks; the budget is what is held; a close ends |
| `continued` | 3 processes, 2 decks, 3 or 4 maps, a ring of 2, a stall window of 2 | 1.12 M | a run split by kills is the unbroken one: points, histories, stop |
| `restarts` | 3 legs of each computation (4 of the map); settings below | 1.38 M | see the properties of the four modules |
| `td_trials` | 2 drives, 2 legs | small | a violation: D2 |
| `tangential_export` | 2 processes of one operator | small | a violation: D3 |

**Why the bounds are enough.** Three ranks are the fewest with two peers that can
differ from each other while rank zero waits: one may have left an exchange, the
other be late in it. Three calls let a rank be in exchange n+1 while another is
in n, with n-1 deleted. A session of `SlabCommit` has two ranks, which leave room for the
eight kinds of failure: what rank zero does it does alone, and its peers do nothing
that depends on each other but meet. Two sessions are the fewest in which one session's
leftovers meet another's beginning, before or after a kill, and two failures let
a second one strike the handling of the first; in `slab` a third lets that happen in
a session after a swallowed close. The dispatcher's queue has the
size the lane uses; six tasks fill it, block the caller and go around. The
programs of the lane are the shortest with two handles interleaved, a full queue,
posted reads ahead of other handles' calls, a read behind another handle's
write, and a close over posted reads of both handles; two failures let the posted
reads of two ranks, or a read and a write, fail. Two helpers finish in either order, and the third request is the live call
that meets them. Three native opens at two addresses are the fewest in which a
context returns at the address of another file's; two buffers of three do not fit
a budget of four.

In `continued` four maps wrap the ring of two pairs and push the best pair out of
it. The constraint `TwoTrajectories` keeps behaviours in which at least one of
the three processes continues a checkpoint: three fresh starts are three times
one behaviour. The decks are interchangeable (they appear as labels only), which
makes the symmetry sound; the run checks no liveness.

In `restarts` the contour deformation has chunk sizes on both sides of the ghost
reach (4), so that a replay needs one window or several. The propagation has
steps longer and shorter than the sampling interval, fixed and adaptive; the ends
are multiples of every step (D4 is what happens otherwise) and there is one drive
(D2 is what happens with two). The multipole build has two ranks, two
frequencies, and three blocks in epochs of two, so that one epoch is partial. Two
identities and two interactions make an operator that differs in either. Its decks are with and without the head correction.

**Fairness.** Weak fairness of what a live process does, nothing more: it is
scheduled, the store answers, HDF5 returns from a collective call all ranks have
entered. Weak fairness suffices because each of these steps, once possible, stays
possible. Nothing is assumed of failures, kills, and callers: whether the caller
of `AsyncDispatcher` calls again, or a rank makes a rank-local quiesce, is open.
In `HostControl` it includes making the next call: that all ranks make the calls
of the program is the collective contract, and liveness is stated under it. In
`CompileAgreement` a wait that has a deadline ends (by the clock, not by luck),
and one without need not. In `OrderedExit` the launcher ends the remaining ranks
once one has ended badly, which is what `srun` and `mpirun` do. In `ReadStaging`
the compare-and-exchange loop of a handler may lose for ever; `CloseEnds` does not
depend on it. In `restarts` only the multipole build has processes that could
wait for each other, and only it has a liveness property; its fairness is that of
the ranks' work within a start, not of being started again.

**Deadlock** checking is off in every run, because each of these systems rightly
stops: when the programs are over, when divergent programs hang, when a kill was
the last event, when the legs are used up. That they do not stop early is what
the liveness properties say.

### Divergences

Places where the code does something else than a comment or a document of the
repository says. The first three and D14 have a run that expects the violation.

- **D1, `slab_unlink`.** `docs/architecture/decisions.md:771`: "No rank skips a
  collective because of its own error". `_replace_inode_for_write`
  (`file_io/_slab_io_ffi.py:553`) raises on rank zero when `os.remove` fails,
  before the barrier its peers wait in. Nothing in the protocol frees them, only
  the end of the job. `slab` checks that it is the only place where a rank *ends* a
  session so (`EveryRankComes` without its exception does not hold); D13 is where one
  leaves it without an end.
- **D2, `td_trials`.** `tdagw/stages.py:692` says a run is continued exactly, its
  rows copied. `_write_chunk` writes the files of the drives one after another;
  the continuation reads the counter of the first drive's file (`stages.py:377`)
  and copies that many rows of each. After a kill between two files a later
  drive's rows of that chunk are the zeros they were created with.
- **D3, `tangential_export`.** `file_io/tangential_store.py:3293`: a committed
  export is a finished one. An export is written in one session per q batch, and
  every session commits the file at its end; after a kill between two batches
  `_export_is_current` (3249) retains the partial file.

The others have no run of their own; the property named is in the module, and
adding it to the run shows it.

- **D4.** `tdagw/td_config.py:838-842`: a continued propagation yields "the same
  samples, bitwise", with another `tf` for fixed steps, and 802-803: the step need
  not divide the sampling interval. When the step does not divide the old end
  time, the last state lies past samples of the longer run, and the first chunk
  (`tdagw/propagate.py:1135`) drops them: `RowsAsUnbroken` with an end in `Ends`
  that is no multiple of the steps.
- **D5.** `common/jax_compile_cache.py:1074`: a refusal of an ahead compile surfaces
  "at `.result()` or at the live call". Nothing is kept of a failure once its
  entry is forgotten (1049): a live call through the jit makes a new request, under
  a number its peers do not use if their compile went well, and waits for their
  record, for ever when the wait has no deadline. `RefusalSurfaces` without
  `deadline`, over `MixedPrograms` with a peer that lowers its own way; the run
  has it for a program whose result is taken.
- **D6.** `file_io/_slab_io_ffi.py:2596`: "An open that failed holds nothing". A
  check that raises after the native open releases the claim and not the context
  (2598), and a raise at the creation of the receipt (2669, 2676) neither of them:
  `FailedOpenHoldsNothing` without `table[p].left` and `lost`.
- **D7.** `ffi/cpp/phdf5/read_ffi.cc:102`: idle read staging is bounded. A read
  that fails leaves by `fail_read` (422) before its buffer is settled, and the
  buffer stays outside the budget until the next read of that file:
  `StagingIsBounded`.
- **D8.** `runtime/ordered_exit.py:50`: a status other than zero takes no
  collective teardown. `run_main_and_finalize` passes a nonzero status that main
  returned to `finalize_process` (`runtime/__init__.py:2655`), and the meeting of
  the run session came before: `FailureMeetsNobody` with `Returns = {0, 1}`.
- **D9.** `docs/self_consistency.md:830`: "A checkpoint always sits beside the warm
  seed it was written with". A run that starts fresh in a directory with a
  checkpoint writes its own seed there (`gw/sc_iteration.py:4871`) before its
  first checkpoint: `CheckpointBesideItsSeed`.
- **D10.** `docs/reference/env_vars.md:156`: under `LORRAX_CD_STOP_AFTER` "no Sigma
  is finalized". A probe `imag:N` that is started again on a checkpoint of its
  real axis skips the imaginary one (`gw/cd/sigma.py:1147`), so nothing stops it,
  and it finalizes a Sigma of N imaginary chunks: `SigmaIsWhole`. Production is
  protected, since the identity differs (`ProductionIsWhole` is checked).
- **D11.** `docs/input_reference.md:132`: "a compatible interrupted run resumes its
  ready slabs and committed fit ranges". A start killed between a write and its
  publication leaves an uncommitted store, which the preflight of `SlabIO`
  (`file_io/_slab_io_ffi.py:2520`) refuses: `InterruptedResumes`.
- **D12.** `file_io/mpa_store.py:2753`: "A store that cannot be validated must not
  be finalizable". The completion mark is an attribute written before the
  certification metrics (2812): a kill between them leaves a complete store
  without them: `CompleteIsCertified`.
- **D13.** `docs/architecture/decisions.md:771` again, and
  `file_io/_slab_io_ffi.py:2685`, "an initialization failure must itself bring every
  rank through collective close". `create_dataset` of the receipt (2669) and the program
  that makes its zeros (2676) are before the guarded block: a rank on which one of them
  raises leaves without close or agreement, and its peers wait for it in the next
  collective call. `CreateFails` is that step; `EverySessionEnds` allows a session to
  stay open only when the unlink raised or a rank has left so.
- **D14, `slab_close`.** `file_io/_slab_io_ffi.py:3666`: nothing is published "until
  every process has completed data teardown successfully". `close_ctx`
  (`ffi/cpp/phdf5/context.cc:1281`) prints a failing `H5Dclose` or `H5Fclose` ("data may
  not have reached the file") and returns, `lrx_phdf5_close` is void (`api.cc:74`) and
  `phdf5_close` raises nothing (`ffi/common/ffi_loader.py:915`): the session goes on to
  receipt 1. `CommittedIsWhole` speaks of files none of whose native closes has failed
  (`unclosed`); without that, TLC and this run refute it.
- **D15.** `docs/architecture/decisions.md:771` a third time. The wait for posted reads
  (`file_io/_slab_io_ffi.py:2372`) raises on the rank whose read failed, at the next
  HDF5 entry of any handle, before the collective call of that entry, and its peers wait
  there. If the reads have ended by then the failure is dropped instead (`is_ready`,
  2370), and what is left of it is the array the caller holds. Row reads in file order
  (`_read_file_rows`) wait for all pieces but the last, so there it raises sooner.
  `EveryProgramEnds` without `away`.
- **D16.** `tdagw/tdgw_io.py:366`: "a run restarted from this file continues the
  uninterrupted one bitwise". A kill between the counter and the carry leaves a counter
  ahead of the carry, from which a continuation computes some steps again and keeps all
  rows; a kill between the removal of the old carry and the last attribute of the new one
  leaves a file no leg can continue (`Source`), although all its earlier rows are whole.
  `TdInv` holds through both: no row is wrong.

## 4. What is proved

Each theorem is about the specification of a module, for every value of its
constants that satisfies the module's assumptions: any number of ranks, sessions,
handles, files, kills and faults. A property named in the last column is one that
a run checks on a small instance.

| Module | Theorem | Property |
|---|---|---|
| `HostControlProofs` | `TypeCorrect` | `TypeOK` |
| | `VerdictsAreShared` | `VerdictIsShared` (proof only) |
| | `VerdictsAreTrue` | `VerdictIsTrue` |
| | `ReadsAreRootsOwn` | `ReadIsRootsOwn` (proof only) |
| | `CompleteMeansFull` | `CompleteMeansAllRecords` (proof only) |
| | `ReadersFindBodies` | `ReaderFindsBody` (proof only) |
| | `NothingIsRetained` | `NothingRetained` |
| | `StoreIsBounded` | `AtMostTwoDirectories` |
| | `DeletesAfterLastRead` | `DeleteAfterLastRead`, an action property |
| | `Refines` | `ImplementsAgreement`, a refinement |
| | `ZeroIsWhole` | `ExitInv` |
| | `ServiceOutlivesUsers` | `NoPeerStranded` |
| `LaneProofs` | `QueueKeepsItsPromises` | `QueueInv` |
| | `DrainsSeeEverything` | `DrainSeesEverything`, an action property |
| | `OneOrder` | `EntersInProgramOrder` |
| | `HandlesTellTheTruth` | `LaneInv` |
| `CompileAgreementProofs` | `NumbersFollowTheProgram` | `NumbersInv` |
| `AtomicPublishProofs` | `NoTornArtifact` | `DestinationIsWhole` |
| | `VerdictsAreTrue` | `PublishInv` |
| `SlabCommitProofs` | `WhatIsAcceptedIsWhole` | `CommittedIsWhole` |
| | `SlabKeepsItsPromises` | `SlabInv` |
| `NativeProofs` | `HandlesKeepTheirFile` | `HandlesInv` |
| | `FailuresHoldNothing` | `FailedOpenHoldsNothing` |
| | `CollectivesMeet` | `CollectivesTogether` |
| | `StagingIsCounted` | `StagingInv` |
| `SelfConsistencyProofs` | `ContinuedIsUnbroken` | `StaysOnTrajectory` |
| | `TrajectoriesAreKept` | `TrajectoryInv` |
| `RestartsProofs` | `MapKeepsItsPromises` | `MapInv` |
| | `NoCompleteModelIsTouched` | `CompleteIsKept`, an action property |
| | `EveryChunkIsAddedOnce` | `AddsLikeUnbroken` |
| | `StreamKeepsItsPromises` | `CdInv` |
| | `PropagationIsUnbroken` | `TdInv` |
| | `StoresAreHandedOver` | `MpaInv` |
| | `LedgersAreWrittenOnce` | `CommittedIsWriteOnce`, an action property |

**Assumptions.** They are the named assumptions of the modules, and TLC evaluates
each on the constants of a run. Most only give a constant its type. The others:
at least two ranks in `ControlRecords` (one process takes another branch of the
code); a program of `CollectiveLane` uses no handle after its close, which is what
a `with` block sees to (`LaneAssumption`); `None` is not a program that is compiled
(`NoneAssumption` of `CompileAgreement`); the ghost reach of `CdStream` and its
chunks are not zero, and a probe stops after a whole number of chunks; the mixer of
`SelfConsistency` keeps at least one pair, `None` is not a number, some budget is
the largest, and norms and spectral distances are integers (they are only compared);
the open files of `ReadStaging` are finitely many. `StagingIsCounted` and the theorems about
the exit, the dispatcher, the map, the stream and the propagation are stated of the specification of their
module inside the `MC` module that runs it beside another.

**The method.** None of these properties is inductive. Every proof module states an
inductive invariant (`IInv`, `MapIInv`, `CdIInv`, `StInv`), proves that the initial
states satisfy it and that each action preserves it (one step or one lemma per
action, one step under it per conjunct), and derives the properties from it. TLC
checked each invariant on the module's run before it was proved. What the
conjuncts say, and why they are needed:

*HostControl.* The verdict of an exchange is right because the envelope was,
which was made from a complete directory, which was complete because the counter
reached N, and so on.

- `CallsOK`, `LabelsOK`: where a rank is agrees with its counters and histories.
  From this, a rank's occurrence counter is the number of calls it has made, and
  the pair (stage, occurrence) identifies one exchange for good.
- `RecordsStored`, `RecordsCounted`, `CompleteIsFull`: in a reduction rank zero
  has not left, the records are the receipts of the ranks that have come, the
  counter is the number of ranks past their increment, and complete or about to
  be marked complete means that this is all of them. The step that needs thought
  is the N-th increment: a subset of the ranks with N elements is all of them.
- `ResultsOK`, `EnvelopesOK`, `HeardOK`: wherever a verdict is (in the store, in
  a rank's hands, returned), it is *the* decision of the exchange, a function of
  what was offered, which no step changes once it can be decided.
- `ReadersCounted`, `ReadersGone`: the same for the readers, so that a set read
  marker means every peer has returned.
- `Directories`, `ResultsStay`: a directory is empty before the first rank enters
  and after rank zero has left, and a result stays while somebody needs it. With
  a common program the directories that exist are then those of the calls between
  the slowest rank and the fastest, which are two at most (`StoreIsBounded`).

The refinement maps `decided` to the result in the store, or to what rank zero
returned once it has deleted it; entering maps to `Offer`, publishing to `Decide`,
returning to `Hear`, everything else to a stutter.

*AsyncDispatcher.* `CountOK` ties the count of pending tasks to the task the worker
holds and to those that have run, in every state of its loop; `QueueOK` says which
tasks lie in the queue, or that the pill does; `CallerOK` where the caller can be
around a close; `ErrorOK` that the recorded error is the first failure, but for
the one the worker is about to record. A drain returns at a count of zero, and then
all of these speak about all submitted tasks.

*CollectiveLane.* `LaneOK` is eleven facts about one rank. Five are about order:
where the main thread is (`PlaceAt`), what has begun (`StageAt`), what the queue
holds (`QueueAt`), that an owner is set while a write is queued or under way and
none when another operation comes to HDF5 (`OwnerAt`), and that an operation is
queued or enters only behind what has left (`OrderAt`). `OneOrder` is the last of
them; the owner is what makes it inductive across handles. Six are about honesty:
a handle has an error exactly if it has a failure (`ErrorAt`), what a rank brings
to an agreement tells of all failures before it (`BroughtAt`), an unmarked handle
has brought an error since its last write, and what was skipped is behind an error
(`DirtyAt`, `SteadyAt`), a read begins only where every write before it was agreed
on by every rank (`ReadsAt`), and a report is what all ranks brought (`ReportAt`).

*CompileAgreement.* A number names one program because it is a function of the
program alone: it is the count of the ahead calls and of the first live calls before
it (`Count`). `Slots` says that every pending submission has one owner, the queue or
a helper, so that a failed one is not forgotten; `Once` that a number is claimed once
and published under once, which makes records write-once and what is built alike on
all ranks, whatever has failed. The others hold as long as nothing was refused: the
counter is the count (`Counted`), a rank knows only modules its program has lowered
(`Known`), and a lowered module is compiled, or being compiled, or has an entry nobody
has claimed (`Covered`). So a live call takes a fresh number just where the program
first lowers its module, however the helpers run, and every number in use is the one
of its call (`Named`).

*OrderedExit.* `PlacesOK` (place, status and progress agree), `RaisedEarly` (a rank
that failed in main never came to the barrier of the report, or gave up there),
`BarrierHolds` (who is past that barrier left it with all ranks there),
`ReportOK`, and `FinalizedTogether` (who is past the finalize barrier found all
there or gone, or that barrier has failed).

*AtomicPublish* and *SlabCommit* share the shape of their argument. `Protocol`
speaks of labels and meetings alone: nothing has happened in a session a rank has
not begun, a rank ahead of another has ended the sessions in between, a rank has
come to the meetings its label lies behind and to no later one, it is past a gate
only if all came to it well, and an outcome is that of a meeting all came to
(`SessionsOK`, `Ahead`, `LabelsOK`, `MeetingsOK`, `GatesOK`, `OutcomesOK`). A kill
in the middle of a session keeps it, which is why it says nothing of a session
nobody is in any more but what its meetings say. Over it lie the facts about the
files. In `AtomicPublish`: what rank zero knows of a failure (`ErrorOK`), that the
destination follows the verdict rank zero brings and that what it renames is whole
(`DestinationOK`), and when the staging file is there (`StagingOK`). In
`SlabCommit`: that readers find the file alike on all ranks (`OpensAlike`), what an
absent file holds (`FileOK`), which parts of the data are of which session by how
far each rank has come (`PartsOK`), that the receipt is 0 from its initialization
to the commit, and the whole file of one session when it is 1, unless a native close
of the file has failed (`ReceiptOK`), and who holds the path (`HandlesOK`).

*FileContexts.* `HandlesOK` (one handle at a time is on its way in or out),
`ClaimsOK` (the claims are those of the users there are, and no two clash),
`EntriesOK` (an entry counts the open handles of its path and the context a failed
open left), `ContextsOK` (a handle's context is its path's, a writer has it to
itself), `MemoOK` (open contexts are at different addresses, and what is remembered
at an address is of the context there, on all ranks or on none). The last is why a
dataset id of another file is never found after an address is used again.

*ReadStaging.* What the files hold is a set of units, so that its size can be
counted: `Shares` splits off the units of one file. `CountOK` says that the counter
is that size; `SizesOK` that an idle buffer above `Keep` has its share, a buffer
whose share is still to be taken has none, and which handlers have a buffer at all.

*SelfConsistency.* `After` says what a process holds once it has measured map n of a
trajectory: i steps back in the ring of the mixer lies evaluation n - i, and the
residual history, the fallback flag and the floor history are functions of what the
trajectory measured. `SolverOK` says it of the process at work, with the best pair
the first of the smallest norm (`IsBest`); `CheckpointOK` of the checkpoint, where the
best pair is left out exactly if the ring has it, so that the process that loads it
finds it again. `ProcessOK` says which trajectory a process may be on, `EndsOK` that
a trajectory went on only where it does not stop, and that a converged one has
neither a checkpoint nor a process, so that no measurement is appended past its end.
What the ring becomes is arithmetic modulo its depth (`Ring`); that a largest norm
exists is an induction by the least counterexample (`HasLargest`), which is the form
of induction these provers can do.

*TangentialMap.* `BundleIsOurs`, `BuildingOK` (a process builds only where there is
no complete model, and what it has made so far is of its operator) and `UsingOK`
(what it uses is of its operator, and is the complete one of the directory unless
it is on the devices of a map that writes nothing), with the four parts of `MapInv`.

*CdStream.* `ProgressOK` says, place by place, which chunks the accumulators have
(the first i imaginary ones and a stretch of the real ones) and what the ghost
stacks hold, `FileOK` the same of the checkpoint. The lemma that carries the proof
is arithmetic: the windows replayed from `ReplayStart` cover the ghost reach below
the next chunk, whatever the chunk size (`ReplayCovers`).

*TdRestart.* `PropagationIsUnbroken` has two hypotheses: one drive, and fixed steps
that divide the end times. Without the first it fails by D2, without the second by
D4; the run `restarts` has both. `Behind` relates the sample counter, the step
counter and the state of a run: no sample still to be taken lies behind the state
(on fixed steps the counter is at least the number of samples before the step, on
adaptive ones the state has not passed the next sample). A checkpoint is written in
place, the counter before the carry, so what a file holds after a kill need not be
of one moment; it is enough that the carry is never ahead of its counter, because
the steps between the two are then propagated again and the next sample is still
ahead. `TdCarryOK` says it of the carry in a file, `TdJobOK` of the running leg and
of the carry it overwrites; a leg that continues a longer run is past its own end
instead and takes nothing more. That a moment of one run is a moment of a longer one
(`BehindGoesOn`) is where the step must divide the old end time. That the samples
before a step are the first ones (`SamplesAre`) is the monotonicity of rounded
division (`StepsGrow`).

*MpaStore.* Any number of ranks walk one program, each at its own pace. Three facts
make that tractable. The ranks are side by side (`TogetherOK`): each is at rank 0's
place or up to two lone steps from it, on either side, because the program text has
a joint step after any two lone ones (`TwoAlone`) and the text after a lone step is
the same whether it is read before or after the other wrote (`WritesGoOn`,
`SideBySide`). What a rank holds of a file is a property of its place (`HandlesOK`,
`Held`), but for the handle of a serial open, which lasts as long as the step; that
no reader is beside a writer is then a property of places that are near each other
(`OwnersAreApart`). And what is known of the stores is known of rank 0's place
(`SampleFacts`, `FitFacts`): the slab being written is not yet ready and its chi is,
the blocks of an epoch are transferred before the commit and not in the ledger until
then, the receipt is there before the head, the head's payload before its ready bit.
One lemma per part carries these facts along the text (`StartGoesOn` to
`FinalizeGoesOn`). `DiskOK` is what remains when a kill takes all that away: it
holds of the stores after any part of any write (`SampleStays`, `FitStays`), which
includes a commit cut between its four datasets (`Chain`); that is why the invariant
says the four are one inside the other, and only a store where they agree is
continued. `LedgersAreWrittenOnce` is then a walk over the writes (`LandsOnce`):
each leaves alone what `SampleFacts` and `FitFacts` say it does not name.

**Only model-checked.** Every safety property and every action property of a passing
run is a theorem, `PropagationIsUnbroken` under its two hypotheses. What only TLC
checks is liveness, since the prover does not treat fairness: `CallsReturn`,
`JobEnds`, `LaneEnds`, `EveryCallReturns`, `EverySessionEnds`,
`EveryTransactionEnds`, `EveryProgramRuns`, `RefusalSurfaces` and `CloseEnds`.

## 5. What is left

Modelling left, in this order: an abstract `Artifact` (a reader of a name sees the
old artifact, a refusal, or the new one) for `SlabCommit` and `AtomicPublish` to
refine; the photon route of the tangential map; `broadcast_bytes`; the bootstrap
of the coordination service; write staging; and the pure algorithms
`local_share`, `gather_k_blocks` and `_disjoint_waves` against reference
definitions.

`PROJECT.json` lists the hazards, each with the line where it bites and the
properties that would catch it. Those without a property say why: they happen
(see Divergences), or they are below what the models tell apart.
