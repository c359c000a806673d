------------------------------ MODULE CdStream ------------------------------
(***************************************************************************)
(* gw/cd/sigma.py: the contour-deformation chunk loops as a sequence of    *)
(* processes.  stream_cd_chunks adds every imaginary chunk and then every  *)
(* chunk of real knots to the accumulators, once and in order; a real      *)
(* chunk reads GH ghost knots on either side, which roll from chunk to     *)
(* chunk.  After each chunk the accumulators are published (CdCheckpoint); *)
(* a process may be killed anywhere and the next one resume, rebuilding    *)
(* the ghosts from as few window calls as cover them.                      *)
(*                                                                         *)
(* A stack of consecutive knots is its half-open range; knots glued out of *)
(* order are Torn.  The sum of floating-point contributions is the list of *)
(* what was added.                                                         *)
(***************************************************************************)
EXTENDS Integers, Sequences

CONSTANTS
    GH,          \* ghost knots on each side
    Chunks,      \* sizes a real chunk may have
    NI, NR,      \* imaginary chunks, real chunks
    Stops,       \* values of LORRAX_CD_STOP_AFTER: imag, real, real_from
    None, Torn,
    Legs         \* bound: processes

ASSUME GhostAssumption == GH \in Nat \ {0}
ASSUME ChunksAssumption == Chunks \subseteq Nat \ {0}
ASSUME CountsAssumption == NI \in Nat \ {0} /\ NR \in Nat \ {0}
ASSUME LegsAssumption == Legs \in Nat \ {0}
ASSUME StopsAssumption ==
    LET Limit == Nat \cup {None} IN Stops \subseteq [imag : Limit, real : Limit, from : Limit]
ASSUME NoneAssumption == {None, Torn} \cap (Int \X Int) = {}

VARIABLES
    chunk,       \* the size of a real chunk of this deck
    place,       \* where the process is
    leg,         \* processes started
    job,         \* its mode and its stop_after
    at,          \* the chunk it is at
    starts,      \* start_i and start_r
    run,         \* info: imag_run, real_run, imag_truncated
    ghosts,      \* tail, and rebuilt while it replays
    acc,         \* the accumulators: what was added on each axis
    file,        \* tmp/cd_checkpoint.h5
    sigmas       \* the accumulators Sigma was assembled from, and by whom

vars == <<chunk, place, leg, job, at, starts, run, ghosts, acc, file, sigmas>>

NoJob == [mode |-> "off", imag |-> None, real |-> None, from |-> None]
NotRun == [imag |-> 0, real |-> 0, truncated |-> FALSE]
NoGhosts == [tail |-> None, rebuilt |-> None]
Empty == [imag |-> <<>>, real |-> <<>>]

\* What of stop_after the identity of a checkpoint records.
Identity == [imag |-> job.imag, from |-> job.from]

-----------------------------------------------------------------------------
\* Ranges of knots.

\* cd_windows: chunk 0 with its ghosts on both sides, a later one its new knots.
Window(c) == <<IF c = 0 THEN 0 - GH ELSE c * chunk + GH, (c + 1) * chunk + GH>>

Join(a, b) == IF a # Torn /\ a[2] = b[1] THEN <<a[1], b[2]>> ELSE Torn
\* The last 2 GH knots of a stack.
TailOf(s) == IF s # Torn /\ s[2] - s[1] >= 2 * GH THEN <<s[2] - 2 * GH, s[2]>> ELSE Torn

\* What the chunk's own knots and their ghosts are.
Extended(c) == <<c * chunk - GH, (c + 1) * chunk + GH>>

\* Mutant of ReplayStart: rounds the number of chunks down.
ReplayStart_Floor(start) ==
    IF start <= 0 THEN 0
    ELSE LET r == start - (2 * GH) \div chunk IN IF r > 0 THEN r ELSE 0

\* real_replay_start
ReplayStart(start) ==
    IF start <= 0 THEN 0
    ELSE LET r == start - (2 * GH + chunk - 1) \div chunk IN IF r > 0 THEN r ELSE 0

-----------------------------------------------------------------------------
Init ==
    /\ chunk \in Chunks
    /\ place = "idle" /\ leg = 0 /\ job = NoJob
    /\ at = 0 /\ starts = <<0, 0>> /\ run = NotRun /\ ghosts = NoGhosts /\ acc = Empty
    /\ file = None
    /\ sigmas = {}

\* A process that is gone leaves its files.
Gone ==
    /\ place' = "idle" /\ job' = NoJob
    /\ at' = 0 /\ starts' = <<0, 0>> /\ run' = NotRun /\ ghosts' = NoGhosts /\ acc' = Empty

Resumes(mode, s) ==
    mode = "resume" /\ file # None /\ file.identity = [imag |-> s.imag, from |-> s.from]

\* CdCheckpoint.read and the head of stream_cd_chunks.
Launch(mode, s) ==
    /\ place = "idle" /\ leg < Legs
    /\ leg' = leg + 1
    /\ job' = [mode |-> mode, imag |-> s.imag, real |-> s.real, from |-> s.from]
    /\ LET first == IF s.from # None THEN s.from % NR ELSE 0
           Later(a, b) == IF a > b THEN a ELSE b IN
       IF ~Resumes(mode, s) THEN acc' = Empty /\ starts' = <<0, first>>
       ELSE /\ acc' = file.acc
            /\ starts' = IF file.axis = "imag" THEN <<file.chunk + 1, first>>
                         ELSE <<NI, Later(first, file.chunk + 1)>>
    /\ at' = starts'[1]
    /\ place' = "imag" /\ run' = NotRun /\ ghosts' = NoGhosts
    /\ UNCHANGED <<chunk, file, sigmas>>

Limited(limit, count) == limit # None /\ count >= limit

ImagStep ==
    /\ place = "imag" /\ at < NI /\ ~Limited(job.imag, run.imag)
    /\ acc' = [acc EXCEPT !.imag = Append(@, at)]
    /\ run' = [run EXCEPT !.imag = @ + 1]
    /\ place' = "imagSaved"
    /\ UNCHANGED <<chunk, leg, job, at, starts, ghosts, file, sigmas>>

\* The imaginary axis is done, or left with chunks to go.
LeaveImag ==
    /\ place = "imag" /\ (at = NI \/ Limited(job.imag, run.imag))
    /\ run' = [run EXCEPT !.truncated = at < NI]
    /\ at' = ReplayStart(starts[2])
    /\ place' = "real"
    /\ UNCHANGED <<chunk, leg, job, starts, ghosts, acc, file, sigmas>>

\* A window call of a chunk that is already in the accumulators.
Replay ==
    /\ place = "real" /\ at < NR /\ at < starts[2]
    /\ LET new == IF ghosts.rebuilt = None THEN Window(at) ELSE Join(ghosts.rebuilt, Window(at))
       IN  ghosts' = IF at = starts[2] - 1 THEN [tail |-> TailOf(new), rebuilt |-> None]
                     ELSE [ghosts EXCEPT !.rebuilt = new]
    /\ at' = at + 1
    /\ UNCHANGED <<chunk, place, leg, job, starts, run, acc, file, sigmas>>

RealStep ==
    /\ place = "real" /\ at < NR /\ at >= starts[2] /\ ~Limited(job.real, run.real)
    /\ LET box == IF ghosts.tail = None THEN Window(at) ELSE Join(ghosts.tail, Window(at))
       IN  /\ ghosts' = [ghosts EXCEPT !.tail = TailOf(box)]
           /\ acc' = [acc EXCEPT !.real = Append(@, [chunk |-> at, knots |-> box])]
    /\ run' = [run EXCEPT !.real = @ + 1]
    /\ place' = "realSaved"
    /\ UNCHANGED <<chunk, leg, job, at, starts, file, sigmas>>

\* Mutant of OnChunk: the file names the chunk to come.
OnChunk_Next ==
    /\ place \in {"imagSaved", "realSaved"}
    /\ LET axis == IF place = "imagSaved" THEN "imag" ELSE "real" IN
       /\ file' = IF job.mode = "off" THEN file
                  ELSE [axis |-> axis, chunk |-> at + 1, acc |-> acc, identity |-> Identity]
       /\ place' = axis
    /\ at' = at + 1
    /\ UNCHANGED <<chunk, leg, job, starts, run, ghosts, acc, sigmas>>

\* on_chunk: CdCheckpoint.write, published by one rename.
OnChunk ==
    /\ place \in {"imagSaved", "realSaved"}
    /\ LET axis == IF place = "imagSaved" THEN "imag" ELSE "real" IN
       /\ file' = IF job.mode = "off" THEN file
                  ELSE [axis |-> axis, chunk |-> at, acc |-> acc, identity |-> Identity]
       /\ place' = axis
    /\ at' = at + 1
    /\ UNCHANGED <<chunk, leg, job, starts, run, ghosts, acc, sigmas>>

Instrumented == run.truncated \/ job.from # None

\* The instrument's limit: CdStopAfter.
StopAfter ==
    /\ place = "real" /\ at < NR /\ at >= starts[2] /\ Limited(job.real, run.real)
    /\ Gone
    /\ UNCHANGED <<chunk, leg, file, sigmas>>

\* Both loops are done: Sigma is assembled, or the instrument run refuses.
Finish ==
    /\ place = "real" /\ at >= NR
    /\ sigmas' = IF Instrumented THEN sigmas ELSE sigmas \cup {[acc |-> acc, identity |-> Identity]}
    /\ Gone
    /\ UNCHANGED <<chunk, leg, file>>

Kill ==
    /\ place # "idle"
    /\ Gone
    /\ UNCHANGED <<chunk, leg, file, sigmas>>

Next ==
    \/ \E mode \in {"off", "write", "resume"}, s \in Stops : Launch(mode, s)
    \/ ImagStep \/ LeaveImag \/ Replay \/ RealStep \/ OnChunk \/ StopAfter \/ Finish \/ Kill

Spec == Init /\ [][Next]_vars

-----------------------------------------------------------------------------
UpTo(n) == [i \in 1 .. n |-> i - 1]
First(from) == IF from # None THEN from % NR ELSE 0

TypeOK ==
    /\ chunk \in Chunks
    /\ place \in {"idle", "imag", "imagSaved", "real", "realSaved"}
    /\ leg \in 0 .. Legs
    /\ at \in 0 .. NI + NR /\ starts \in (0 .. NI) \X (0 .. NR)
    /\ run.imag \in 0 .. NI /\ run.real \in 0 .. NR
    /\ Len(acc.imag) <= NI /\ Len(acc.real) <= NR
    /\ file # None => file.axis \in {"imag", "real"} /\ file.chunk \in 0 .. NI + NR

\* What an unbroken run has added when it has done i imaginary and r real chunks.
Unbroken(i, r, from) ==
    [imag |-> UpTo(i),
     real |-> [k \in 1 .. r |-> [chunk |-> First(from) + k - 1,
                                knots |-> Extended(First(from) + k - 1)]]]

\* Whatever was killed and resumed before it, a process has added every chunk
\* once, in order, and every real chunk with exactly its own knots and the GH on
\* either side, ghosts rebuilt by a replay included ("bit-identical to the
\* uninterrupted one", real_replay_start).
AddsLikeUnbroken ==
    place # "idle" => acc = Unbroken(Len(acc.imag), Len(acc.real), job.from)

\* The checkpoint's chunk is the last one in its accumulators: the next process
\* neither adds a chunk twice nor skips one.
CheckpointIsItsChunk ==
    file # None =>
        /\ file.acc = Unbroken(Len(file.acc.imag), Len(file.acc.real), file.identity.from)
        /\ IF file.axis = "imag"
           THEN file.chunk = Len(file.acc.imag) - 1 /\ file.acc.real = <<>>
           ELSE file.chunk = First(file.identity.from) + Len(file.acc.real) - 1

\* A replay goes back no further than it has to: with one call fewer the ghosts
\* of its first chunk would not be covered (real_replay_start).
ReplaysNoMore ==
    place = "real" /\ at < starts[2] /\ ghosts.rebuilt = None =>
        Window(at)[2] > starts[2] * chunk - GH

\* A production run, one without an instrument in its identity, assembles Sigma
\* from all the chunks of both axes.
ProductionIsWhole ==
    \A s \in sigmas : s.identity = [imag |-> None, from |-> None] =>
        s.acc = Unbroken(NI, NR, None)

\* docs/reference/env_vars.md on LORRAX_CD_STOP_AFTER: a run it limits "raises
\* CdStopAfter on every rank; no Sigma is finalized", so whatever is assembled
\* is whole.  It does not hold (README,
\* "Divergences").
SigmaIsWhole == \A s \in sigmas : s.acc = Unbroken(NI, NR, None)

\* The checkpoint, the replay and the result together: nothing is added twice,
\* replayed without need, or missing from a production run's Sigma.
CdInv == TypeOK /\ CheckpointIsItsChunk /\ ReplaysNoMore /\ ProductionIsWhole
=============================================================================
