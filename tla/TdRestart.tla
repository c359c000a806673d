------------------------------ MODULE TdRestart ------------------------------
(***************************************************************************)
(* tdagw: a propagation sampled on a measurement grid, written chunk by    *)
(* chunk into one tdgw.h5 per trial, killed anywhere and continued by      *)
(* another leg from the checkpoint of an earlier one (propagate.py,        *)
(* stages.py, tdgw_io.py, solvers/time_integrators.py).                    *)
(*                                                                         *)
(* A state is the number of steps it truly took from the equilibrium       *)
(* state; a sample is the state it was taken from.  Times are integers     *)
(* in units that divide the step and the measurement interval.  The step   *)
(* of dp54 is adaptive; here its accepted steps are equally long but the   *)
(* last, which ends at tf.                                                 *)
(***************************************************************************)
EXTENDS Integers, FiniteSets

CONSTANTS
    Decks,    \* [method, dt, dm]: the settings of the restart fingerprint
    Ends,     \* numbers of samples (the deck's tf)
    Chunks,   \* samples per chunk
    Trials,   \* 0 .. drives - 1
    Dirs,     \* output directories
    Legs,     \* processes
    None, Lost

VARIABLES
    file,    \* file[d]: [deck, n, rows, next, carry] of a directory's tdgw.h5 files
    job,     \* the running leg, or None
    legs     \* legs started

vars == <<file, job, legs>>

-----------------------------------------------------------------------------

Larger(a, b) == IF a > b THEN a ELSE b
Ceil(a, b) == (a + b - 1) \div b

\* The step a sample of the fixed grid lies in, and the steps of a run.
StepOf(k, i) == (i * k.dm) \div k.dt
StepsOf(k, n) == Ceil(n * k.dm, k.dt)

\* The first accepted dp54 step whose end has reached a sample.
ReachedBy(k, i) == Ceil(i * k.dm, k.dt)

\* What the unbroken run samples.
Unbroken(k, i) == IF k.method = "fixed" THEN StepOf(k, i) ELSE ReachedBy(k, i)

SamplesBefore(k, n, s) == Cardinality({i \in 0..(n - 1) : StepOf(k, i) < s})

\* What the fingerprint says of a deck: dp54 clips its last step at tf.
Fingerprint(k, n) == <<k, IF k.method = "dp54" THEN n ELSE None>>

-----------------------------------------------------------------------------

Empty(n) == [i \in 0..(n - 1) |-> Lost]

Init ==
    /\ file = [d \in Dirs |-> None]
    /\ job = None
    /\ legs = 0

\* A new leg truncates its own files and then looks at the checkpoint it continues.
Open(k, n, chunk, out, from) ==
    /\ job = None /\ legs < Legs
    /\ from # out
    /\ from # None => file[from] # None
    /\ legs' = legs + 1
    /\ file' = [file EXCEPT ![out] =
         [deck |-> k, n |-> n, rows |-> [t \in Trials |-> Empty(n)],
          next |-> [t \in Trials |-> -1], carry |-> None]]
    /\ job' = [at |-> "load", k |-> k, n |-> n, chunk |-> chunk, out |-> out, from |-> from,
               i |-> 0, s |-> 0, state |-> 0, todo |-> {}, lo |-> 0, samples |-> Empty(0)]

FromStart ==
    /\ job # None /\ job.at = "load" /\ job.from = None
    /\ job' = [job EXCEPT !.at = "run"]
    /\ UNCHANGED <<file, legs>>

Source == file[job.from]

Continues ==
    /\ Source.carry # None
    /\ Source.next[0] >= 0
    /\ Source.carry.fp = Fingerprint(job.k, job.n)

\* GATE td_restart_carry and td_restart_settings; a carry without its attributes is
\* a KeyError of the read.
Refuse ==
    /\ job # None /\ job.at = "load" /\ job.from # None
    /\ ~Continues
    /\ job' = None
    /\ UNCHANGED <<file, legs>>

Copied_Short(t) ==
    [i \in 0..(job.n - 1) |->
        IF i + 1 < Source.next[0] /\ i < Source.n THEN Source.rows[t][i] ELSE Lost]

\* The rows one trial's file has for the checkpoint of the first.
Copied(t) ==
    [i \in 0..(job.n - 1) |->
        IF i < Source.next[0] /\ i < Source.n THEN Source.rows[t][i] ELSE Lost]

Load ==
    /\ job # None /\ job.at = "load" /\ job.from # None
    /\ Continues
    /\ file' = [file EXCEPT ![job.out].rows = [t \in Trials |-> Copied(t)]]
    /\ job' = [job EXCEPT !.at = "run", !.i = Source.next[0],
                          !.s = Source.carry.step, !.state = Source.carry.state]
    /\ UNCHANGED legs

-----------------------------------------------------------------------------

\* chunk_plan: the steps a chunk takes end at the step of the sample after it.
LastStep ==
    LET it == job.i + job.chunk
    IN  Larger(IF it < job.n THEN StepOf(job.k, it) ELSE StepsOf(job.k, job.n), job.s + 1)

\* chunk_plan: the samples whose step the chunk has taken.
LastSample(s) == SamplesBefore(job.k, job.n, s)

\* fixed_advance emits in order: one sample whose step is behind holds up the rest.
Emitted(i) ==
    IF StepOf(job.k, job.i) >= job.s THEN job.state + StepOf(job.k, i) - job.s ELSE Lost

FixedChunk ==
    /\ job # None /\ job.at = "run" /\ job.k.method = "fixed"
    /\ job.s < StepsOf(job.k, job.n)
    /\ LET s == LastStep
           i == LastSample(s)
       IN  job' = [job EXCEPT !.at = "write", !.todo = Trials, !.lo = job.i, !.i = i, !.s = s,
                              !.state = @ + s - job.s,
                              !.samples = [x \in job.i..(i - 1) |->
                                  IF StepOf(job.k, x) < s THEN Emitted(x) ELSE Lost]]
    /\ UNCHANGED <<file, legs>>

ChunkEnd == IF job.i + job.chunk < job.n THEN job.i + job.chunk ELSE job.n

\* run_propagation: dp54 steps until the chunk's last sample, or to tf, is reached.
AdaptiveChunk ==
    /\ job # None /\ job.at = "run" /\ job.k.method = "dp54"
    /\ job.i < job.n
    /\ LET i == ChunkEnd
           end == IF i = job.n THEN StepsOf(job.k, job.n) ELSE ReachedBy(job.k, i - 1)
       IN  job' = [job EXCEPT !.at = "write", !.todo = Trials, !.lo = job.i, !.i = i,
                              !.state = Larger(job.state, end),
                              !.samples = [x \in job.i..(i - 1) |->
                                  Larger(job.state, ReachedBy(job.k, x))]]
    /\ UNCHANGED <<file, legs>>

First == CHOOSE t \in job.todo : \A u \in job.todo : t <= u

\* write_samples of one trial.
WriteSamples ==
    /\ job # None /\ job.at = "write"
    /\ file' = [file EXCEPT ![job.out].rows[First] =
         [x \in 0..(job.n - 1) |-> IF x \in job.lo..(job.i - 1) THEN job.samples[x] ELSE @[x]]]
    /\ job' = [job EXCEPT !.at = "check"]
    /\ UNCHANGED legs

\* One trial's file is written.
Written == [job EXCEPT !.at = IF job.todo = {First} THEN "run" ELSE "write",
                       !.todo = @ \ {First}]

\* write_checkpoint writes in place, and a kill may part its writes: first the counter
\* (and the time and the G of TDGW, which no leg of LORRAX continues from); for the
\* first trial then the old carry goes, and the new one can be read once it has
\* its last attribute.
WriteCounter ==
    /\ job # None /\ job.at = "check"
    /\ file' = [file EXCEPT ![job.out].next[First] = job.i]
    /\ job' = IF First = 0 THEN [job EXCEPT !.at = "drop"] ELSE Written
    /\ UNCHANGED legs

DropCarry ==
    /\ job # None /\ job.at = "drop"
    /\ file' = [file EXCEPT ![job.out].carry = None]
    /\ job' = [job EXCEPT !.at = "carry"]
    /\ UNCHANGED legs

WriteCarry ==
    /\ job # None /\ job.at = "carry"
    /\ file' = [file EXCEPT ![job.out].carry =
         [step |-> job.s, state |-> job.state, fp |-> Fingerprint(job.k, job.n)]]
    /\ job' = Written
    /\ UNCHANGED legs

Over ==
    IF job.k.method = "fixed" THEN job.s >= StepsOf(job.k, job.n) ELSE job.i >= job.n

Finish ==
    /\ job # None /\ job.at = "run" /\ Over
    /\ job' = [job EXCEPT !.at = "done"]
    /\ UNCHANGED <<file, legs>>

Leave ==
    /\ job # None /\ job.at = "done"
    /\ job' = None
    /\ UNCHANGED <<file, legs>>

\* A job ends by its limit or a signal, or a chunk is refused (td_stiff_solve).
Kill ==
    /\ job # None /\ job.at # "done"
    /\ job' = None
    /\ UNCHANGED <<file, legs>>

Next ==
    \/ \E k \in Decks, n \in Ends, chunk \in Chunks, out \in Dirs, from \in Dirs \cup {None} :
          Open(k, n, chunk, out, from)
    \/ FromStart \/ Refuse \/ Load
    \/ FixedChunk \/ AdaptiveChunk
    \/ WriteSamples \/ WriteCounter \/ DropCarry \/ WriteCarry
    \/ Finish \/ Leave \/ Kill

Spec == Init /\ [][Next]_vars

-----------------------------------------------------------------------------

Sample == Nat \cup {Lost}

\* Types: a file's rows cover its grid, its counters lie on it, and a running leg
\* stands on the file it opened.
TypeOK ==
    /\ legs \in 0..Legs
    /\ \A d \in Dirs : file[d] # None =>
         /\ file[d].deck \in Decks /\ file[d].n \in Ends
         /\ \A t \in Trials :
              /\ file[d].rows[t] \in [0..(file[d].n - 1) -> Sample]
              /\ file[d].next[t] \in -1..file[d].n
         /\ file[d].carry # None => file[d].carry.step \in Nat /\ file[d].carry.state \in Nat
    /\ job # None =>
         /\ job.at \in {"load", "run", "write", "check", "drop", "carry", "done"}
         /\ file[job.out] # None /\ file[job.out].n = job.n
         /\ job.lo \in Nat /\ job.todo \subseteq Trials

\* A row a checkpoint counts as taken holds what the unbroken run samples there,
\* however the legs were chunked, killed and continued (td_config.py: "the same
\* samples, bitwise, as the uninterrupted run").
RowsAsUnbroken ==
    \A d \in Dirs : file[d] # None =>
        \A t \in Trials : \A i \in 0..(file[d].next[t] - 1) :
            i < file[d].n => file[d].rows[t][i] = Unbroken(file[d].deck, i)

\* A leg that ran to its end leaves every row of every trial's file as the unbroken
\* run's, the copied ones and its own.
FinishedIsWhole ==
    job # None /\ job.at = "done" =>
        \A t \in Trials : \A i \in 0..(job.n - 1) :
            file[job.out].rows[t][i] = Unbroken(job.k, i)

\* A carry is never ahead of its counter: of a whole checkpoint it is of the counter's
\* moment, of one cut between the two of an earlier one, so what a leg that continues it
\* has still to sample lies ahead of the state it starts from.
CarryIsNotAhead ==
    \A d \in Dirs : file[d] # None /\ file[d].carry # None =>
        LET c == file[d].carry
            k == file[d].deck
            n == file[d].n
        IN  IF k.method = "fixed"
            THEN /\ c.state = c.step
                 /\ SamplesBefore(k, n, c.step) <= file[d].next[0]
            ELSE /\ c.step = 0
                 /\ file[d].next[0] < n => c.state <= ReachedBy(k, file[d].next[0])

\* The rows, the carry and the finished run together.
TdInv == TypeOK /\ RowsAsUnbroken /\ CarryIsNotAhead /\ FinishedIsWhole
=============================================================================
