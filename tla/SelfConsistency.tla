-------------------------- MODULE SelfConsistency --------------------------
(***************************************************************************)
(* gw/sc_iteration.py: a self-consistent run as a sequence of processes    *)
(* over one directory.  A process starts a trajectory from a seed or       *)
(* continues the one of the checkpoint beside its own seed, evaluates the  *)
(* map, writes the warm seed, its map file and the checkpoint, and stops   *)
(* at the criterion, at the stall rule or at its budget; it may be killed  *)
(* between any two of them.                                                *)
(*                                                                         *)
(* The map is a pure function (its docstring): what a trajectory measures  *)
(* at a point is chosen once, in truth, and met again whenever the point   *)
(* is evaluated again.  Evaluation n of a trajectory is the pair named n;  *)
(* a point put together from anything but what the method takes there, or  *)
(* mapped with the carry of another map, is Stray.                         *)
(***************************************************************************)
EXTENDS Anderson

CONSTANTS
    Stray,       \* a pair that is not one of its trajectory
    Deck,        \* what a checkpoint is compared by
    Budgets,     \* values of sc_max_iter
    Outcomes,    \* what one evaluation may measure: norm, spectral, converged
    StallWindow, \* 12 in the code
    Legs         \* bound: processes

ASSUME BudgetsAssumption ==
    Budgets \subseteq Nat \ {0, 1} /\ \E b \in Budgets : \A c \in Budgets : c <= b
\* A norm is met only in comparisons: an integer does for it.
ASSUME OutcomesAssumption ==
    Outcomes \subseteq [norm : Int, spectral : Int, converged : BOOLEAN]
ASSUME StallAssumption == StallWindow \in Nat \ {0}
ASSUME LegsAssumption == Legs \in Nat \ {0}

Largest == CHOOSE b \in Budgets : \A c \in Budgets : c <= b
Maps == 0 .. Largest
Trajectory == 1 .. Legs

VARIABLES
    truth,       \* trajectory -> what its evaluations measured so far
    decks,       \* trajectory -> the deck it was started with
    place,       \* where the process is
    leg,         \* processes started
    job,         \* the process: its deck, budget, seed and trajectory
    acc,         \* its solver state
    carry,       \* its loop carry: calls, tail_z, floor history
    ckpt,        \* sc_seed/sc_checkpoint.h5
    seed,        \* sc_seed/qp_wfn_rotations.h5: the map whose output it is
    snaps,       \* map number -> trajectory of the eqp0_iterNNNN.dat there
    ended        \* <<trajectory, map, verdict>> a process has ended with

files == <<ckpt, seed, snaps>>
vars == <<truth, decks, place, leg, job, acc, carry, ckpt, seed, snaps, ended>>

Running == {"evaluate", "seed", "checkpoint"}
NoJob == [deck |-> None, budget |-> 0, own |-> FALSE, traj |-> 0]
NoCarry == [calls |-> 0, z |-> None, floor |-> <<>>]

\* A process that is gone leaves its files.
Gone == place' = "idle" /\ job' = NoJob /\ acc' = None /\ carry' = NoCarry

Init ==
    /\ truth = [t \in Trajectory |-> <<>>]
    /\ decks = [t \in Trajectory |-> None]
    /\ place = "idle" /\ leg = 0 /\ job = NoJob
    /\ acc = None /\ carry = NoCarry
    /\ ckpt = None /\ seed = None
    /\ snaps = [n \in Maps |-> None]
    /\ ended = {}

-----------------------------------------------------------------------------
\* Starting a process.

\* A deck that names the warm seed needs one to be there.
Launch(d, b, own) ==
    /\ place = "idle" /\ leg < Legs
    /\ own => seed # None
    /\ leg' = leg + 1
    /\ job' = [deck |-> d, budget |-> b, own |-> own, traj |-> 0]
    /\ place' = "open"
    /\ UNCHANGED <<truth, decks, acc, carry, files, ended>>

\* Mutant of Continues: any deck's checkpoint is continued.
Continues_AnyDeck == job.own /\ ckpt # None

\* _read_sc_checkpoint: beside the seed the deck names, and of this deck.
Continues == job.own /\ ckpt # None /\ ckpt.deck = job.deck

\* GATE sc_resume_budget
Refuse ==
    /\ place = "open" /\ Continues
    /\ Len(ckpt.acc.res) > job.budget
    /\ Gone
    /\ UNCHANGED <<truth, decks, leg, files, ended>>

Resume ==
    /\ place = "open" /\ Continues
    /\ Len(ckpt.acc.res) <= job.budget
    /\ job' = [job EXCEPT !.traj = ckpt.traj]
    /\ acc' = Resumed(ckpt.acc)
    /\ carry' = [calls |-> Len(ckpt.acc.res), z |-> ckpt.z, floor |-> ckpt.floor]
    /\ place' = "evaluate"
    /\ UNCHANGED <<truth, decks, leg, files, ended>>

\* A new trajectory; the map files of an earlier run are removed.
StartFresh ==
    /\ place = "open" /\ ~Continues
    /\ job' = [job EXCEPT !.traj = leg]
    /\ decks' = [decks EXCEPT ![leg] = job.deck]
    /\ acc' = None /\ carry' = NoCarry
    /\ snaps' = [n \in Maps |-> None]
    /\ place' = "evaluate"
    /\ UNCHANGED <<truth, leg, ckpt, seed, ended>>

-----------------------------------------------------------------------------
\* What the method takes at evaluation n of a trajectory that has measured s, from
\* the norms alone.

Norms(s, n) == [i \in 1 .. n |-> s[i].norm]
Between(i, j) == [k \in 1 .. j - i + 1 |-> i + k - 1]
From(n) == IF n > m THEN n - m ELSE 0

\* A measurement above all of its window; it makes the method fall back unless it
\* just did: at the first, the third, ... of a stretch of them.
High(s, k) == \A i \in From(k - 1) .. k - 1 : s[i + 1].norm < s[k + 1].norm
FallsBack(s, n) ==
    \E j \in 1 .. n : /\ \A k \in j .. n : High(s, k)
                      /\ j > 1 => ~High(s, j - 1)
                      /\ (n - j) % 2 = 0

BestOf(s, n) == CHOOSE b \in 0 .. n :
    \A i \in 0 .. n : s[b + 1].norm <= s[i + 1].norm
                      /\ (i < b => s[b + 1].norm < s[i + 1].norm)

MadeOf(s, n) == IF FallsBack(s, n) THEN <<BestOf(s, n), n>> ELSE Between(From(n), n)

\* Where the trajectory of one unbroken run stops: the criterion, or 12 maps
\* (after map 0) that did not lower the least matrix residual by a tenth.
Floors(s, n) == [i \in 1 .. n |-> s[i + 1].spectral]
Flat(s) ==
    /\ Len(s) > StallWindow
    /\ 10 * SmallestOf(Newest(s, StallWindow))
         > 9 * SmallestOf(SubSeq(s, 1, Len(s) - StallWindow))
StopsAt(s, n) == s[n + 1].converged \/ Flat(Floors(s, n))

-----------------------------------------------------------------------------
\* residual_fn and the loop around it.

\* The point evaluated next: map 0 takes the seed, a later one NextFrom.
NextPair ==
    LET n == carry.calls IN
    IF n = 0 THEN 0
    ELSE IF /\ decks[job.traj] = job.deck
            /\ NextFrom(acc) = MadeOf(truth[job.traj], n - 1)
            /\ (Len(acc.res) = 1) = (n = 1)       \* the half step is map 1's
            /\ carry.z = n - 1
         THEN n ELSE Stray

Evaluate(out) ==
    /\ place = "evaluate"
    /\ LET n == carry.calls
           known == NextPair = n /\ n < Len(truth[job.traj])
       IN  /\ known => out = truth[job.traj][n + 1]
           /\ truth' = IF NextPair = n /\ ~known
                       THEN [truth EXCEPT ![job.traj] = Append(@, out)] ELSE truth
           /\ acc' = IF n = 0 THEN Fresh(NextPair, out.norm)
                     ELSE Observed(acc, NextPair, out.norm)
           /\ carry' = [calls |-> n + 1, z |-> n,
                        floor |-> IF n = 0 THEN <<>> ELSE Append(carry.floor, out.spectral)]
    /\ place' = IF out.converged THEN "converged" ELSE "seed"
    /\ UNCHANGED <<decks, leg, job, files, ended>>

Latest == carry.calls - 1
Ends(verdict) == ended' = ended \cup {<<job.traj, Latest, verdict>>}

\* _write_sc_seed, the map's own file, then the stall rule.  The budget's last
\* map has no on_eval: the run ends there, unconverged.
WriteSeed ==
    /\ place = "seed"
    /\ seed' = [traj |-> job.traj, map |-> Latest]
    /\ snaps' = [snaps EXCEPT ![Latest] = job.traj]
    /\ IF Flat(carry.floor) THEN Ends("stalled") /\ Gone
       ELSE IF Latest >= job.budget THEN Ends("budget") /\ Gone
       ELSE place' = "checkpoint" /\ UNCHANGED <<ended, job, acc, carry>>
    /\ UNCHANGED <<truth, decks, leg, ckpt>>

\* _checkpoint, published atomically.
Checkpoint ==
    /\ place = "checkpoint"
    /\ ckpt' = [acc |-> State(acc), z |-> carry.z, floor |-> carry.floor,
                deck |-> job.deck, traj |-> job.traj]
    /\ place' = "evaluate"
    /\ UNCHANGED <<truth, decks, leg, job, acc, carry, seed, snaps, ended>>

\* The write fails on some rank: the file is discarded and the run goes on.
CheckpointFails ==
    /\ place = "checkpoint"
    /\ ckpt' = None
    /\ place' = "evaluate"
    /\ UNCHANGED <<truth, decks, leg, job, acc, carry, seed, snaps, ended>>

\* The converged map's file, and the terminal artifacts of the driver.
Terminal ==
    /\ place = "converged"
    /\ snaps' = [snaps EXCEPT ![Latest] = job.traj]
    /\ place' = "terminal"
    /\ UNCHANGED <<truth, decks, leg, job, acc, carry, ckpt, seed, ended>>

\* retire_sc_checkpoint
Retire ==
    /\ place = "terminal"
    /\ Ends("converged")
    /\ ckpt' = None
    /\ Gone
    /\ UNCHANGED <<truth, decks, leg, seed, snaps>>

Kill ==
    /\ place \in Running \cup {"open", "converged", "terminal"}
    /\ Gone
    /\ UNCHANGED <<truth, decks, leg, files, ended>>

Next ==
    \/ \E d \in Deck, b \in Budgets, own \in BOOLEAN : Launch(d, b, own)
    \/ Refuse \/ Resume \/ StartFresh
    \/ \E out \in Outcomes : Evaluate(out)
    \/ WriteSeed \/ Checkpoint \/ CheckpointFails \/ Terminal \/ Retire \/ Kill

Spec == Init /\ [][Next]_vars

-----------------------------------------------------------------------------
TypeOK ==
    /\ \A t \in Trajectory : /\ Len(truth[t]) <= Largest + 1
                             /\ decks[t] \in Deck \cup {None}
                             /\ t > leg => truth[t] = <<>> /\ decks[t] = None
    /\ place \in Running \cup {"idle", "open", "converged", "terminal"}
    /\ leg \in 0 .. Legs
    /\ carry.calls \in 0 .. job.budget + 1
    /\ \A n \in Maps : snaps[n] \in Trajectory \cup {None}
    /\ ended \subseteq Trajectory \X Maps \X {"converged", "stalled", "budget"}

\* The solver state and loop carry of a run that has just measured map n.
IsStateOf(a, floor, z, s, n) ==
    /\ n < Len(s)
    /\ a.res = Norms(s, n + 1)
    /\ Window(a) = Between(From(n), n)
    /\ a.best = BestOf(s, n)
    /\ a.fallback = FallsBack(s, n)
    /\ floor = Floors(s, n)
    /\ z = n

\* A run split over processes is the unbroken one: after every map, whatever
\* was killed and continued before it, the solver holds the newest pairs of its
\* trajectory in order, the first best of them all, the fallback flag and the
\* histories of the trajectory's own norms (docs/self_consistency.md,
\* "Continuing a run"; AndersonState's docstring).
StaysOnTrajectory ==
    carry.calls > 0 => IsStateOf(acc, carry.floor, carry.z, truth[job.traj], Latest)

\* The checkpoint on disk continues exactly: what a process makes of it is the
\* state of its trajectory after its map, and never of a map the trajectory
\* stops at (_checkpoint runs after the verdict; State drops the best pair only
\* when Resumed can find it).
CheckpointContinues ==
    ckpt # None =>
        LET n == Len(ckpt.acc.res) - 1 IN
        /\ IsStateOf(Resumed(ckpt.acc), ckpt.floor, ckpt.z, truth[ckpt.traj], n)
        /\ ckpt.deck = decks[ckpt.traj]
        /\ ~StopsAt(truth[ckpt.traj], n)

\* "The previous map's checkpoint must not outlive this map": a run that goes on
\* to another map has the checkpoint of the last one beside it, or none.
CheckpointIsTheLastMap ==
    place = "evaluate" /\ carry.calls > 0 /\ ckpt # None =>
        ckpt.traj = job.traj /\ Len(ckpt.acc.res) = carry.calls

\* A trajectory stops where the unbroken one would, whichever process gets
\* there: none evaluates a map past the criterion or the stall, and one that
\* ends says of its last map what the trajectory's own measurements say.
StopsWhereUnbroken ==
    /\ \A t \in Trajectory : \A n \in 0 .. Len(truth[t]) - 2 : ~StopsAt(truth[t], n)
    /\ \A e \in ended :
        LET t == e[1] n == e[2] IN
        CASE e[3] = "converged" -> truth[t][n + 1].converged
          [] e[3] = "stalled" -> ~truth[t][n + 1].converged /\ Flat(Floors(truth[t], n))
          [] e[3] = "budget" -> ~StopsAt(truth[t], n)

\* A trajectory that has ended converged has nothing left to continue.
ConvergedLeavesNothing ==
    \A e \in ended : e[3] = "converged" => ckpt = None \/ ckpt.traj # e[1]

\* docs/self_consistency.md: "A checkpoint always sits beside the warm seed it
\* was written with" (or, when its run ended or was killed first, beside the
\* next map's).  A new trajectory writes its own seed over the old one before
\* its first checkpoint.  It does not hold (README,
\* "Divergences").
CheckpointBesideItsSeed ==
    ckpt # None => /\ seed.traj = ckpt.traj
                   /\ seed.map \in {Len(ckpt.acc.res) - 1, Len(ckpt.acc.res)}

\* The checkpoint and the ends of a trajectory together: it continues exactly,
\* is the last map's, and a trajectory ends where the unbroken one does.
TrajectoryInv ==
    /\ TypeOK /\ CheckpointContinues /\ CheckpointIsTheLastMap
    /\ StopsWhereUnbroken /\ ConvergedLeavesNothing
=============================================================================
