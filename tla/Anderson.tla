------------------------------ MODULE Anderson ------------------------------
(***************************************************************************)
(* mixing/acceleration.py: what anderson_nojit carries from one evaluation *)
(* of the map to the next, what it hands to on_eval, and what it makes of  *)
(* a state handed back to it.  An evaluated pair (x, f) is named by one    *)
(* value; a residual norm is a number; the least squares is left out: the  *)
(* next point is a function of the pairs it combines (NextFrom).           *)
(***************************************************************************)
EXTENDS Integers, Sequences

CONSTANTS
    m,       \* depth of the history
    None     \* no pair

ASSUME DepthAssumption == m \in Nat \ {0}
\* Pairs are named by numbers.
ASSUME NoneAssumption == None \notin Nat

SmallestOf(s) == CHOOSE v \in {s[i] : i \in DOMAIN s} : \A i \in DOMAIN s : v <= s[i]
LargestOf(s) == CHOOSE v \in {s[i] : i \in DOMAIN s} : \A i \in DOMAIN s : v >= s[i]
\* np.argmin: the first of the smallest, counted from zero.
ArgMin(s) == (CHOOSE i \in DOMAIN s : s[i] = SmallestOf(s)
                 /\ \A j \in DOMAIN s : s[j] = SmallestOf(s) => i <= j) - 1
\* s[-k:]
Newest(s, k) == SubSeq(s, IF Len(s) > k THEN Len(s) - k + 1 ELSE 1, Len(s))

Fresh(pair, norm) ==
    [X |-> [i \in 0 .. m - 1 |-> None], head |-> 0, filled |-> 0, x |-> pair,
     best |-> pair, res |-> <<norm>>, fallback |-> FALSE]

\* The ring in the order of evaluation, the newest pair last.
Window(a) == [i \in 1 .. a.filled + 1 |->
                 IF i > a.filled THEN a.x ELSE a.X[(a.head - a.filled + i - 1) % m]]

\* The pairs the next point is made of.
NextFrom(a) == IF a.fallback THEN <<a.best, a.x>> ELSE Window(a)

\* One pass of the loop: the newest pair enters the ring, the next is measured.
Observed(a, pair, norm) ==
    [X |-> [a.X EXCEPT ![a.head] = a.x],
     head |-> (a.head + 1) % m,
     filled |-> IF a.filled = m THEN m ELSE a.filled + 1,
     x |-> pair,
     best |-> IF norm < SmallestOf(a.res) THEN pair ELSE a.best,
     res |-> Append(a.res, norm),
     fallback |-> ~a.fallback /\ norm > LargestOf(Newest(a.res, m + 1))]

\* _best_in_window
BestInWindow(a) == ArgMin(a.res) >= Len(a.res) - 1 - a.filled

\* What on_eval receives: the best pair only when the window has lost it.
State(a) == [a EXCEPT !.best = IF BestInWindow(a) THEN None ELSE a.best]

\* Mutant of Resumed: the best pair is looked for from the start of the ring.
Resumed_Slot(s) ==
    LET i == ArgMin(s.res) - (Len(s.res) - 1 - s.filled)
    IN  [s EXCEPT !.best =
            IF s.best # None THEN s.best ELSE IF i = s.filled THEN s.x ELSE s.X[i % m]]

Resumed(s) ==
    LET i == ArgMin(s.res) - (Len(s.res) - 1 - s.filled)
    IN  [s EXCEPT !.best =
            IF s.best # None THEN s.best
            ELSE IF i = s.filled THEN s.x ELSE s.X[(s.head - s.filled + i) % m]]
=============================================================================
