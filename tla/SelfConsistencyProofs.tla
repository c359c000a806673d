----------------------- MODULE SelfConsistencyProofs -----------------------
(***************************************************************************)
(* A self-consistent run that is killed and continued is the unbroken one, *)
(* for any depth of the history, any budgets and stall window, any         *)
(* measurements, and any number of processes, decks and kills.             *)
(***************************************************************************)
EXTENDS SelfConsistency, SequenceTheorems, WellFoundedInduction, TLAPS

-----------------------------------------------------------------------------
(* The inductive invariant *)

Verdict == {"converged", "stalled", "budget"}
Solver == [X : [0 .. m - 1 -> Nat \cup {None}], head : 0 .. m - 1, filled : 0 .. m,
           x : Nat, best : Nat \cup {None}, res : Seq(Int), fallback : BOOLEAN]

\* What has a type, and what a process that has not begun has left untouched.
StoreOK ==
    /\ truth \in [Trajectory -> Seq(Outcomes)]
    /\ decks \in [Trajectory -> Deck \cup {None}]
    /\ leg \in 0 .. Legs
    /\ snaps \in [Maps -> Trajectory \cup {None}]
    /\ ended \subseteq Trajectory \X Maps \X Verdict
    /\ \A t \in Trajectory : /\ Len(truth[t]) <= Largest + 1
                             /\ t > leg => truth[t] = <<>> /\ decks[t] = None

\* A process at work is on a trajectory, of its deck; before, it holds nothing.
ProcessOK ==
    /\ place \in Running \cup {"idle", "open", "converged", "terminal"}
    /\ job \in [deck : Deck \cup {None}, budget : Budgets \cup {0}, own : BOOLEAN,
                traj : 0 .. Legs]
    /\ place = "idle" => job = NoJob
    /\ place \in {"idle", "open"} => job.traj = 0 /\ acc = None /\ carry = NoCarry
    /\ place = "open" =>
         /\ leg \in Trajectory /\ truth[leg] = <<>> /\ decks[leg] = None
         /\ job.deck \in Deck /\ job.budget \in Budgets
         /\ \A e \in ended : e[1] # leg
         /\ ckpt # None => ckpt.traj # leg
    /\ place \notin {"idle", "open"} =>
         /\ job.traj \in 1 .. leg /\ job.deck \in Deck /\ job.budget \in Budgets
         /\ decks[job.traj] = job.deck
         /\ carry.calls \in 0 .. job.budget + 1
         /\ place # "evaluate" => carry.calls > 0
         /\ place \in {"evaluate", "checkpoint"} => carry.calls <= job.budget
         /\ carry.calls = 0 => carry = NoCarry /\ truth[job.traj] = <<>>

\* Of what a trajectory measured, s, evaluation b is the first with the smallest norm
\* up to evaluation n.
IsBest(b, s, n) ==
    /\ b \in 0 .. n
    /\ \A i \in 0 .. n : /\ s[b + 1].norm <= s[i + 1].norm
                         /\ i < b => s[b + 1].norm < s[i + 1].norm

\* The solver and the carry after map n of a trajectory that measured s, the best pair
\* aside: i steps back in the ring lies evaluation n - i.
After(a, floor, z, s, n) ==
    /\ a \in Solver
    /\ n \in Nat /\ n < Len(s)
    /\ a.x = n /\ a.filled = IF n > m THEN m ELSE n
    /\ \A i \in 1 .. a.filled : a.X[(a.head - i) % m] = n - i
    /\ a.res = Norms(s, n + 1)
    /\ a.fallback = FallsBack(s, n)
    /\ floor = Floors(s, n)
    /\ z = n

\* The process at work has measured its last map there.
SolverOK ==
    carry.calls > 0 =>
        /\ After(acc, carry.floor, carry.z, truth[job.traj], Latest)
        /\ IsBest(acc.best, truth[job.traj], Latest)
        /\ place \in {"converged", "terminal"} <=> truth[job.traj][carry.calls].converged
        /\ place \in {"evaluate", "checkpoint"} => ~StopsAt(truth[job.traj], Latest)

\* So has the process that wrote the checkpoint; the best pair is left out of it
\* exactly if the ring has it.
CheckpointOK ==
    ckpt # None =>
        LET n == Len(ckpt.acc.res) - 1 IN
        /\ ckpt.traj \in 1 .. leg /\ ckpt.deck = decks[ckpt.traj]
        /\ After(ckpt.acc, ckpt.floor, ckpt.z, truth[ckpt.traj], n)
        /\ \E b \in 0 .. n :
             /\ IsBest(b, truth[ckpt.traj], n)
             /\ ckpt.acc.best = IF b >= From(n) THEN None ELSE b
        /\ ~StopsAt(truth[ckpt.traj], n)

\* A trajectory has gone on only where it does not stop, and no map was measured
\* past an end.
EndsOK ==
    /\ \A t \in Trajectory : \A n \in 0 .. Len(truth[t]) - 2 : ~StopsAt(truth[t], n)
    /\ \A e \in ended :
        /\ e[1] <= leg /\ e[2] < Len(truth[e[1]])
        /\ e[3] = "converged" => truth[e[1]][e[2] + 1].converged
        /\ e[3] = "stalled" => /\ ~truth[e[1]][e[2] + 1].converged
                               /\ Flat(Floors(truth[e[1]], e[2]))
        /\ e[3] = "budget" => ~StopsAt(truth[e[1]], e[2])
        /\ e[3] = "converged" => e[1] # job.traj /\ (ckpt # None => ckpt.traj # e[1])

IInv ==
    /\ StoreOK /\ ProcessOK /\ SolverOK /\ CheckpointOK /\ CheckpointIsTheLastMap
    /\ EndsOK

-----------------------------------------------------------------------------
(* Extremes of finite sequences *)

\* Every sequence of integers that is not empty has a largest element: if not, take a
\* shortest one that has none, and drop its last.
LEMMA HasLargest ==
    ASSUME NEW k \in Nat \ {0}, NEW s \in [1 .. k -> Int]
    PROVE  \E i \in 1 .. k : \A j \in 1 .. k : s[j] <= s[i]
<1> DEFINE Has(n) == \A q \in [1 .. n -> Int] : \E i \in 1 .. n : \A j \in 1 .. n : q[j] <= q[i]
           Bad == {n \in Nat \ {0} : ~Has(n)}
<1>1. ASSUME Bad # {} PROVE FALSE
  <2>1. PICK n \in Bad : \A p \in Bad : <<p, n>> \notin OpToRel(<, Nat)
    <3>1. Bad \subseteq Nat
      OBVIOUS
    <3> HIDE DEF Bad
    <3> QED BY <1>1, <3>1, NatLessThanWellFounded, WFMin
  <2>2. \A p \in Bad : ~(p < n)
    BY <2>1 DEF OpToRel
  <2>3. n \in Nat \ {0} /\ ~Has(n)
    OBVIOUS
  <2>4. PICK q \in [1 .. n -> Int] : \A i \in 1 .. n : \E j \in 1 .. n : ~(q[j] <= q[i])
    BY <2>3
  <2>5. n # 1
    <3> SUFFICES ASSUME n = 1 PROVE FALSE
      OBVIOUS
    <3>1. \A j \in 1 .. n : j = 1
      OBVIOUS
    <3> QED BY <2>4, <3>1
  <2>6. Has(n - 1)
    <3>1. n - 1 \in Nat \ {0} /\ n - 1 < n
      BY <2>3, <2>5
    <3> QED BY <2>2, <3>1
  <2>13. n \in Nat \ {0}
    BY <2>3
  <2> HIDE DEF Has, Bad
  <2> DEFINE w == [i \in 1 .. n - 1 |-> q[i]]
  <2>7. w \in [1 .. n - 1 -> Int]
    BY <2>13
  <2>8. PICK i \in 1 .. n - 1 : \A j \in 1 .. n - 1 : w[j] <= w[i]
    BY <2>6, <2>7 DEF Has
  <2>9. i \in 1 .. n /\ n \in 1 .. n /\ \A j \in 1 .. n - 1 : q[j] <= q[i]
    BY <2>13, <2>8
  <2>10. \A j \in 1 .. n : j \in 1 .. n - 1 \/ j = n
    BY <2>13
  <2>11. CASE q[n] <= q[i]
    BY <2>4, <2>9, <2>10, <2>11
  <2>12. CASE ~(q[n] <= q[i])
    <3>1. ASSUME NEW j \in 1 .. n PROVE q[j] <= q[n]
      <4>1. q[j] \in Int /\ q[i] \in Int /\ q[n] \in Int
        BY <2>9
      <4>2. j = n \/ q[j] <= q[i]
        BY <2>9, <2>10
      <4>3. \A u, v, y \in Int : u <= v /\ ~(y <= v) => u <= y
        OBVIOUS
      <4> QED BY <4>1, <4>2, <4>3, <2>12
    <3> QED BY <2>4, <2>9, <3>1
  <2> QED BY <2>11, <2>12
<1>2. Has(k)
  BY <1>1
<1> QED BY <1>2

\* What is larger than the largest element is larger than all.
LEMMA LargestFacts ==
    ASSUME NEW s \in Seq(Int), Len(s) > 0, NEW v \in Int
    PROVE  v > LargestOf(s) <=> \A i \in 1 .. Len(s) : s[i] < v
<1>1. Len(s) \in Nat \ {0} /\ s \in [1 .. Len(s) -> Int] /\ DOMAIN s = 1 .. Len(s)
  OBVIOUS
<1>2. PICK i \in 1 .. Len(s) : \A j \in 1 .. Len(s) : s[j] <= s[i]
  BY <1>1, HasLargest
<1>3. LargestOf(s) = s[i]
  <2>1. s[i] \in {s[j] : j \in DOMAIN s} /\ \A j \in DOMAIN s : s[i] >= s[j]
    BY <1>1, <1>2
  <2>2. \A u \in {s[j] : j \in DOMAIN s} : (\A j \in DOMAIN s : u >= s[j]) => u = s[i]
    BY <1>1, <2>1
  <2> QED BY <2>1, <2>2 DEF LargestOf
<1> QED BY <1>1, <1>2, <1>3

\* The smallest element, where it is known, ...
LEMMA SmallestIs ==
    ASSUME NEW s \in Seq(Int), NEW b \in 1 .. Len(s), \A i \in 1 .. Len(s) : s[b] <= s[i]
    PROVE  SmallestOf(s) = s[b]
<1>1. DOMAIN s = 1 .. Len(s) /\ \A i \in 1 .. Len(s) : s[i] \in Int
  OBVIOUS
<1>2. s[b] \in {s[j] : j \in DOMAIN s} /\ \A j \in DOMAIN s : s[b] <= s[j]
  BY <1>1
<1>3. \A u \in {s[j] : j \in DOMAIN s} : (\A j \in DOMAIN s : u <= s[j]) => u = s[b]
  BY <1>1, <1>2
<1> QED BY <1>2, <1>3 DEF SmallestOf

\* ... and the index of the first.
LEMMA ArgMinIs ==
    ASSUME NEW s \in Seq(Int), NEW b \in 1 .. Len(s), \A i \in 1 .. Len(s) : s[b] <= s[i],
           \A i \in 1 .. Len(s) : i < b => s[b] < s[i]
    PROVE  ArgMin(s) = b - 1
<1>1. DOMAIN s = 1 .. Len(s) /\ \A i \in 1 .. Len(s) : s[i] \in Int
  OBVIOUS
<1>2. SmallestOf(s) = s[b]
  BY SmallestIs
<1> DEFINE First(i) == s[i] = SmallestOf(s) /\ \A j \in DOMAIN s : s[j] = SmallestOf(s) => i <= j
<1>3. b \in DOMAIN s /\ First(b)
  BY <1>1, <1>2
<1>4. \A i \in DOMAIN s : First(i) => i = b
  BY <1>1, <1>2, <1>3
<1>5. (CHOOSE i \in DOMAIN s : First(i)) = b
  <2> HIDE DEF First
  <2> QED BY <1>3, <1>4
<1> QED BY <1>5 DEF ArgMin

\* Positions in the ring.
LEMMA Ring ==
    ASSUME NEW i \in Int
    PROVE  /\ 0 <= i /\ i < m => i % m = i
           /\ m <= i /\ i < 2 * m => i % m = i - m
           /\ -m <= i /\ i < 0 => i % m = i + m
<1>1. m \in Nat /\ m > 0
  BY DepthAssumption
<1>2. \A j \in Int : 0 <= j /\ j < m => j % m = j
  BY <1>1
<1>3. \A j \in Int : m <= j /\ j < 2 * m => j % m = j - m
  BY <1>1
<1>4. \A j \in Int : -m <= j /\ j < 0 => j % m = j + m
  BY <1>1
<1> QED BY <1>2, <1>3, <1>4

-----------------------------------------------------------------------------
(* What a trajectory's own measurements say *)

\* A set of numbers has a least one.
LEMMA LeastOf ==
    ASSUME NEW S \in SUBSET Nat, S # {}
    PROVE  \E i \in S : \A j \in S : i <= j
<1> DEFINE Less == OpToRel(<, Nat)
<1>1. PICK i \in S : \A j \in S : <<j, i>> \notin Less
  <2> HIDE DEF Less
  <2>1. IsWellFoundedOn(Less, Nat)
    BY NatLessThanWellFounded DEF Less
  <2> QED BY <2>1, WFMin
<1>2. \A p, q \in Nat : <<p, q>> \notin Less => q <= p
  BY DEF OpToRel
<1> HIDE DEF Less
<1> QED BY <1>1, <1>2

\* The method falls back where it has not just done so and the measurement is high.
LEMMA FallsBackStep ==
    ASSUME NEW s, NEW n \in Nat
    PROVE  /\ FallsBack(s, n) \in BOOLEAN
           /\ ~FallsBack(s, 0)
           /\ FallsBack(s, n + 1) <=> ~FallsBack(s, n) /\ High(s, n + 1)
<1> DEFINE H(k) == High(s, k)
           Starts(j, p) == (\A k \in j .. p : H(k)) /\ (j > 1 => ~H(j - 1))
<1>1. \A p \in Nat : FallsBack(s, p) <=> \E j \in 1 .. p : Starts(j, p) /\ (p - j) % 2 = 0
  BY DEF FallsBack
<1>2. FallsBack(s, n) \in BOOLEAN
  BY DEF FallsBack
<1> HIDE DEF H
<1>3. ASSUME FallsBack(s, n + 1) PROVE ~FallsBack(s, n) /\ H(n + 1)
  <2>1. PICK j \in 1 .. n + 1 : Starts(j, n + 1) /\ (n + 1 - j) % 2 = 0
    BY <1>1, <1>3
  <2>2. H(n + 1)
    BY <2>1
  <2>3. ASSUME NEW i \in 1 .. n, Starts(i, n), (n - i) % 2 = 0 PROVE FALSE
    <3>1. CASE j = n + 1
      <4>1. ~H(n)
        BY <2>1, <3>1
      <4> QED BY <2>3, <4>1
    <3>2. CASE j < i
      BY <2>1, <2>3, <3>2
    <3>3. CASE i < j /\ j # n + 1
      BY <2>1, <2>3, <3>3
    <3>4. CASE i = j
      BY <2>1, <2>3, <3>4
    <3> QED BY <3>1, <3>2, <3>3, <3>4
  <2> QED BY <1>1, <2>2, <2>3
<1>4. ASSUME ~FallsBack(s, n), H(n + 1) PROVE FallsBack(s, n + 1)
  <2> DEFINE S == {j \in 1 .. n + 1 : \A k \in j .. n + 1 : H(k)}
  <2>1. n + 1 \in S
    BY <1>4
  <2>2. PICK j \in S : \A i \in S : j <= i
    <3>1. S \in SUBSET Nat
      OBVIOUS
    <3> HIDE DEF S
    <3> QED BY <2>1, <3>1, LeastOf
  <2>3. j \in 1 .. n + 1 /\ \A k \in j .. n + 1 : H(k)
    OBVIOUS
  <2>4. j > 1 => ~H(j - 1)
    <3> SUFFICES ASSUME j > 1, H(j - 1) PROVE FALSE
      OBVIOUS
    <3>1. \A k \in j - 1 .. n + 1 : k = j - 1 \/ k \in j .. n + 1
      BY <2>3
    <3>2. j - 1 \in 1 .. n + 1 /\ \A k \in j - 1 .. n + 1 : H(k)
      BY <2>3, <3>1
    <3>3. j - 1 \in S /\ ~(j <= j - 1)
      BY <2>3, <3>2
    <3> QED BY <2>2, <3>3
  <2> HIDE DEF S
  <2>5. CASE (n + 1 - j) % 2 = 0
    BY <1>1, <2>3, <2>4, <2>5
  <2>6. CASE (n + 1 - j) % 2 # 0
    <3>1. j \in 1 .. n /\ (n - j) % 2 = 0
      BY <2>3, <2>6
    <3>2. Starts(j, n)
      BY <2>3, <2>4
    <3> QED BY <1>1, <1>4, <3>1, <3>2
  <2> QED BY <2>5, <2>6
<1>5. ~FallsBack(s, 0)
  BY <1>1
<1> QED BY <1>2, <1>3, <1>4, <1>5 DEF H

\* What a measurement holds, and what its histories do.
LEMMA Measured ==
    ASSUME NEW s \in Seq(Outcomes), NEW n \in Nat, n < Len(s)
    PROVE  /\ \A i \in 0 .. n : /\ s[i + 1] \in Outcomes /\ s[i + 1].norm \in Int
                                /\ s[i + 1].spectral \in Int
                                /\ s[i + 1].converged \in BOOLEAN
           /\ Norms(s, n + 1) \in Seq(Int) /\ Len(Norms(s, n + 1)) = n + 1
           /\ \A i \in 0 .. n : Norms(s, n + 1)[i + 1] = s[i + 1].norm
           /\ Floors(s, n) \in Seq(Int) /\ Len(Floors(s, n)) = n
<1>1. \A i \in 1 .. n + 1 : s[i] \in Outcomes
  OBVIOUS
<1>2. \A i \in 1 .. n + 1 : /\ s[i].norm \in Int /\ s[i].spectral \in Int
                            /\ s[i].converged \in BOOLEAN
  BY <1>1, OutcomesAssumption
<1>3. \A i \in 0 .. n : i + 1 \in 1 .. n + 1
  OBVIOUS
<1>4. Norms(s, n + 1) \in [1 .. n + 1 -> Int]
  BY <1>2 DEF Norms
<1>5. Floors(s, n) \in [1 .. n -> Int]
  <2>1. \A i \in 1 .. n : i + 1 \in 1 .. n + 1
    OBVIOUS
  <2> QED BY <1>2, <2>1 DEF Floors
<1>6. n + 1 \in Nat /\ \A k \in Nat : \A f \in [1 .. k -> Int] : f \in Seq(Int) /\ Len(f) = k
  OBVIOUS
<1>7. Norms(s, n + 1) \in Seq(Int) /\ Len(Norms(s, n + 1)) = n + 1
  BY <1>4, <1>6
<1>8. Floors(s, n) \in Seq(Int) /\ Len(Floors(s, n)) = n
  BY <1>5, <1>6
<1>9. \A i \in 0 .. n : Norms(s, n + 1)[i + 1] = s[i + 1].norm
  BY <1>3 DEF Norms
<1> QED BY <1>1, <1>2, <1>3, <1>7, <1>8, <1>9

\* The best evaluation is the one the definition chooses.
LEMMA BestIs ==
    ASSUME NEW s \in Seq(Outcomes), NEW n \in Nat, n < Len(s), NEW b, IsBest(b, s, n)
    PROVE  BestOf(s, n) = b
<1>1. \A i \in 0 .. n : s[i + 1].norm \in Int
  BY Measured
<1>3. b \in 0 .. n
  BY DEF IsBest
<1>2. ASSUME NEW c \in 0 .. n, IsBest(c, s, n) PROVE c = b
  <2>1. s[c + 1].norm \in Int /\ s[b + 1].norm \in Int
    BY <1>1, <1>3
  <2>2. s[c + 1].norm <= s[b + 1].norm /\ (b < c => s[c + 1].norm < s[b + 1].norm)
    BY <1>2, <1>3 DEF IsBest
  <2>3. s[b + 1].norm <= s[c + 1].norm /\ (c < b => s[b + 1].norm < s[c + 1].norm)
    BY <1>2 DEF IsBest
  <2>4. \A u, v \in Int : u <= v /\ v <= u => ~(u < v) /\ ~(v < u)
    OBVIOUS
  <2> QED BY <1>3, <2>1, <2>2, <2>3, <2>4
<1> QED BY <1>2, <1>3 DEF BestOf, IsBest

\* The newest m + 1 norms are those of the window.
LEMMA WindowNorms ==
    ASSUME NEW s \in Seq(Outcomes), NEW n \in Nat, n < Len(s), NEW v \in Int
    PROVE  v > LargestOf(Newest(Norms(s, n + 1), m + 1))
             <=> \A i \in From(n) .. n : s[i + 1].norm < v
<1> DEFINE r == Norms(s, n + 1)
           f == From(n) + 1
           w == SubSeq(r, f, n + 1)
<1>1. r \in Seq(Int) /\ Len(r) = n + 1 /\ \A i \in 0 .. n : r[i + 1] = s[i + 1].norm
  BY Measured
<1>2. m \in Nat \ {0} /\ From(n) \in 0 .. n /\ f \in 1 .. n + 1
  BY DepthAssumption DEF From
<1>3. Newest(r, m + 1) = w
  <2>1. Len(r) = n + 1 => (IF Len(r) > m + 1 THEN Len(r) - (m + 1) + 1 ELSE 1) = f
    <3> HIDE DEF r
    <3> QED BY <1>2 DEF From
  <2>2. Newest(r, m + 1) = SubSeq(r, IF Len(r) > m + 1 THEN Len(r) - (m + 1) + 1 ELSE 1, Len(r))
    BY DEF Newest
  <2>3. Len(r) = n + 1
    BY <1>1
  <2> HIDE DEF r, f
  <2> QED BY <2>1, <2>2, <2>3
<1>4. w \in Seq(Int) /\ Len(w) = n - From(n) + 1
      /\ \A i \in 1 .. n - From(n) + 1 : w[i] = r[f + i - 1]
  <2> HIDE DEF r
  <2> QED BY SMTT(60), <1>1, <1>2, SubSeqProperties
<1>5. v > LargestOf(w) <=> \A i \in 1 .. Len(w) : w[i] < v
  <2>1. Len(w) > 0
    BY <1>2, <1>4
  <2> HIDE DEF w
  <2> QED BY <1>4, <2>1, LargestFacts
<1> HIDE DEF r, w
<1>6. ASSUME \A i \in 1 .. Len(w) : w[i] < v, NEW i \in From(n) .. n
      PROVE  s[i + 1].norm < v
  <2>1. i - From(n) + 1 \in 1 .. Len(w) /\ f + (i - From(n) + 1) - 1 = i + 1
    BY SMTT(60), <1>2, <1>4
  <2>2. w[i - From(n) + 1] = r[i + 1]
    BY <1>4, <2>1
  <2>3. i \in 0 .. n
    BY <1>2
  <2> QED BY <1>1, <1>6, <2>1, <2>2, <2>3
<1>7. ASSUME \A i \in From(n) .. n : s[i + 1].norm < v, NEW i \in 1 .. Len(w)
      PROVE  w[i] < v
  <2>1. From(n) + i - 1 \in From(n) .. n /\ From(n) + i - 1 \in 0 .. n
        /\ f + i - 1 = (From(n) + i - 1) + 1
    BY SMTT(60), <1>2, <1>4
  <2>2. w[i] = r[(From(n) + i - 1) + 1]
    BY <1>4, <2>1
  <2> QED BY <1>1, <1>7, <2>1, <2>2
<1> QED BY <1>3, <1>5, <1>6, <1>7 DEF r

-----------------------------------------------------------------------------
(* What the solver's operations do on a trajectory *)

\* The ring holds what the window of the newest pairs says.
LEMMA WindowIs ==
    ASSUME NEW s, NEW n, NEW a, NEW floor, NEW z, After(a, floor, z, s, n)
    PROVE  /\ n \in Nat /\ From(n) \in 0 .. n /\ a.filled = n - From(n)
           /\ \A i \in From(n) .. n - 1 : a.X[(a.head - (n - i)) % m] = i
           /\ Window(a) = Between(From(n), n)
<1>1. m \in Nat \ {0} /\ n \in Nat /\ a.x = n
      /\ a.filled = (IF n > m THEN m ELSE n) /\ a.head \in 0 .. m - 1
  BY DepthAssumption DEF After, Solver
<1>2. From(n) \in 0 .. n /\ a.filled = n - From(n)
  BY <1>1 DEF From
<1>3. ASSUME NEW i \in From(n) .. n - 1 PROVE a.X[(a.head - (n - i)) % m] = i
  <2>1. n - i \in 1 .. a.filled /\ n - (n - i) = i
    BY <1>1, <1>2
  <2> QED BY <2>1 DEF After
<1>4. Window(a) = [i \in 1 .. n - From(n) + 1 |-> From(n) + i - 1]
  <2>1. ASSUME NEW i \in 1 .. n - From(n) + 1
        PROVE  (IF i > a.filled THEN a.x ELSE a.X[(a.head - a.filled + i - 1) % m])
                 = From(n) + i - 1
    <3>1. CASE i > a.filled
      BY <1>1, <1>2, <3>1
    <3>2. CASE ~(i > a.filled)
      <4>1. /\ From(n) + i - 1 \in From(n) .. n - 1
            /\ a.head - (n - (From(n) + i - 1)) = a.head - a.filled + i - 1
        BY <1>1, <1>2, <3>2
      <4> QED BY <1>3, <3>2, <4>1
    <3> QED BY <3>1, <3>2
  <2> QED BY <1>2, <2>1 DEF Window
<1> QED BY <1>1, <1>2, <1>3, <1>4 DEF Between

\* The first map.
LEMMA FreshAfter ==
    ASSUME NEW s \in Seq(Outcomes), Len(s) > 0
    PROVE  /\ After(Fresh(0, s[1].norm), <<>>, 0, s, 0)
           /\ IsBest(0, s, 0) /\ Fresh(0, s[1].norm).best = 0
<1> DEFINE a == Fresh(0, s[1].norm)
<1>1. m \in Nat \ {0} /\ 0 \in 0 .. m - 1 /\ 0 \in 0 .. m
  BY DepthAssumption
<1>2. s[1].norm \in Int /\ 0 < Len(s)
  <2>1. 0 \in 0 .. 0 /\ s[0 + 1].norm \in Int
    BY Measured
  <2> QED BY <2>1
<1>3. a \in Solver
  <2>1. <<s[1].norm>> \in Seq(Int)
    BY <1>2
  <2>2. [i \in 0 .. m - 1 |-> None] \in [0 .. m - 1 -> Nat \cup {None}]
    OBVIOUS
  <2> QED BY <1>1, <2>1, <2>2 DEF Fresh, Solver
<1>4. /\ a.x = 0 /\ a.filled = 0 /\ a.best = 0
      /\ a.res = <<s[1].norm>> /\ a.fallback = FALSE
  BY DEF Fresh
<1>5. Norms(s, 0 + 1) = <<s[1].norm>>
  BY DEF Norms
<1>6. Floors(s, 0) = <<>>
  BY DEF Floors
<1>7. ~FallsBack(s, 0) /\ FallsBack(s, 0) \in BOOLEAN
  BY FallsBackStep
<1>8. IsBest(0, s, 0)
  BY <1>2 DEF IsBest
<1> HIDE DEF a
<1>9. a.filled = IF 0 > m THEN m ELSE 0
  BY <1>1, <1>4
<1>11. a.fallback = FallsBack(s, 0)
  BY <1>4, <1>7
<1>12. \A i \in 1 .. a.filled : a.X[(a.head - i) % m] = 0 - i
  BY <1>4
<1>10. After(a, <<>>, 0, s, 0)
  BY <1>2, <1>3, <1>4, <1>5, <1>6, <1>9, <1>11, <1>12 DEF After
<1> QED BY <1>4, <1>8, <1>10 DEF a

\* One pass of the loop, from one map to the next.
LEMMA ObservedAfter ==
    ASSUME NEW s \in Seq(Outcomes), NEW n, NEW a, NEW floor, NEW z,
           After(a, floor, z, s, n), IsBest(a.best, s, n), n + 1 < Len(s)
    PROVE  LET b == Observed(a, n + 1, s[n + 2].norm) IN
           /\ After(b, Append(floor, s[n + 2].spectral), n + 1, s, n + 1)
           /\ IsBest(b.best, s, n + 1)
<1> DEFINE v == s[n + 2].norm
           b == Observed(a, n + 1, v)
<1>1. n \in Nat /\ n < Len(s) /\ a \in Solver /\ a.x = n /\ m \in Nat \ {0}
  BY DepthAssumption DEF After
<1>2. /\ a.X \in [0 .. m - 1 -> Nat \cup {None}] /\ a.head \in 0 .. m - 1
      /\ a.filled \in 0 .. m /\ a.fallback \in BOOLEAN
  BY <1>1 DEF Solver
<1>3. /\ \A i \in 0 .. n + 1 : s[i + 1].norm \in Int /\ s[i + 1].spectral \in Int
      /\ Norms(s, n + 2) \in Seq(Int) /\ Len(Norms(s, n + 2)) = n + 2
      /\ \A i \in 0 .. n + 1 : Norms(s, n + 2)[i + 1] = s[i + 1].norm
  <2>1. n + 1 \in Nat /\ (n + 1) + 1 = n + 2
    BY <1>1
  <2> QED BY <2>1, Measured
<1>4. /\ a.res = Norms(s, n + 1) /\ a.res \in Seq(Int) /\ Len(a.res) = n + 1
      /\ \A i \in 0 .. n : a.res[i + 1] = s[i + 1].norm
  BY <1>1, Measured DEF After
<1>5. v \in Int
  <2>1. n + 1 \in 0 .. n + 1 /\ (n + 1) + 1 = n + 2
    BY <1>1
  <2> QED BY <1>3, <2>1
<1>6. /\ b.X = [a.X EXCEPT ![a.head] = n] /\ b.head = (a.head + 1) % m
      /\ b.filled = (IF a.filled = m THEN m ELSE a.filled + 1)
      /\ b.x = n + 1 /\ b.res = Append(a.res, v)
      /\ b.best = (IF v < SmallestOf(a.res) THEN n + 1 ELSE a.best)
      /\ b.fallback = (~a.fallback /\ v > LargestOf(Newest(a.res, m + 1)))
  BY <1>1 DEF Observed
<1>17. b = [X |-> b.X, head |-> b.head, filled |-> b.filled, x |-> b.x, best |-> b.best,
            res |-> b.res, fallback |-> b.fallback]
  BY DEF Observed
<1> HIDE DEF b
<1>7. b.head \in 0 .. m - 1 /\ b.head = IF a.head + 1 = m THEN 0 ELSE a.head + 1
  <2>1. a.head + 1 \in Int /\ 0 <= a.head + 1 /\ (a.head + 1 < m \/ a.head + 1 = m)
    BY <1>1, <1>2
  <2>2. (a.head + 1) % m = IF a.head + 1 < m THEN a.head + 1 ELSE a.head + 1 - m
    <3> DEFINE h == a.head + 1
    <3>1. h \in Int /\ 0 <= h /\ (h < m \/ (m <= h /\ h < 2 * m))
      BY <1>1, <2>1
    <3> HIDE DEF h
    <3>2. h % m = IF h < m THEN h ELSE h - m
      BY <1>1, <3>1, Ring
    <3> QED BY <1>1, <1>2, <3>1, <3>2 DEF h
  <2> QED BY SMTT(60), <1>1, <1>2, <1>6, <2>1, <2>2
<1>8. b.filled = (IF n + 1 > m THEN m ELSE n + 1) /\ b.filled \in 0 .. m
  <2>1. a.filled = IF n > m THEN m ELSE n
    BY DEF After
  <2> QED BY <1>1, <1>6, <2>1
<1>9. b.X \in [0 .. m - 1 -> Nat \cup {None}]
  BY <1>1, <1>2, <1>6
<1>10. ASSUME NEW i \in 1 .. b.filled PROVE b.X[(b.head - i) % m] = n + 1 - i
  <2>1. b.head - i \in Int /\ -m <= b.head - i /\ b.head - i < m
    BY <1>1, <1>7, <1>8
  <2>2. (b.head - i) % m = IF b.head - i >= 0 THEN b.head - i ELSE b.head - i + m
    BY <2>1, Ring
  <2>3. CASE i = 1
    <3>1. (b.head - i) % m = a.head
      BY <1>1, <1>2, <1>7, <2>2, <2>3
    <3> QED BY SMTT(60), <1>1, <1>2, <1>6, <2>3, <3>1
  <2>4. CASE i # 1
    <3> DEFINE j == i - 1
    <3>1. j \in 1 .. a.filled /\ j < m /\ n - j = n + 1 - i
      BY <1>1, <1>2, <1>6, <1>8, <2>4
    <3>2. a.head - j \in Int /\ -m <= a.head - j /\ a.head - j < m
      BY <1>1, <1>2, <3>1
    <3>3. (a.head - j) % m = IF a.head - j >= 0 THEN a.head - j ELSE a.head - j + m
      BY <3>2, Ring
    <3>4. (b.head - i) % m = (a.head - j) % m /\ (a.head - j) % m # a.head
          /\ (a.head - j) % m \in 0 .. m - 1
      <4> DEFINE p == (b.head - i) % m
                 q == (a.head - j) % m
      <4>1. p = IF b.head - i >= 0 THEN b.head - i ELSE b.head - i + m
        BY <2>2
      <4>2. q = IF a.head - j >= 0 THEN a.head - j ELSE a.head - j + m
        BY <3>3
      <4>3. i = j + 1 /\ j \in Nat /\ j > 0
        BY <1>8, <3>1
      <4> HIDE DEF p, q, j
      <4>4. q \in 0 .. m - 1 /\ q # a.head
        BY SMTT(60), <1>1, <1>2, <3>1, <4>2, <4>3
      <4>5. p = q
        <5>1. CASE a.head + 1 = m
          <6>1. b.head = 0 /\ a.head = m - 1
            BY <1>1, <1>2, <1>7, <5>1
          <6>2. p = m - i /\ q = m - 1 - j
            BY <1>1, <3>1, <4>1, <4>2, <4>3, <6>1
          <6> QED BY <1>1, <4>3, <6>2
        <5>2. CASE a.head + 1 # m
          <6>1. b.head = a.head + 1
            BY <1>7, <5>2
          <6>2. b.head - i = a.head - j
            BY <1>2, <4>3, <6>1
          <6> QED BY <4>1, <4>2, <6>2
        <5> QED BY <5>1, <5>2
      <4> QED BY <4>4, <4>5 DEF p, q
    <3>5. a.X[(a.head - j) % m] = n - j
      BY <3>1 DEF After
    <3> HIDE DEF j
    <3> QED BY <1>2, <1>6, <3>1, <3>4, <3>5
  <2> QED BY <2>3, <2>4
<1>11. b.res = Norms(s, n + 2) /\ b.res \in Seq(Int)
  <2>1. b.res \in Seq(Int) /\ Len(b.res) = n + 2 /\ b.res[n + 2] = v
        /\ \A i \in 1 .. n + 1 : b.res[i] = a.res[i]
    <3>1. Append(a.res, v) \in Seq(Int) /\ Len(Append(a.res, v)) = n + 2
          /\ Append(a.res, v)[n + 2] = v
          /\ \A i \in 1 .. n + 1 : Append(a.res, v)[i] = a.res[i]
      <4> HIDE DEF v
      <4> QED BY <1>1, <1>4, <1>5, AppendProperties
    <3> QED BY <1>6, <3>1
  <2>2. ASSUME NEW i \in 1 .. n + 2 PROVE b.res[i] = Norms(s, n + 2)[i]
    <3>1. b.res[i] = s[i].norm
      <4>1. CASE i = n + 2
        BY <2>1, <4>1
      <4>2. CASE i # n + 2
        <5>1. i - 1 \in 0 .. n /\ i \in 1 .. n + 1 /\ (i - 1) + 1 = i
          BY <1>1, <4>2
        <5> QED BY <1>4, <2>1, <5>1
      <4> QED BY <4>1, <4>2
    <3> QED BY <3>1 DEF Norms
  <2> QED BY SMTT(60), <1>3, <2>1, <2>2, SeqEqual
<1>12. b.fallback = FallsBack(s, n + 1) /\ b.fallback \in BOOLEAN
  <2>1. v > LargestOf(Newest(a.res, m + 1)) <=> High(s, n + 1)
    <3>1. v > LargestOf(Newest(Norms(s, n + 1), m + 1))
            <=> \A i \in From(n) .. n : s[i + 1].norm < v
      <4> HIDE DEF v
      <4> QED BY <1>1, <1>5, WindowNorms
    <3>2. (n + 1) - 1 = n /\ (n + 1) + 1 = n + 2
      BY <1>1
    <3> QED BY <1>4, <3>1, <3>2 DEF High
  <2>2. a.fallback = FallsBack(s, n)
    BY DEF After
  <2>3. FallsBack(s, n + 1) <=> ~FallsBack(s, n) /\ High(s, n + 1)
    BY <1>1, FallsBackStep
  <2>4. FallsBack(s, n + 1) \in BOOLEAN
    BY DEF FallsBack
  <2> HIDE DEF v
  <2> QED BY <1>6, <2>1, <2>2, <2>3, <2>4
<1>13. IsBest(b.best, s, n + 1)
  <2>1. a.best \in 0 .. n
        /\ \A i \in 0 .. n : /\ s[a.best + 1].norm <= s[i + 1].norm
                             /\ i < a.best => s[a.best + 1].norm < s[i + 1].norm
    BY DEF IsBest
  <2>2. SmallestOf(a.res) = s[a.best + 1].norm
    <3>1. a.best + 1 \in 1 .. Len(a.res)
      BY <1>1, <1>4, <2>1
    <3>2. ASSUME NEW i \in 1 .. Len(a.res) PROVE a.res[a.best + 1] <= a.res[i]
      <4>1. i - 1 \in 0 .. n /\ (i - 1) + 1 = i
        BY <1>1, <1>4
      <4> QED BY <1>4, <2>1, <4>1
    <3> QED BY <1>4, <2>1, <3>1, <3>2, SmallestIs
  <2>3. \A i \in 0 .. n + 1 : i \in 0 .. n \/ i = n + 1
    BY <1>1
  <2>4. (n + 1) + 1 = n + 2 /\ n + 1 \in 0 .. n + 1 /\ \A i \in 0 .. n : i < n + 1 /\ i \in 0 .. n + 1
    BY <1>1
  <2>5. CASE v < s[a.best + 1].norm
    <3>1. b.best = n + 1
      BY <1>6, <2>2, <2>5
    <3>2. ASSUME NEW i \in 0 .. n PROVE v < s[i + 1].norm
      <4>1. \A p, q, u \in Int : p < q /\ q <= u => p < u
        OBVIOUS
      <4>2. s[a.best + 1].norm \in Int /\ s[i + 1].norm \in Int
        BY <1>3, <2>1, <2>4
      <4> HIDE DEF v
      <4> QED BY <1>5, <2>1, <2>5, <4>1, <4>2
    <3>3. \A p, q \in Int : p < q => p <= q
      OBVIOUS
    <3>4. ASSUME NEW i \in 0 .. n + 1
          PROVE  s[(n + 1) + 1].norm <= s[i + 1].norm
                 /\ (i < n + 1 => s[(n + 1) + 1].norm < s[i + 1].norm)
      <4>1. CASE i = n + 1
        BY <1>1, <1>5, <2>4, <4>1
      <4>2. CASE i \in 0 .. n
        BY <1>3, <1>5, <2>4, <3>2, <3>3, <4>2
      <4> QED BY <2>3, <4>1, <4>2
    <3> QED BY <2>4, <3>1, <3>4 DEF IsBest
  <2>6. CASE ~(v < s[a.best + 1].norm)
    <3>1. b.best = a.best
      BY <1>6, <2>2, <2>6
    <3>2. s[a.best + 1].norm \in Int
      BY <1>3, <2>1, <2>4
    <3>3. s[a.best + 1].norm <= v
      <4> HIDE DEF v
      <4> QED BY <1>5, <2>6, <3>2
    <3>4. ASSUME NEW i \in 0 .. n + 1
          PROVE  s[a.best + 1].norm <= s[i + 1].norm
                 /\ (i < a.best => s[a.best + 1].norm < s[i + 1].norm)
      <4>1. CASE i = n + 1
        <5>1. ~(i < a.best)
          BY <1>1, <2>1, <4>1
        <5> QED BY <2>4, <3>3, <4>1, <5>1
      <4>2. CASE i \in 0 .. n
        BY <2>1, <4>2
      <4> QED BY <2>3, <4>1, <4>2
    <3>5. a.best \in 0 .. n + 1
      BY <2>1, <2>4
    <3> QED BY <3>1, <3>4, <3>5 DEF IsBest
  <2> QED BY <2>5, <2>6
<1>14. Append(floor, s[n + 2].spectral) = Floors(s, n + 1)
  <2> DEFINE y == s[n + 2].spectral
  <2>1. floor = Floors(s, n) /\ floor \in Seq(Int) /\ Len(floor) = n
    BY <1>1, Measured DEF After
  <2>2. y \in Int
    <3>1. n + 1 \in 0 .. n + 1 /\ (n + 1) + 1 = n + 2
      BY <1>1
    <3> QED BY <1>3, <3>1
  <2>3. /\ Append(floor, y) \in Seq(Int) /\ Len(Append(floor, y)) = n + 1
        /\ Append(floor, y)[n + 1] = y
        /\ \A i \in 1 .. n : Append(floor, y)[i] = floor[i]
    <3> HIDE DEF y
    <3> QED BY <1>1, <2>1, <2>2, AppendProperties
  <2>4. Floors(s, n + 1) \in Seq(Int) /\ Len(Floors(s, n + 1)) = n + 1
    <3>1. n + 1 \in Nat
      BY <1>1
    <3> QED BY <3>1, Measured
  <2>5. ASSUME NEW i \in 1 .. n + 1 PROVE Append(floor, y)[i] = Floors(s, n + 1)[i]
    <3>1. Floors(s, n + 1)[i] = s[i + 1].spectral
      BY DEF Floors
    <3>2. CASE i = n + 1
      <4>1. i + 1 = n + 2
        BY <1>1, <3>2
      <4> QED BY <2>3, <3>1, <3>2, <4>1
    <3>3. CASE i # n + 1
      <4>1. i \in 1 .. n
        BY <1>1, <3>3
      <4>2. floor[i] = s[i + 1].spectral
        BY <2>1, <4>1 DEF Floors
      <4> QED BY <2>3, <3>1, <4>1, <4>2
    <3> QED BY <3>2, <3>3
  <2> DEFINE w == Append(floor, y)
  <2> HIDE DEF w
  <2>6. w = Floors(s, n + 1)
    BY <2>3, <2>4, <2>5, SeqEqual DEF w
  <2> QED BY <2>6 DEF w
<1>15. b \in Solver
  <2>1. b.best \in Nat
    <3>1. b.best \in 0 .. n + 1
      BY <1>13 DEF IsBest
    <3> QED BY <1>1, <3>1
  <2>3. n + 1 \in Nat
    BY <1>1
  <2> QED BY <1>6, <1>7, <1>8, <1>9, <1>11, <1>12, <1>17, <2>1, <2>3 DEF Solver
<1>16. After(b, Append(floor, s[n + 2].spectral), n + 1, s, n + 1)
  <2>1. n + 1 \in Nat /\ (n + 1) + 1 = n + 2
    BY <1>1
  <2>2. b.x = n + 1
    BY <1>6
  <2> QED BY <1>8, <1>10, <1>11, <1>12, <1>14, <1>15, <2>1, <2>2 DEF After
<1> QED BY <1>13, <1>16 DEF b

\* The place of the best pair does not matter to the rest.
LEMMA OtherBest ==
    ASSUME NEW s, NEW n, NEW a, NEW floor, NEW z, After(a, floor, z, s, n),
           NEW c \in Nat \cup {None}
    PROVE  After([a EXCEPT !.best = c], floor, z, s, n) /\ [a EXCEPT !.best = c].best = c
<1> DEFINE b == [a EXCEPT !.best = c]
<1>1. a \in Solver
  BY DEF After
<1>2. b \in Solver /\ b.best = c
  BY <1>1 DEF Solver
<1>3. /\ b.X = a.X /\ b.head = a.head /\ b.filled = a.filled /\ b.x = a.x
      /\ b.res = a.res /\ b.fallback = a.fallback
  BY <1>1 DEF Solver
<1> HIDE DEF b
<1>4. After(b, floor, z, s, n)
  BY <1>2, <1>3 DEF After
<1> QED BY <1>2, <1>4 DEF b

\* np.argmin of the norms is the best evaluation.
LEMMA ArgMinBest ==
    ASSUME NEW s \in Seq(Outcomes), NEW n \in Nat, n < Len(s), NEW b, IsBest(b, s, n)
    PROVE  ArgMin(Norms(s, n + 1)) = b
<1> DEFINE r == Norms(s, n + 1)
<1>1. r \in Seq(Int) /\ Len(r) = n + 1 /\ \A i \in 0 .. n : r[i + 1] = s[i + 1].norm
  BY Measured
<1>2. b \in 0 .. n /\ \A i \in 0 .. n : /\ s[b + 1].norm <= s[i + 1].norm
                                        /\ i < b => s[b + 1].norm < s[i + 1].norm
  BY DEF IsBest
<1> HIDE DEF r
<1> DEFINE c == b + 1
<1>3. c \in 1 .. Len(r) /\ c - 1 = b
  BY <1>1, <1>2
<1>4. ASSUME NEW i \in 1 .. Len(r) PROVE r[c] <= r[i] /\ (i < c => r[c] < r[i])
  <2>1. i - 1 \in 0 .. n /\ (i - 1) + 1 = i /\ (i < c => i - 1 < b)
    BY <1>1, <1>2
  <2> QED BY <1>1, <1>2, <2>1
<1> HIDE DEF c
<1>5. ArgMin(r) = c - 1
  BY <1>1, <1>3, <1>4, ArgMinIs
<1> QED BY <1>3, <1>5 DEF r

\* What on_eval receives leaves the best pair out exactly if the window has it, ...
LEMMA StateAfter ==
    ASSUME NEW s \in Seq(Outcomes), NEW n, NEW a, NEW floor, NEW z,
           After(a, floor, z, s, n), IsBest(a.best, s, n)
    PROVE  /\ After(State(a), floor, z, s, n)
           /\ State(a).best = IF a.best >= From(n) THEN None ELSE a.best
           /\ State(a).res = a.res
<1>1. n \in Nat /\ n < Len(s) /\ a.res = Norms(s, n + 1) /\ a \in Solver
  BY DEF After
<1>2. From(n) \in 0 .. n /\ a.filled = n - From(n)
  BY WindowIs
<1>3. Len(a.res) = n + 1 /\ ArgMin(a.res) = a.best /\ a.best \in 0 .. n
  <2>1. Len(a.res) = n + 1
    BY <1>1, Measured
  <2>2. ArgMin(a.res) = a.best
    BY <1>1, ArgMinBest
  <2> QED BY <2>1, <2>2 DEF IsBest
<1>4. BestInWindow(a) <=> a.best >= From(n)
  <2>1. Len(a.res) - 1 - a.filled = From(n)
    BY <1>1, <1>2, <1>3
  <2> QED BY <1>3, <2>1 DEF BestInWindow
<1> DEFINE c == IF BestInWindow(a) THEN None ELSE a.best
<1>5. c \in Nat \cup {None}
  BY <1>1, <1>3
<1>6. State(a) = [a EXCEPT !.best = c]
  BY DEF State
<1>7. State(a).res = a.res
  BY <1>1, <1>6 DEF Solver
<1>8. c = IF a.best >= From(n) THEN None ELSE a.best
  BY <1>4
<1> HIDE DEF c
<1>9. After(State(a), floor, z, s, n) /\ State(a).best = c
  BY SMTT(60), <1>5, <1>6, OtherBest
<1> QED BY <1>7, <1>8, <1>9

\* ... and a continued run finds it there.
LEMMA ResumedAfter ==
    ASSUME NEW s \in Seq(Outcomes), NEW n, NEW a, NEW floor, NEW z, NEW b,
           After(a, floor, z, s, n), IsBest(b, s, n),
           a.best = IF b >= From(n) THEN None ELSE b
    PROVE  After(Resumed(a), floor, z, s, n) /\ Resumed(a).best = b
<1>1. n \in Nat /\ n < Len(s) /\ a.res = Norms(s, n + 1) /\ a.x = n
  BY DEF After
<1>2. From(n) \in 0 .. n /\ a.filled = n - From(n)
      /\ \A i \in From(n) .. n - 1 : a.X[(a.head - (n - i)) % m] = i
  BY WindowIs
<1>3. Len(a.res) = n + 1 /\ ArgMin(a.res) = b /\ b \in 0 .. n
  <2>1. Len(a.res) = n + 1
    BY <1>1, Measured
  <2>2. ArgMin(a.res) = b
    BY <1>1, ArgMinBest
  <2> QED BY <2>1, <2>2 DEF IsBest
<1>4. a.head \in Int
  BY DEF After, Solver
<1> DEFINE i == ArgMin(a.res) - (Len(a.res) - 1 - a.filled)
           c == IF a.best # None THEN a.best
                ELSE IF i = a.filled THEN a.x ELSE a.X[(a.head - a.filled + i) % m]
<1>5. i = b - From(n)
  BY <1>1, <1>2, <1>3
<1>6. Resumed(a) = [a EXCEPT !.best = c]
  BY DEF Resumed
<1> HIDE DEF i
<1>7. c = b
  <2>1. CASE b >= From(n)
    <3>1. a.best = None
      BY <2>1
    <3>2. CASE i = a.filled
      BY <1>1, <1>2, <1>3, <1>5, <3>1, <3>2
    <3>3. CASE i # a.filled
      <4>1. b \in From(n) .. n - 1 /\ a.head - a.filled + i = a.head - (n - b)
        BY <1>1, <1>2, <1>3, <1>4, <1>5, <2>1, <3>3
      <4>2. a.X[(a.head - (n - b)) % m] = b
        BY <1>2, <4>1
      <4> QED BY <3>1, <3>3, <4>1, <4>2
    <3> QED BY <3>2, <3>3
  <2>2. CASE ~(b >= From(n))
    <3>1. a.best = b /\ b # None
      BY <1>3, <2>2, NoneAssumption
    <3> QED BY <3>1
  <2> QED BY <2>1, <2>2
<1> HIDE DEF c
<1>8. c \in Nat \cup {None}
  BY <1>3, <1>7
<1> QED BY <1>6, <1>7, <1>8, OtherBest

\* The next point of the solver is the one the method takes.
LEMMA NextIsMade ==
    ASSUME NEW s \in Seq(Outcomes), NEW n, NEW a, NEW floor, NEW z,
           After(a, floor, z, s, n), IsBest(a.best, s, n)
    PROVE  NextFrom(a) = MadeOf(s, n) /\ Len(a.res) = n + 1
<1>1. n \in Nat /\ n < Len(s) /\ a.x = n /\ a.fallback = FallsBack(s, n)
      /\ a.res = Norms(s, n + 1)
  BY DEF After
<1>2. Window(a) = Between(From(n), n)
  BY WindowIs
<1>3. a.best = BestOf(s, n)
  BY <1>1, BestIs
<1>4. Len(a.res) = n + 1
  BY <1>1, Measured
<1> QED BY <1>1, <1>2, <1>3, <1>4 DEF NextFrom, MadeOf

\* The facts up to map n depend on the measurements up to map n alone.
LEMMA Prefix ==
    ASSUME NEW s, NEW q, NEW n \in Nat, n < Len(s), n < Len(q), Len(s) \in Nat, Len(q) \in Nat,
           \A i \in 1 .. n + 1 : q[i] = s[i]
    PROVE  /\ Floors(q, n) = Floors(s, n)
           /\ StopsAt(q, n) <=> StopsAt(s, n)
           /\ \A b : IsBest(b, s, n) => IsBest(b, q, n)
           /\ \A a, floor, z : After(a, floor, z, s, n) => After(a, floor, z, q, n)
<1>1. \A i \in 0 .. n : i + 1 \in 1 .. n + 1 /\ q[i + 1] = s[i + 1]
  <2>1. \A i \in 0 .. n : i + 1 \in 1 .. n + 1
    OBVIOUS
  <2> QED BY <2>1
<1>2. Floors(q, n) = Floors(s, n)
  <2>1. \A i \in 1 .. n : q[i + 1] = s[i + 1]
    BY <1>1
  <2> QED BY <2>1 DEF Floors
<1>3. StopsAt(q, n) <=> StopsAt(s, n)
  <2>1. n \in 0 .. n
    OBVIOUS
  <2> QED BY <1>1, <1>2, <2>1 DEF StopsAt
<1>4. \A b : IsBest(b, s, n) => IsBest(b, q, n)
  BY <1>1 DEF IsBest
<1>5. Norms(q, n + 1) = Norms(s, n + 1)
  BY DEF Norms
<1>6. \A k \in 1 .. n : High(q, k) <=> High(s, k)
  <2> SUFFICES ASSUME NEW k \in 1 .. n PROVE High(q, k) <=> High(s, k)
    OBVIOUS
  <2>1. k \in 0 .. n /\ \A i \in From(k - 1) .. k - 1 : i \in 0 .. n
    BY DepthAssumption DEF From
  <2> QED BY <1>1, <2>1 DEF High
<1>7. FallsBack(q, n) = FallsBack(s, n)
  <2>1. \A j \in 1 .. n : /\ \A k \in j .. n : k \in 1 .. n
                          /\ j > 1 => j - 1 \in 1 .. n
    OBVIOUS
  <2>2. \A j \in 1 .. n : /\ (\A k \in j .. n : High(q, k)) <=> (\A k \in j .. n : High(s, k))
                          /\ (j > 1 => ~High(q, j - 1)) <=> (j > 1 => ~High(s, j - 1))
    BY <1>6, <2>1
  <2> QED BY <2>2 DEF FallsBack
<1>8. \A a, floor, z : After(a, floor, z, s, n) => After(a, floor, z, q, n)
  BY <1>2, <1>5, <1>7 DEF After
<1> QED BY <1>2, <1>3, <1>4, <1>8

-----------------------------------------------------------------------------
(* Every step preserves the invariant *)

\* Budgets have a largest one, which bounds the maps.
LEMMA LargestBudget == Budgets # {} => Largest \in Nat /\ \A b \in Budgets : b \in Nat /\ b > 1 /\ b <= Largest
<1> SUFFICES ASSUME Budgets # {}
             PROVE  Largest \in Nat /\ \A b \in Budgets : b \in Nat /\ b > 1 /\ b <= Largest
  OBVIOUS
<1>1. Largest \in Budgets /\ \A b \in Budgets : b <= Largest
  BY BudgetsAssumption DEF Largest
<1> QED BY <1>1, BudgetsAssumption

\* The initial state.
LEMMA InitIInv == Init => IInv
<1> SUFFICES ASSUME Init PROVE IInv
  OBVIOUS
<1> USE DEF Init
<1>1. Largest \in Nat /\ Legs \in Nat
  BY LargestBudget, BudgetsAssumption, LegsAssumption
<1>2. StoreOK
  <2>1. <<>> \in Seq(Outcomes) /\ Len(<<>>) = 0
    OBVIOUS
  <2>2. \A t \in Trajectory : truth[t] = <<>> /\ decks[t] = None
    OBVIOUS
  <2>3. truth \in [Trajectory -> Seq(Outcomes)]
    BY <2>1
  <2>4. decks \in [Trajectory -> Deck \cup {None}] /\ snaps \in [Maps -> Trajectory \cup {None}]
    OBVIOUS
  <2>5. \A t \in Trajectory : Len(truth[t]) <= Largest + 1
    BY <1>1, <2>1, <2>2
  <2> QED BY <1>1, <2>2, <2>3, <2>4, <2>5 DEF StoreOK
<1>3. ProcessOK
  BY <1>1 DEF ProcessOK, NoJob
<1>4. SolverOK /\ CheckpointOK /\ CheckpointIsTheLastMap
  BY DEF SolverOK, CheckpointOK, CheckpointIsTheLastMap, NoCarry
<1>5. EndsOK
  <2>1. \A t \in Trajectory : 0 .. Len(truth[t]) - 2 = {}
    OBVIOUS
  <2> QED BY <2>1 DEF EndsOK
<1> QED BY <1>2, <1>3, <1>4, <1>5 DEF IInv

\* What every proof below starts from.
LEMMA Typed ==
    ASSUME IInv
    PROVE  /\ Legs \in Nat \ {0} /\ leg \in 0 .. Legs /\ Trajectory = 1 .. Legs
           /\ \A t \in Trajectory : truth[t] \in Seq(Outcomes) /\ Len(truth[t]) \in Nat
           /\ job.traj \in 0 .. Legs
           /\ place \notin {"idle", "open"} =>
                /\ job.traj \in Trajectory /\ job.budget \in Nat /\ job.budget > 1
                /\ job.budget <= Largest /\ Largest \in Nat
                /\ carry.calls \in Nat
           /\ ckpt # None => ckpt.traj \in Trajectory
           /\ \A e \in ended : e[1] \in Trajectory /\ e[2] \in Nat /\ e[3] \in Verdict
<1> USE DEF IInv, StoreOK, ProcessOK
<1>1. Legs \in Nat \ {0} /\ leg \in 0 .. Legs /\ Trajectory = 1 .. Legs /\ job.traj \in 0 .. Legs
  BY LegsAssumption DEF Trajectory
<1>2. \A t \in Trajectory : truth[t] \in Seq(Outcomes) /\ Len(truth[t]) \in Nat
  OBVIOUS
<1>3. ASSUME place \notin {"idle", "open"}
      PROVE  /\ job.traj \in Trajectory /\ job.budget \in Nat /\ job.budget > 1
             /\ job.budget <= Largest /\ Largest \in Nat
             /\ carry.calls \in Nat
  <2>1. job.budget \in Budgets /\ carry.calls \in 0 .. job.budget + 1 /\ job.traj \in 1 .. leg
    BY <1>3
  <2>2. job.budget \in Nat /\ job.budget > 1 /\ job.budget <= Largest /\ Largest \in Nat
    BY <2>1, LargestBudget
  <2> QED BY <1>1, <2>1, <2>2
<1>4. ckpt # None => ckpt.traj \in Trajectory
  BY <1>1 DEF CheckpointOK
<1>5. \A e \in ended : e[1] \in Trajectory /\ e[2] \in Nat /\ e[3] \in Verdict
  BY DEF Maps
<1> QED BY <1>1, <1>2, <1>3, <1>4, <1>5

\* A step that leaves the measurements and the checkpoint alone.
LEMMA CheckpointFrame ==
    ASSUME IInv, UNCHANGED <<truth, ckpt>>, leg' \in {leg, leg + 1},
           ckpt # None => decks'[ckpt.traj] = decks[ckpt.traj]
    PROVE  CheckpointOK'
<1>1. leg \in Nat
  BY Typed
<1>2. CheckpointOK
  BY DEF IInv
<1>3. \A i : i \in 1 .. leg => i \in 1 .. leg'
  BY <1>1
<1> QED BY <1>2, <1>3 DEF CheckpointOK

\* A step that adds to the measurements of a trajectory, or leaves them, disturbs
\* nothing of what was there.
LEMMA Kept ==
    ASSUME NEW s, NEW q, NEW n \in Nat, n < Len(s), Len(s) \in Nat, Len(q) \in Nat,
           Len(s) <= Len(q), \A i \in 1 .. Len(s) : q[i] = s[i]
    PROVE  /\ n < Len(q) /\ q[n + 1] = s[n + 1]
           /\ Floors(q, n) = Floors(s, n)
           /\ StopsAt(q, n) <=> StopsAt(s, n)
           /\ \A b : IsBest(b, s, n) => IsBest(b, q, n)
           /\ \A a, floor, z : After(a, floor, z, s, n) => After(a, floor, z, q, n)
<1>1. n < Len(q) /\ n + 1 \in 1 .. Len(s) /\ \A i \in 1 .. n + 1 : i \in 1 .. Len(s)
  OBVIOUS
<1> QED BY <1>1, Prefix

\* A process is started: a new one, on no trajectory.
LEMMA LaunchStep ==
    ASSUME IInv, NEW d \in Deck, NEW b \in Budgets, NEW own \in BOOLEAN, Launch(d, b, own)
    PROVE  IInv'
<1> USE DEF Launch, files
<1>1. leg \in Nat /\ Legs \in Nat /\ leg' = leg + 1 /\ leg' \in 1 .. Legs /\ leg' \in Trajectory
  BY Typed DEF Trajectory
<1>2. StoreOK'
  BY <1>1 DEF IInv, StoreOK
<1>3. truth[leg'] = <<>> /\ decks[leg'] = None
  BY <1>1 DEF IInv, StoreOK
<1>4. job' = [deck |-> d, budget |-> b, own |-> own, traj |-> 0] /\ job.traj = 0
      /\ acc = None /\ carry = NoCarry
  BY DEF IInv, ProcessOK
<1>5. \A e \in ended : e[1] # leg'
  <2>1. \A e \in ended : e[1] <= leg /\ e[1] \in Trajectory
    BY Typed DEF IInv, EndsOK
  <2> QED BY <1>1, <2>1 DEF Trajectory
<1>6. ckpt # None => ckpt.traj # leg'
  BY <1>1 DEF IInv, CheckpointOK
<1>7. ProcessOK'
  <2>1. job' \in [deck : Deck \cup {None}, budget : Budgets \cup {0}, own : BOOLEAN,
                  traj : 0 .. Legs]
    BY <1>1, <1>4
  <2> QED BY <1>1, <1>3, <1>4, <1>5, <1>6, <2>1 DEF ProcessOK
<1>8. SolverOK' /\ CheckpointIsTheLastMap'
  BY <1>4 DEF SolverOK, CheckpointIsTheLastMap, NoCarry
<1>9. CheckpointOK'
  BY <1>1, CheckpointFrame
<1>10. EndsOK'
  <2>1. \A e \in ended : e[1] \in Trajectory /\ e[1] # 0 /\ (e[1] <= leg => e[1] <= leg')
    BY <1>1, Typed DEF Trajectory
  <2> QED BY <1>4, <2>1 DEF IInv, EndsOK
<1> QED BY <1>2, <1>7, <1>8, <1>9, <1>10 DEF IInv

\* The end of a process leaves the files as its last step left them.
LEMMA GoneStep ==
    ASSUME IInv, Gone, UNCHANGED <<truth, decks, leg>>,
           ckpt' \in {ckpt, None}, snaps' \in [Maps -> Trajectory \cup {None}],
           \/ UNCHANGED ended
           \/ place \notin {"idle", "open"}
              /\ \E v \in Verdict :
                   /\ ended' = ended \cup {<<job.traj, Latest, v>>}
                   /\ Latest \in Maps /\ Latest < Len(truth[job.traj])
                   /\ v = "converged" => truth[job.traj][Latest + 1].converged /\ ckpt' = None
                   /\ v = "stalled" => /\ ~truth[job.traj][Latest + 1].converged
                                       /\ Flat(Floors(truth[job.traj], Latest))
                   /\ v = "budget" => ~StopsAt(truth[job.traj], Latest)
    PROVE  IInv'
<1> USE DEF Gone
<1>1. ended' \subseteq Trajectory \X Maps \X Verdict
  BY Typed DEF IInv, StoreOK
<1>2. StoreOK'
  BY <1>1 DEF IInv, StoreOK
<1>3. ProcessOK'
  <2>1. NoJob \in [deck : Deck \cup {None}, budget : Budgets \cup {0}, own : BOOLEAN,
                   traj : 0 .. Legs] /\ NoJob.traj = 0
    <3>1. 0 \in 0 .. Legs
      BY Typed
    <3>2. NoJob.deck \in Deck \cup {None}
      BY DEF NoJob
    <3> QED BY <3>1 DEF NoJob
  <2> QED BY <2>1 DEF ProcessOK
<1>4. SolverOK' /\ CheckpointIsTheLastMap'
  BY DEF SolverOK, CheckpointIsTheLastMap, NoCarry
<1>5. CheckpointOK'
  <2>1. CASE ckpt' = ckpt
    BY <2>1, CheckpointFrame
  <2>2. CASE ckpt' = None
    BY <2>2 DEF CheckpointOK
  <2> QED BY <2>1, <2>2
<1>6. EndsOK'
  <2>1. \A t \in Trajectory : \A n \in 0 .. Len(truth[t]) - 2 : ~StopsAt(truth[t], n)
    BY DEF IInv, EndsOK
  <2>2. job'.traj = 0
    BY DEF NoJob
  <2>3. ASSUME NEW e \in ended
        PROVE  /\ e[1] <= leg /\ e[2] < Len(truth[e[1]])
               /\ e[3] = "converged" => truth[e[1]][e[2] + 1].converged
               /\ e[3] = "stalled" => /\ ~truth[e[1]][e[2] + 1].converged
                                      /\ Flat(Floors(truth[e[1]], e[2]))
               /\ e[3] = "budget" => ~StopsAt(truth[e[1]], e[2])
               /\ e[3] = "converged" => e[1] # 0 /\ (ckpt' # None => ckpt'.traj # e[1])
    <3>1. e[1] # 0
      BY Typed
    <3> QED BY <3>1 DEF IInv, EndsOK
  <2>4. ASSUME ended' # ended, NEW e \in ended', e \notin ended
        PROVE  /\ e[1] <= leg /\ e[2] < Len(truth[e[1]])
               /\ e[3] = "converged" => truth[e[1]][e[2] + 1].converged
               /\ e[3] = "stalled" => /\ ~truth[e[1]][e[2] + 1].converged
                                      /\ Flat(Floors(truth[e[1]], e[2]))
               /\ e[3] = "budget" => ~StopsAt(truth[e[1]], e[2])
               /\ e[3] = "converged" => e[1] # 0 /\ (ckpt' # None => ckpt'.traj # e[1])
    <3>1. PICK v \in Verdict :
                   /\ ended' = ended \cup {<<job.traj, Latest, v>>}
                   /\ Latest \in Maps /\ Latest < Len(truth[job.traj])
                   /\ v = "converged" => truth[job.traj][Latest + 1].converged /\ ckpt' = None
                   /\ v = "stalled" => /\ ~truth[job.traj][Latest + 1].converged
                                       /\ Flat(Floors(truth[job.traj], Latest))
                   /\ v = "budget" => ~StopsAt(truth[job.traj], Latest)
      BY <2>4
    <3>2. e = <<job.traj, Latest, v>> /\ place \notin {"idle", "open"}
      BY <2>4, <3>1
    <3>3. job.traj \in 1 .. leg /\ job.traj # 0 /\ job.traj <= leg
      <4>1. job.traj \in 1 .. leg
        BY <3>2 DEF IInv, ProcessOK
      <4>2. leg \in Nat
        BY Typed
      <4> QED BY <4>1, <4>2
    <3>4. e[1] = job.traj /\ e[2] = Latest /\ e[3] = v
      BY <3>2
    <3> QED BY <3>1, <3>3, <3>4
  <2> QED BY <2>1, <2>2, <2>3, <2>4 DEF EndsOK
<1> QED BY <1>2, <1>3, <1>4, <1>5, <1>6 DEF IInv

\* A process that ends early: its budget is behind the checkpoint, or it is killed.
LEMMA RefuseOrKill == ASSUME IInv, Refuse \/ Kill PROVE IInv'
<1>1. snaps \in [Maps -> Trajectory \cup {None}]
  BY DEF IInv, StoreOK
<1> QED BY <1>1, GoneStep DEF Refuse, Kill, files

\* The checkpoint is continued: the solver is where the checkpoint's was.
LEMMA ResumeStep == ASSUME IInv, Resume PROVE IInv'
<1> DEFINE t == ckpt.traj
           s == truth[t]
           n == Len(ckpt.acc.res) - 1
<1>1. /\ place = "open" /\ ckpt # None /\ ckpt.deck = job.deck
      /\ Len(ckpt.acc.res) <= job.budget
      /\ job' = [job EXCEPT !.traj = t] /\ acc' = Resumed(ckpt.acc)
      /\ carry' = [calls |-> Len(ckpt.acc.res), z |-> ckpt.z, floor |-> ckpt.floor]
      /\ place' = "evaluate" /\ UNCHANGED <<truth, decks, leg, ckpt, seed, snaps, ended>>
  BY DEF Resume, Continues, files
<1>2. t \in Trajectory /\ t \in 1 .. leg /\ t \in 0 .. Legs /\ s \in Seq(Outcomes) /\ leg \in 0 .. Legs
      /\ Len(s) \in Nat
  BY <1>1, Typed DEF IInv, CheckpointOK
<1>3. /\ ckpt.deck = decks[t] /\ After(ckpt.acc, ckpt.floor, ckpt.z, s, n) /\ ~StopsAt(s, n)
      /\ \E b \in 0 .. n : IsBest(b, s, n) /\ ckpt.acc.best = IF b >= From(n) THEN None ELSE b
  BY <1>1 DEF IInv, CheckpointOK
<1>4. n \in Nat /\ n < Len(s) /\ Len(ckpt.acc.res) = n + 1
  <2>1. n \in Nat /\ n < Len(s) /\ ckpt.acc.res = Norms(s, n + 1)
    BY <1>3 DEF After
  <2>2. Len(Norms(s, n + 1)) = n + 1
    <3> HIDE DEF s, n
    <3> QED BY <1>2, <2>1, Measured
  <2>3. Len(ckpt.acc.res) = n + 1
    <3> HIDE DEF n
    <3> QED BY <2>1, <2>2
  <2> QED BY <2>1, <2>3
<1>5. PICK b \in 0 .. n : IsBest(b, s, n) /\ ckpt.acc.best = IF b >= From(n) THEN None ELSE b
  BY <1>3
<1>6. After(Resumed(ckpt.acc), ckpt.floor, ckpt.z, s, n) /\ Resumed(ckpt.acc).best = b
  <2> HIDE DEF s, n
  <2> QED BY <1>2, <1>3, <1>5, ResumedAfter
<1>7. carry'.calls = n + 1 /\ carry'.z = ckpt.z /\ carry'.floor = ckpt.floor /\ Latest' = n
  BY <1>1, <1>4 DEF Latest
<1>8. job'.traj = t /\ job'.deck = job.deck /\ job'.budget = job.budget
      /\ job' \in [deck : Deck \cup {None}, budget : Budgets \cup {0}, own : BOOLEAN,
                   traj : 0 .. Legs]
      /\ job.deck \in Deck /\ job.budget \in Budgets /\ job.budget \in Nat
  <2>1. job \in [deck : Deck \cup {None}, budget : Budgets \cup {0}, own : BOOLEAN,
                 traj : 0 .. Legs] /\ job.deck \in Deck /\ job.budget \in Budgets
    BY <1>1 DEF IInv, ProcessOK
  <2>2. job.budget \in Nat
    BY <2>1, LargestBudget
  <2> HIDE DEF t
  <2> QED BY <1>1, <1>2, <2>1, <2>2
<1>9. StoreOK'
  BY <1>1 DEF IInv, StoreOK
<1>10. ProcessOK'
  <2>1. carry'.calls \in 0 .. job'.budget + 1 /\ carry'.calls <= job'.budget /\ carry'.calls > 0
        /\ ~(carry'.calls = 0)
    BY <1>1, <1>4, <1>7, <1>8
  <2>2. decks'[job'.traj] = job'.deck
    BY <1>1, <1>3, <1>8
  <2>3. job'.traj \in 1 .. leg'
    BY <1>1, <1>2, <1>8
  <2>4. place' = "evaluate"
    BY <1>1
  <2>5. place' \notin {"idle", "open"} /\ place' \in Running
    BY <2>4 DEF Running
  <2>6. job'.deck \in Deck /\ job'.budget \in Budgets
    BY <1>8
  <2> QED BY <1>8, <2>1, <2>2, <2>3, <2>4, <2>5, <2>6 DEF ProcessOK
<1>11. SolverOK'
  <2>1. ~s[n + 1].converged
    BY <1>3 DEF StopsAt
  <2>2. truth'[job'.traj] = s
    BY <1>1, <1>8
  <2> HIDE DEF s, n, t
  <2>3. truth'[job'.traj][carry'.calls].converged = s[n + 1].converged
    BY <1>7, <2>2
  <2> QED BY <1>1, <1>3, <1>5, <1>6, <1>7, <2>1, <2>2, <2>3 DEF SolverOK
<1>12. CheckpointOK'
  BY <1>1, CheckpointFrame
<1>13. CheckpointIsTheLastMap'
  BY <1>1, <1>8 DEF CheckpointIsTheLastMap
<1>14. EndsOK'
  BY <1>1, <1>8 DEF IInv, EndsOK
<1> QED BY <1>9, <1>10, <1>11, <1>12, <1>13, <1>14 DEF IInv

\* A new trajectory, of the leg that has just begun.
LEMMA StartFreshStep == ASSUME IInv, StartFresh PROVE IInv'
<1>1. /\ place = "open" /\ job' = [job EXCEPT !.traj = leg]
      /\ decks' = [decks EXCEPT ![leg] = job.deck] /\ acc' = None /\ carry' = NoCarry
      /\ snaps' = [n \in Maps |-> None] /\ place' = "evaluate"
      /\ UNCHANGED <<truth, leg, ckpt, seed, ended>>
  BY DEF StartFresh
<1>2. /\ leg \in Trajectory /\ truth[leg] = <<>> /\ job.deck \in Deck /\ job.budget \in Budgets
      /\ \A e \in ended : e[1] # leg
      /\ ckpt # None => ckpt.traj # leg
      /\ job \in [deck : Deck \cup {None}, budget : Budgets \cup {0}, own : BOOLEAN,
                  traj : 0 .. Legs]
  BY <1>1 DEF IInv, ProcessOK
<1>3. leg \in 1 .. leg /\ leg \in 0 .. Legs /\ job.budget \in Nat
  BY <1>2, Typed, LargestBudget
<1>4. StoreOK'
  <2>1. decks' \in [Trajectory -> Deck \cup {None}] /\ snaps' \in [Maps -> Trajectory \cup {None}]
    BY <1>1, <1>2 DEF IInv, StoreOK
  <2>2. \A t \in Trajectory : t > leg => decks'[t] = decks[t]
    BY <1>1, <1>3 DEF IInv, StoreOK
  <2> QED BY <1>1, <2>1, <2>2 DEF IInv, StoreOK
<1>5. job'.traj = leg /\ job'.deck = job.deck /\ job'.budget = job.budget
      /\ job' \in [deck : Deck \cup {None}, budget : Budgets \cup {0}, own : BOOLEAN,
                   traj : 0 .. Legs]
  BY <1>1, <1>2, <1>3
<1>6. decks'[leg] = job.deck
  BY <1>1, <1>2 DEF IInv, StoreOK
<1>7. ProcessOK'
  <2>1. carry'.calls = 0 /\ carry'.calls \in 0 .. job'.budget + 1 /\ carry'.calls <= job'.budget
    BY <1>1, <1>3, <1>5 DEF NoCarry
  <2>2. place' \in Running /\ place' \notin {"idle", "open"}
    BY <1>1 DEF Running
  <2> QED BY <1>1, <1>2, <1>3, <1>5, <1>6, <2>1, <2>2 DEF ProcessOK
<1>8. SolverOK' /\ CheckpointIsTheLastMap'
  BY <1>1 DEF SolverOK, CheckpointIsTheLastMap, NoCarry
<1>9. CheckpointOK'
  <2>1. ckpt # None => decks'[ckpt.traj] = decks[ckpt.traj]
    BY <1>1, <1>2, Typed DEF IInv, StoreOK
  <2> QED BY <1>1, <2>1, CheckpointFrame
<1>10. EndsOK'
  BY <1>1, <1>2, <1>5 DEF IInv, EndsOK
<1> QED BY <1>4, <1>7, <1>8, <1>9, <1>10 DEF IInv

\* A process past a map has its measurement behind it.
LEMMA AtWork ==
    ASSUME IInv, place \notin {"idle", "open"}, carry.calls > 0
    PROVE  LET s == truth[job.traj] IN
           /\ s \in Seq(Outcomes) /\ Len(s) \in Nat
           /\ carry.calls \in Nat /\ Latest \in Nat /\ Latest + 1 = carry.calls /\ Latest < Len(s)
           /\ Latest \in Maps /\ Latest <= job.budget /\ job.budget \in Nat
           /\ After(acc, carry.floor, carry.z, s, Latest) /\ IsBest(acc.best, s, Latest)
           /\ carry.floor = Floors(s, Latest)
           /\ s[Latest + 1].converged <=> place \in {"converged", "terminal"}
           /\ job.traj \in Trajectory
<1>1. carry.calls \in Nat /\ carry.calls \in 0 .. job.budget + 1 /\ job.budget \in Nat
      /\ job.budget <= Largest /\ Largest \in Nat /\ job.traj \in Trajectory
  BY Typed DEF IInv, ProcessOK
<1>2. Latest \in Nat /\ Latest + 1 = carry.calls /\ Latest <= job.budget /\ Latest \in Maps
  BY <1>1 DEF Latest, Maps
<1>3. truth[job.traj] \in Seq(Outcomes) /\ Len(truth[job.traj]) \in Nat
  BY <1>1, Typed
<1>4. SolverOK
  BY DEF IInv
<1>5. /\ After(acc, carry.floor, carry.z, truth[job.traj], Latest)
      /\ IsBest(acc.best, truth[job.traj], Latest)
      /\ place \in {"converged", "terminal"} <=> truth[job.traj][carry.calls].converged
  BY <1>4 DEF SolverOK
<1>6. Latest < Len(truth[job.traj]) /\ carry.floor = Floors(truth[job.traj], Latest)
  BY <1>5 DEF After
<1> QED BY <1>1, <1>2, <1>3, <1>5, <1>6

\* The seed, the map's file and the verdict of the stall rule and of the budget.
LEMMA WriteSeedStep == ASSUME IInv, WriteSeed PROVE IInv'
<1>1. /\ place = "seed" /\ snaps' = [snaps EXCEPT ![Latest] = job.traj]
      /\ UNCHANGED <<truth, decks, leg, ckpt>>
  BY DEF WriteSeed
<1>2. place \notin {"idle", "open"} /\ carry.calls > 0
  BY <1>1 DEF IInv, ProcessOK
<1> DEFINE s == truth[job.traj]
<1>3. /\ Latest \in Nat /\ Latest \in Maps /\ Latest < Len(s) /\ Latest + 1 = carry.calls
      /\ job.budget \in Nat /\ Latest <= job.budget /\ carry.floor = Floors(s, Latest)
      /\ ~s[Latest + 1].converged /\ job.traj \in Trajectory
  BY <1>1, <1>2, AtWork
<1>4. snaps' \in [Maps -> Trajectory \cup {None}]
  BY <1>1, <1>3 DEF IInv, StoreOK
<1>5. CASE Flat(carry.floor)
  <2>1. Gone /\ ended' = ended \cup {<<job.traj, Latest, "stalled">>}
    BY <1>5 DEF WriteSeed, Ends
  <2>2. Flat(Floors(s, Latest)) /\ "stalled" \in Verdict
    BY <1>3, <1>5 DEF Verdict
  <2> QED BY <1>1, <1>2, <1>3, <1>4, <2>1, <2>2, GoneStep
<1>6. CASE ~Flat(carry.floor) /\ Latest >= job.budget
  <2>1. Gone /\ ended' = ended \cup {<<job.traj, Latest, "budget">>}
    BY <1>6 DEF WriteSeed, Ends
  <2>2. ~StopsAt(s, Latest) /\ "budget" \in Verdict
    BY <1>3, <1>6 DEF Verdict, StopsAt
  <2> QED BY <1>1, <1>2, <1>3, <1>4, <2>1, <2>2, GoneStep
<1>7. CASE ~Flat(carry.floor) /\ ~(Latest >= job.budget)
  <2>1. place' = "checkpoint" /\ UNCHANGED <<ended, job, acc, carry>>
    BY <1>7 DEF WriteSeed
  <2>2. StoreOK'
    BY <1>1, <1>4, <2>1 DEF IInv, StoreOK
  <2>3. ProcessOK'
    <3>1. carry.calls <= job.budget
      BY <1>3, <1>7
    <3> QED BY <1>1, <2>1, <3>1 DEF IInv, ProcessOK, Running
  <2>4. SolverOK'
    <3>1. ~StopsAt(s, Latest)
      BY <1>3, <1>7 DEF StopsAt
    <3>2. Latest' = Latest
      BY <2>1 DEF Latest
    <3> QED BY <1>1, <2>1, <3>1, <3>2 DEF IInv, SolverOK
  <2>5. CheckpointOK'
    BY <1>1, <2>1, CheckpointFrame
  <2>6. CheckpointIsTheLastMap'
    BY <2>1 DEF CheckpointIsTheLastMap
  <2>7. EndsOK'
    BY <1>1, <2>1 DEF IInv, EndsOK
  <2> QED BY <2>2, <2>3, <2>4, <2>5, <2>6, <2>7 DEF IInv
<1> QED BY <1>5, <1>6, <1>7

\* The checkpoint of the map, or none.
LEMMA CheckpointStep == ASSUME IInv, Checkpoint \/ CheckpointFails PROVE IInv'
<1>1. /\ place = "checkpoint" /\ place' = "evaluate"
      /\ UNCHANGED <<truth, decks, leg, job, acc, carry, seed, snaps, ended>>
      /\ \/ ckpt' = None
         \/ ckpt' = [acc |-> State(acc), z |-> carry.z, floor |-> carry.floor,
                     deck |-> job.deck, traj |-> job.traj]
  BY DEF Checkpoint, CheckpointFails
<1>2. place \notin {"idle", "open"} /\ carry.calls > 0 /\ carry.calls <= job.budget
      /\ decks[job.traj] = job.deck /\ job.traj \in 1 .. leg
  BY <1>1 DEF IInv, ProcessOK
<1> DEFINE s == truth[job.traj]
<1>3. /\ s \in Seq(Outcomes) /\ Latest \in Nat /\ Latest < Len(s) /\ Latest + 1 = carry.calls
      /\ After(acc, carry.floor, carry.z, s, Latest) /\ IsBest(acc.best, s, Latest)
  BY <1>2, AtWork
<1>4. ~StopsAt(s, Latest)
  BY <1>1, <1>2 DEF IInv, SolverOK
<1>5. StoreOK'
  BY <1>1 DEF IInv, StoreOK
<1>6. ProcessOK'
  BY <1>1, <1>2 DEF IInv, ProcessOK, Running
<1>7. SolverOK'
  <2>1. Latest' = Latest
    BY <1>1 DEF Latest
  <2> QED BY <1>1, <1>4, <2>1 DEF IInv, SolverOK
<1>8. /\ After(State(acc), carry.floor, carry.z, s, Latest)
      /\ State(acc).best = IF acc.best >= From(Latest) THEN None ELSE acc.best
      /\ Len(State(acc).res) = Latest + 1
  <2> HIDE DEF s
  <2>1. /\ After(State(acc), carry.floor, carry.z, s, Latest)
        /\ State(acc).best = IF acc.best >= From(Latest) THEN None ELSE acc.best
        /\ State(acc).res = acc.res
    BY <1>3, StateAfter
  <2>2. Len(acc.res) = Latest + 1
    BY <1>3, NextIsMade
  <2> QED BY <2>1, <2>2
<1>9. CASE ckpt' = None
  <2>1. CheckpointOK' /\ CheckpointIsTheLastMap'
    BY <1>9 DEF CheckpointOK, CheckpointIsTheLastMap
  <2>2. EndsOK'
    BY <1>1, <1>9 DEF IInv, EndsOK
  <2> QED BY <1>5, <1>6, <1>7, <2>1, <2>2 DEF IInv
<1>10. CASE ckpt' = [acc |-> State(acc), z |-> carry.z, floor |-> carry.floor,
                     deck |-> job.deck, traj |-> job.traj]
  <2>1. /\ ckpt'.acc = State(acc) /\ ckpt'.z = carry.z /\ ckpt'.floor = carry.floor
        /\ ckpt'.deck = job.deck /\ ckpt'.traj = job.traj
    BY <1>10
  <2>2. Len(ckpt'.acc.res) - 1 = Latest
    BY <1>3, <1>8, <2>1
  <2>3. acc.best \in 0 .. Latest
    BY <1>3 DEF IsBest
  <2>4. CheckpointOK'
    <3>1. truth'[ckpt'.traj] = s /\ decks'[ckpt'.traj] = ckpt'.deck /\ ckpt'.traj \in 1 .. leg'
      BY <1>1, <1>2, <2>1
    <3> HIDE DEF s
    <3>2. After(ckpt'.acc, ckpt'.floor, ckpt'.z, truth'[ckpt'.traj], Len(ckpt'.acc.res) - 1)
      BY <1>8, <2>1, <2>2, <3>1
    <3>3. \E b \in 0 .. Len(ckpt'.acc.res) - 1 :
            /\ IsBest(b, truth'[ckpt'.traj], Len(ckpt'.acc.res) - 1)
            /\ ckpt'.acc.best = IF b >= From(Len(ckpt'.acc.res) - 1) THEN None ELSE b
      BY <1>3, <1>8, <2>1, <2>2, <2>3, <3>1
    <3>4. ~StopsAt(truth'[ckpt'.traj], Len(ckpt'.acc.res) - 1)
      BY <1>4, <2>2, <3>1
    <3> QED BY <3>1, <3>2, <3>3, <3>4 DEF CheckpointOK
  <2>5. CheckpointIsTheLastMap'
    BY <1>1, <1>3, <1>8, <2>1 DEF CheckpointIsTheLastMap
  <2>6. EndsOK'
    BY <1>1, <2>1 DEF IInv, EndsOK
  <2> QED BY <1>5, <1>6, <1>7, <2>4, <2>5, <2>6 DEF IInv
<1> QED BY <1>1, <1>9, <1>10

\* The converged map's file.
LEMMA TerminalStep == ASSUME IInv, Terminal PROVE IInv'
<1>1. /\ place = "converged" /\ place' = "terminal"
      /\ snaps' = [snaps EXCEPT ![Latest] = job.traj]
      /\ UNCHANGED <<truth, decks, leg, job, acc, carry, ckpt, seed, ended>>
  BY DEF Terminal
<1>2. place \notin {"idle", "open"} /\ carry.calls > 0
  BY <1>1 DEF IInv, ProcessOK
<1>3. Latest \in Maps /\ job.traj \in Trajectory
  BY <1>2, AtWork
<1>4. StoreOK'
  BY <1>1, <1>3 DEF IInv, StoreOK
<1>5. ProcessOK'
  BY <1>1, <1>2 DEF IInv, ProcessOK, Running
<1>6. SolverOK'
  <2>1. Latest' = Latest
    BY <1>1 DEF Latest
  <2> QED BY <1>1, <2>1 DEF IInv, SolverOK
<1>7. CheckpointOK' /\ CheckpointIsTheLastMap'
  BY <1>1, CheckpointFrame DEF CheckpointIsTheLastMap
<1>8. EndsOK'
  BY <1>1 DEF IInv, EndsOK
<1> QED BY <1>4, <1>5, <1>6, <1>7, <1>8 DEF IInv

\* The end of a converged run takes its checkpoint with it.
LEMMA RetireStep == ASSUME IInv, Retire PROVE IInv'
<1>1. /\ place = "terminal" /\ ended' = ended \cup {<<job.traj, Latest, "converged">>}
      /\ ckpt' = None /\ Gone /\ UNCHANGED <<truth, decks, leg, seed, snaps>>
  BY DEF Retire, Ends
<1>2. place \notin {"idle", "open"} /\ carry.calls > 0
  BY <1>1 DEF IInv, ProcessOK
<1>3. Latest \in Maps /\ Latest < Len(truth[job.traj]) /\ truth[job.traj][Latest + 1].converged
  BY <1>1, <1>2, AtWork
<1>4. snaps' \in [Maps -> Trajectory \cup {None}] /\ "converged" \in Verdict
  BY <1>1 DEF IInv, StoreOK, Verdict
<1> QED BY <1>1, <1>2, <1>3, <1>4, GoneStep

\* The point a process evaluates is the next one of its trajectory, and what it
\* measures there is what the trajectory's next measurement is, old or new.
LEMMA EvaluateFacts ==
    ASSUME IInv, NEW out \in Outcomes, Evaluate(out)
    PROVE  LET n == carry.calls
               s == truth[job.traj]
               q == truth'[job.traj]
           IN  /\ n \in Nat /\ n <= job.budget /\ n <= Len(s) /\ NextPair = n
               /\ q \in Seq(Outcomes) /\ Len(q) = (IF n < Len(s) THEN Len(s) ELSE n + 1)
               /\ q[n + 1] = out /\ \A i \in 1 .. Len(s) : q[i] = s[i]
               /\ truth' \in [Trajectory -> Seq(Outcomes)]
               /\ \A t \in Trajectory : t # job.traj => truth'[t] = truth[t]
               /\ n > 0 => ~StopsAt(s, n - 1)
<1> DEFINE n == carry.calls
           s == truth[job.traj]
           q == truth'[job.traj]
<1>1. place = "evaluate" /\ place \notin {"idle", "open"}
  BY DEF Evaluate
<1>2. /\ n \in Nat /\ n <= job.budget /\ job.traj \in Trajectory /\ s \in Seq(Outcomes)
      /\ Len(s) \in Nat /\ decks[job.traj] = job.deck
      /\ truth \in [Trajectory -> Seq(Outcomes)]
  BY <1>1, Typed DEF IInv, ProcessOK, StoreOK
<1>3. NextPair = n /\ n <= Len(s) /\ (n > 0 => ~StopsAt(s, n - 1))
  <2>1. CASE n = 0
    BY <1>2, <2>1 DEF NextPair
  <2>2. CASE n # 0
    <3>1. n > 0
      BY <1>2, <2>2
    <3>2. /\ Latest \in Nat /\ Latest + 1 = n /\ Latest < Len(s)
          /\ After(acc, carry.floor, carry.z, s, Latest) /\ IsBest(acc.best, s, Latest)
      BY <1>1, <3>1, AtWork
    <3>3. NextFrom(acc) = MadeOf(s, Latest) /\ Len(acc.res) = Latest + 1
      <4> HIDE DEF s
      <4> QED BY <1>2, <3>2, NextIsMade
    <3>4. carry.z = Latest
      BY <3>2 DEF After
    <3>5. n - 1 = Latest
      BY <1>2, <3>2
    <3>6. NextPair = n
      BY <1>2, <2>2, <3>2, <3>3, <3>4, <3>5 DEF NextPair
    <3>7. ~StopsAt(s, Latest)
      BY <1>1, <3>1 DEF IInv, SolverOK
    <3> QED BY <1>2, <3>2, <3>5, <3>6, <3>7
  <2> QED BY <2>1, <2>2
<1>4. CASE n < Len(s)
  <2>1. truth' = truth /\ out = s[n + 1]
    BY <1>3, <1>4 DEF Evaluate
  <2> QED BY <1>2, <1>3, <1>4, <2>1
<1>5. CASE ~(n < Len(s))
  <2>1. truth' = [truth EXCEPT ![job.traj] = Append(s, out)]
    BY <1>3, <1>5 DEF Evaluate
  <2>2. Len(s) = n
    BY <1>2, <1>3, <1>5
  <2>3. q = Append(s, out)
    BY <1>2, <2>1
  <2>4. /\ Append(s, out) \in Seq(Outcomes) /\ Len(Append(s, out)) = n + 1
        /\ Append(s, out)[n + 1] = out /\ \A i \in 1 .. Len(s) : Append(s, out)[i] = s[i]
    <3> HIDE DEF s, n
    <3> QED BY <1>2, <2>2, AppendProperties
  <2>5. truth' \in [Trajectory -> Seq(Outcomes)]
    BY <1>2, <2>1, <2>4
  <2>6. \A t \in Trajectory : t # job.traj => truth'[t] = truth[t]
    BY <1>2, <2>1
  <2> HIDE DEF n, s, q
  <2>7. q \in Seq(Outcomes) /\ Len(q) = n + 1 /\ q[n + 1] = out /\ \A i \in 1 .. Len(s) : q[i] = s[i]
    BY <2>3, <2>4
  <2> QED BY <1>2, <1>3, <1>5, <2>5, <2>6, <2>7 DEF n, s, q
<1> QED BY <1>4, <1>5

\* The map is evaluated: the solver and the trajectory go one measurement on.
LEMMA EvaluateStep == ASSUME IInv, NEW out \in Outcomes, Evaluate(out) PROVE IInv'
<1> DEFINE n == carry.calls
           t == job.traj
           s == truth[t]
           q == truth'[t]
<1>1. /\ place = "evaluate" /\ place' = (IF out.converged THEN "converged" ELSE "seed")
      /\ UNCHANGED <<decks, leg, job, ckpt, seed, snaps, ended>>
  BY DEF Evaluate, files
<1>2. /\ n \in Nat /\ n <= job.budget /\ n <= Len(s) /\ NextPair = n
      /\ q \in Seq(Outcomes) /\ Len(q) = (IF n < Len(s) THEN Len(s) ELSE n + 1)
      /\ q[n + 1] = out /\ \A i \in 1 .. Len(s) : q[i] = s[i]
      /\ truth' \in [Trajectory -> Seq(Outcomes)]
      /\ \A u \in Trajectory : u # t => truth'[u] = truth[u]
      /\ n > 0 => ~StopsAt(s, n - 1)
  BY EvaluateFacts
<1>3. /\ t \in Trajectory /\ s \in Seq(Outcomes) /\ Len(s) \in Nat /\ Len(q) \in Nat
      /\ job.budget \in Nat /\ job.budget <= Largest /\ Largest \in Nat /\ t \in 1 .. leg
      /\ leg \in Nat
  <2>1. t \in 1 .. leg
    BY <1>1 DEF IInv, ProcessOK
  <2> QED BY <1>1, <1>2, <2>1, Typed
<1>4. /\ acc' = (IF n = 0 THEN Fresh(n, out.norm) ELSE Observed(acc, n, out.norm))
      /\ carry' = [calls |-> n + 1, z |-> n,
                   floor |-> IF n = 0 THEN <<>> ELSE Append(carry.floor, out.spectral)]
  BY <1>2 DEF Evaluate
<1>5. n < Len(q) /\ Len(s) <= Len(q)
  <2> HIDE DEF n, s, q
  <2> QED BY <1>2, <1>3
<1>6. \A u \in Trajectory : /\ Len(truth[u]) \in Nat /\ Len(truth'[u]) \in Nat
                            /\ Len(truth[u]) <= Len(truth'[u])
                            /\ \A i \in 1 .. Len(truth[u]) : truth'[u][i] = truth[u][i]
  <2> SUFFICES ASSUME NEW u \in Trajectory
               PROVE  /\ Len(truth[u]) \in Nat /\ Len(truth'[u]) \in Nat
                      /\ Len(truth[u]) <= Len(truth'[u])
                      /\ \A i \in 1 .. Len(truth[u]) : truth'[u][i] = truth[u][i]
    OBVIOUS
  <2>1. CASE u = t
    <3>1. truth[u] = s /\ truth'[u] = q
      BY <2>1
    <3> HIDE DEF n, t, s, q
    <3> QED BY <1>2, <1>3, <1>5, <3>1
  <2>2. CASE u # t
    <3>1. truth'[u] = truth[u]
      BY <1>2, <2>2
    <3>2. Len(truth[u]) \in Nat
      BY Typed
    <3> QED BY <3>1, <3>2
  <2> QED BY <2>1, <2>2
<1>7. StoreOK'
  <2>1. ASSUME NEW u \in Trajectory
        PROVE  Len(truth'[u]) <= Largest + 1 /\ (u > leg => truth'[u] = <<>> /\ decks[u] = None)
    <3>1. Len(truth[u]) <= Largest + 1 /\ (u > leg => truth[u] = <<>> /\ decks[u] = None)
      BY DEF IInv, StoreOK
    <3>2. CASE u = t
      <4>1. ~(u > leg)
        BY <1>3, <3>2
      <4>2. Len(q) <= Largest + 1
        <5>1. Len(s) <= Largest + 1
          BY <3>1, <3>2
        <5> HIDE DEF n, s, q
        <5> QED BY <1>2, <1>3, <5>1
      <4> QED BY <3>2, <4>1, <4>2
    <3>3. CASE u # t
      BY <1>2, <3>1, <3>3
    <3> QED BY <3>2, <3>3
  <2> QED BY <1>1, <1>2, <2>1 DEF IInv, StoreOK
<1>8. carry'.calls = n + 1 /\ carry'.z = n /\ Latest' = n
      /\ carry'.floor = IF n = 0 THEN <<>> ELSE Append(carry.floor, out.spectral)
  <2>1. carry'.calls = n + 1
    BY <1>4
  <2>2. Latest' = n
    <3> HIDE DEF n
    <3> QED BY <1>2, <2>1 DEF Latest
  <2> QED BY <1>4, <2>1, <2>2
<1>9. ProcessOK'
  <2>1. carry'.calls \in 0 .. job.budget + 1 /\ carry'.calls > 0 /\ carry'.calls # 0
    <3> HIDE DEF n
    <3> QED BY <1>2, <1>3, <1>8
  <2>2. place' \in {"converged", "seed"}
    BY <1>1
  <2>3. /\ job \in [deck : Deck \cup {None}, budget : Budgets \cup {0}, own : BOOLEAN,
                    traj : 0 .. Legs]
        /\ job.deck \in Deck /\ job.budget \in Budgets /\ decks[job.traj] = job.deck
        /\ job.traj \in 1 .. leg
    BY <1>1 DEF IInv, ProcessOK
  <2> QED BY <1>1, <2>1, <2>2, <2>3 DEF ProcessOK, Running
<1>10. SolverOK'
  <2>1. After(acc', carry'.floor, carry'.z, q, n) /\ IsBest(acc'.best, q, n)
    <3>1. CASE n = 0
      <4>1. Len(q) > 0 /\ q[1] = out
        <5> HIDE DEF n, q
        <5> QED BY <1>2, <1>3, <1>5, <3>1
      <4>2. /\ After(Fresh(0, q[1].norm), <<>>, 0, q, 0)
            /\ IsBest(0, q, 0) /\ Fresh(0, q[1].norm).best = 0
        <5> HIDE DEF q
        <5> QED BY <1>2, <4>1, FreshAfter
      <4> HIDE DEF q
      <4> QED BY <1>4, <1>8, <3>1, <4>1, <4>2
    <3>2. CASE n # 0
      <4>1. carry.calls > 0 /\ place \notin {"idle", "open"}
        BY <1>1, <1>2, <3>2
      <4>2. /\ Latest \in Nat /\ Latest + 1 = n /\ Latest < Len(s)
            /\ After(acc, carry.floor, carry.z, s, Latest) /\ IsBest(acc.best, s, Latest)
        BY <4>1, AtWork
      <4>3. After(acc, carry.floor, carry.z, q, Latest) /\ IsBest(acc.best, q, Latest)
        <5> HIDE DEF s, q
        <5> QED BY <1>2, <1>3, <1>5, <4>2, Kept
      <4>4. Latest + 1 < Len(q) /\ q[Latest + 2] = out
        <5>1. Latest + 2 = n + 1
          BY <4>2
        <5> HIDE DEF q, n
        <5> QED BY <1>2, <1>5, <4>2, <5>1
      <4> HIDE DEF s, q, n
      <4>5. LET b == Observed(acc, Latest + 1, q[Latest + 2].norm) IN
            /\ After(b, Append(carry.floor, q[Latest + 2].spectral), Latest + 1, q, Latest + 1)
            /\ IsBest(b.best, q, Latest + 1)
        BY <1>2, <4>3, <4>4, ObservedAfter
      <4> QED BY <1>4, <1>8, <3>2, <4>2, <4>4, <4>5
    <3> QED BY <3>1, <3>2
  <2>2. truth'[job'.traj] = q
    BY <1>1
  <2>3. out.converged \in BOOLEAN
    BY OutcomesAssumption
  <2>4. /\ place' \in {"converged", "terminal"} <=> q[n + 1].converged
        /\ place' \notin {"evaluate", "checkpoint"}
    BY <1>1, <1>2, <2>3
  <2> HIDE DEF n, s, q
  <2> QED BY <1>8, <2>1, <2>2, <2>4 DEF SolverOK
<1>11. CheckpointOK'
  <2> SUFFICES ASSUME ckpt # None PROVE CheckpointOK'
    BY <1>1 DEF CheckpointOK
  <2> DEFINE u == ckpt.traj
             k == Len(ckpt.acc.res) - 1
  <2>1. /\ u \in 1 .. leg /\ ckpt.deck = decks[u]
        /\ After(ckpt.acc, ckpt.floor, ckpt.z, truth[u], k)
        /\ \E b \in 0 .. k : /\ IsBest(b, truth[u], k)
                             /\ ckpt.acc.best = IF b >= From(k) THEN None ELSE b
        /\ ~StopsAt(truth[u], k)
    BY DEF IInv, CheckpointOK
  <2>2. u \in Trajectory
    BY Typed
  <2>3. k \in Nat /\ k < Len(truth[u])
    BY <2>1 DEF After
  <2>4. /\ StopsAt(truth'[u], k) <=> StopsAt(truth[u], k)
        /\ \A b : IsBest(b, truth[u], k) => IsBest(b, truth'[u], k)
        /\ \A a, floor, z : After(a, floor, z, truth[u], k) => After(a, floor, z, truth'[u], k)
    <3>1. /\ Len(truth[u]) \in Nat /\ Len(truth'[u]) \in Nat /\ Len(truth[u]) <= Len(truth'[u])
          /\ \A i \in 1 .. Len(truth[u]) : truth'[u][i] = truth[u][i]
      <4> HIDE DEF u
      <4> QED BY <1>6, <2>2
    <3> DEFINE x == truth[u]
               y == truth'[u]
    <3> HIDE DEF x, y, k
    <3>2. /\ k \in Nat /\ k < Len(x) /\ Len(x) \in Nat /\ Len(y) \in Nat /\ Len(x) <= Len(y)
          /\ \A i \in 1 .. Len(x) : y[i] = x[i]
      BY <2>3, <3>1 DEF x, y
    <3>3. /\ StopsAt(y, k) <=> StopsAt(x, k)
          /\ \A b : IsBest(b, x, k) => IsBest(b, y, k)
          /\ \A a, floor, z : After(a, floor, z, x, k) => After(a, floor, z, y, k)
      BY <3>2, Kept
    <3> QED BY <3>3 DEF x, y
  <2> QED BY <1>1, <2>1, <2>4 DEF CheckpointOK
<1>12. CheckpointIsTheLastMap'
  BY <1>1 DEF CheckpointIsTheLastMap
<1>13. \A u \in Trajectory : \A k \in Nat : k < Len(truth[u]) =>
           /\ k < Len(truth'[u]) /\ truth'[u][k + 1] = truth[u][k + 1]
           /\ Floors(truth'[u], k) = Floors(truth[u], k)
           /\ StopsAt(truth'[u], k) <=> StopsAt(truth[u], k)
  <2> SUFFICES ASSUME NEW u \in Trajectory, NEW k \in Nat, k < Len(truth[u])
               PROVE  /\ k < Len(truth'[u]) /\ truth'[u][k + 1] = truth[u][k + 1]
                      /\ Floors(truth'[u], k) = Floors(truth[u], k)
                      /\ StopsAt(truth'[u], k) <=> StopsAt(truth[u], k)
    OBVIOUS
  <2> DEFINE x == truth[u]
             y == truth'[u]
  <2>1. /\ k < Len(x) /\ Len(x) \in Nat /\ Len(y) \in Nat /\ Len(x) <= Len(y)
        /\ \A i \in 1 .. Len(x) : y[i] = x[i]
    BY <1>6
  <2> HIDE DEF x, y
  <2>2. /\ k < Len(y) /\ y[k + 1] = x[k + 1] /\ Floors(y, k) = Floors(x, k)
        /\ StopsAt(y, k) <=> StopsAt(x, k)
    BY <2>1, Kept
  <2> QED BY <2>2 DEF x, y
<1>14. EndsOK'
  <2>1. ASSUME NEW u \in Trajectory, NEW k \in 0 .. Len(truth'[u]) - 2
        PROVE  ~StopsAt(truth'[u], k)
    <3>1. k \in Nat /\ k + 1 < Len(truth'[u])
      BY <1>6
    <3>2. CASE k \in 0 .. Len(truth[u]) - 2
      <4>1. k < Len(truth[u])
        BY <1>6, <3>2
      <4>2. ~StopsAt(truth[u], k)
        BY <3>2 DEF IInv, EndsOK
      <4> QED BY <1>13, <3>1, <4>1, <4>2
    <3>3. CASE k \notin 0 .. Len(truth[u]) - 2
      <4>1. u = t
        BY <1>2, <3>3
      <4>2. k = n - 1 /\ n > 0 /\ k < Len(s)
        <5>1. k + 1 < Len(q) /\ k \notin 0 .. Len(s) - 2
          BY <3>1, <3>3, <4>1
        <5> HIDE DEF n, s, q
        <5> QED BY <1>2, <1>3, <3>1, <5>1
      <4>3. ~StopsAt(s, k)
        BY <1>2, <4>2
      <4> QED BY <1>13, <3>1, <4>1, <4>2, <4>3
    <3> QED BY <3>2, <3>3
  <2>2. ASSUME NEW e \in ended
        PROVE  /\ e[1] <= leg /\ e[2] < Len(truth'[e[1]])
               /\ e[3] = "converged" => truth'[e[1]][e[2] + 1].converged
               /\ e[3] = "stalled" => /\ ~truth'[e[1]][e[2] + 1].converged
                                      /\ Flat(Floors(truth'[e[1]], e[2]))
               /\ e[3] = "budget" => ~StopsAt(truth'[e[1]], e[2])
               /\ e[3] = "converged" => e[1] # job.traj /\ (ckpt # None => ckpt.traj # e[1])
    <3>1. e[1] \in Trajectory /\ e[2] \in Nat
      BY Typed
    <3>2. /\ e[1] <= leg /\ e[2] < Len(truth[e[1]])
          /\ e[3] = "converged" => truth[e[1]][e[2] + 1].converged
          /\ e[3] = "stalled" => /\ ~truth[e[1]][e[2] + 1].converged
                                 /\ Flat(Floors(truth[e[1]], e[2]))
          /\ e[3] = "budget" => ~StopsAt(truth[e[1]], e[2])
          /\ e[3] = "converged" => e[1] # job.traj /\ (ckpt # None => ckpt.traj # e[1])
      BY DEF IInv, EndsOK
    <3>3. /\ e[2] < Len(truth'[e[1]]) /\ truth'[e[1]][e[2] + 1] = truth[e[1]][e[2] + 1]
          /\ Floors(truth'[e[1]], e[2]) = Floors(truth[e[1]], e[2])
          /\ StopsAt(truth'[e[1]], e[2]) <=> StopsAt(truth[e[1]], e[2])
      BY <1>13, <3>1, <3>2
    <3> QED BY <3>2, <3>3
  <2> QED BY <1>1, <2>1, <2>2 DEF EndsOK
<1> QED BY <1>7, <1>9, <1>10, <1>11, <1>12, <1>14 DEF IInv

\* A step that changes nothing.
LEMMA StutterStep == ASSUME IInv, UNCHANGED vars PROVE IInv'
<1> USE DEF vars, files
<1>1. StoreOK' /\ ProcessOK' /\ CheckpointIsTheLastMap' /\ EndsOK'
  BY DEF IInv, StoreOK, ProcessOK, CheckpointIsTheLastMap, EndsOK
<1>2. SolverOK'
  <2>1. Latest' = Latest
    BY DEF Latest
  <2> QED BY <2>1 DEF IInv, SolverOK
<1>3. CheckpointOK'
  BY CheckpointFrame
<1> QED BY <1>1, <1>2, <1>3 DEF IInv

\* The invariant holds in every reachable state.
THEOREM Inductive == Spec => []IInv
<1>1. Init => IInv
  BY InitIInv
<1>2. IInv /\ [Next]_vars => IInv'
  <2> SUFFICES ASSUME IInv, [Next]_vars PROVE IInv'
    OBVIOUS
  <2>1. CASE \E d \in Deck, b \in Budgets, own \in BOOLEAN : Launch(d, b, own)
    BY <2>1, LaunchStep
  <2>2. CASE Refuse \/ Kill
    BY <2>2, RefuseOrKill
  <2>3. CASE Resume
    BY <2>3, ResumeStep
  <2>4. CASE StartFresh
    BY <2>4, StartFreshStep
  <2>5. CASE \E out \in Outcomes : Evaluate(out)
    BY <2>5, EvaluateStep
  <2>6. CASE WriteSeed
    BY <2>6, WriteSeedStep
  <2>7. CASE Checkpoint \/ CheckpointFails
    BY <2>7, CheckpointStep
  <2>8. CASE Terminal
    BY <2>8, TerminalStep
  <2>9. CASE Retire
    BY <2>9, RetireStep
  <2>10. CASE UNCHANGED vars
    BY <2>10, StutterStep
  <2> QED BY <2>1, <2>2, <2>3, <2>4, <2>5, <2>6, <2>7, <2>8, <2>9, <2>10 DEF Next
<1> QED BY <1>1, <1>2, PTL DEF Spec

-----------------------------------------------------------------------------
(* What it implies *)

\* The state of a solver after a map is what the trajectory's measurements say.
LEMMA AfterIsState ==
    ASSUME NEW s \in Seq(Outcomes), NEW n, NEW a, NEW floor, NEW z,
           After(a, floor, z, s, n), IsBest(a.best, s, n)
    PROVE  IsStateOf(a, floor, z, s, n)
<1>1. n \in Nat /\ n < Len(s)
  BY DEF After
<1>2. Window(a) = Between(From(n), n)
  BY WindowIs
<1>3. a.best = BestOf(s, n)
  BY <1>1, BestIs
<1> QED BY <1>2, <1>3 DEF IsStateOf, After

\* However a run is killed and continued, after every map the solver has the ring, the
\* best pair, the fallback flag and the histories of the unbroken run.
THEOREM ContinuedIsUnbroken == Spec => []StaysOnTrajectory
<1>1. IInv => StaysOnTrajectory
  <2> SUFFICES ASSUME IInv, carry.calls > 0
               PROVE  IsStateOf(acc, carry.floor, carry.z, truth[job.traj], Latest)
    BY DEF StaysOnTrajectory
  <2>1. place \notin {"idle", "open"}
    <3> SUFFICES ASSUME place \in {"idle", "open"} PROVE FALSE
      OBVIOUS
    <3>1. carry = NoCarry
      BY DEF IInv, ProcessOK
    <3> QED BY <3>1 DEF NoCarry
  <2> QED BY <2>1, AtWork, AfterIsState
<1> QED BY <1>1, Inductive, PTL

\* The checkpoint continues exactly, is the last map's, and a trajectory ends where
\* the unbroken run does, whichever process gets there.
THEOREM TrajectoriesAreKept == Spec => []TrajectoryInv
<1>1. IInv => TrajectoryInv
  <2> SUFFICES ASSUME IInv PROVE TrajectoryInv
    OBVIOUS
  <2>1. TypeOK
    <3>1. carry.calls \in 0 .. job.budget + 1
      <4>1. CASE place \notin {"idle", "open"}
        BY <4>1 DEF IInv, ProcessOK
      <4>2. CASE place \in {"idle", "open"}
        <5>1. carry.calls = 0 /\ job.budget \in Budgets \cup {0}
          BY <4>2 DEF IInv, ProcessOK, NoCarry
        <5>2. job.budget \in Nat
          BY <5>1, LargestBudget
        <5> QED BY <5>1, <5>2
      <4> QED BY <4>1, <4>2
    <3>2. place \in Running \cup {"idle", "open", "converged", "terminal"}
      BY DEF IInv, ProcessOK
    <3> QED BY <3>1, <3>2 DEF IInv, StoreOK, TypeOK, Verdict
  <2>2. CheckpointContinues
    <3> SUFFICES ASSUME ckpt # None PROVE CheckpointContinues
      BY DEF CheckpointContinues
    <3> DEFINE n == Len(ckpt.acc.res) - 1
               s == truth[ckpt.traj]
    <3>1. /\ ckpt.deck = decks[ckpt.traj]
          /\ After(ckpt.acc, ckpt.floor, ckpt.z, s, n)
          /\ \E b \in 0 .. n : /\ IsBest(b, s, n)
                               /\ ckpt.acc.best = IF b >= From(n) THEN None ELSE b
          /\ ~StopsAt(s, n)
      BY DEF IInv, CheckpointOK
    <3>2. s \in Seq(Outcomes)
      BY Typed
    <3> HIDE DEF n, s
    <3>3. PICK b \in 0 .. n : /\ IsBest(b, s, n)
                              /\ ckpt.acc.best = IF b >= From(n) THEN None ELSE b
      BY <3>1
    <3>4. After(Resumed(ckpt.acc), ckpt.floor, ckpt.z, s, n) /\ Resumed(ckpt.acc).best = b
      BY <3>1, <3>2, <3>3, ResumedAfter
    <3>5. IsStateOf(Resumed(ckpt.acc), ckpt.floor, ckpt.z, s, n)
      BY <3>2, <3>3, <3>4, AfterIsState
    <3> QED BY <3>1, <3>5 DEF CheckpointContinues, n, s
  <2>3. StopsWhereUnbroken
    BY Typed DEF IInv, EndsOK, StopsWhereUnbroken, Verdict
  <2>4. CheckpointIsTheLastMap /\ ConvergedLeavesNothing
    BY DEF IInv, EndsOK, ConvergedLeavesNothing
  <2> QED BY <2>1, <2>2, <2>3, <2>4 DEF TrajectoryInv
<1> QED BY <1>1, Inductive, PTL
=============================================================================
