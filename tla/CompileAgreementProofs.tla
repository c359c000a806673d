----------------------- MODULE CompileAgreementProofs -----------------------
(***************************************************************************)
(* The numbers of compile requests, for any number of ranks and helpers,   *)
(* any programs and any caches: as long as nothing is refused, a number is *)
(* given by the program alone; and what is built under a number is the     *)
(* same text on every rank, refusals or not.                               *)
(***************************************************************************)
EXTENDS CompileAgreement, FiniteSetTheorems, SequenceTheorems, TLAPS

-----------------------------------------------------------------------------
(* The number a program gives to its requests *)

\* The calls before the k-th lower module m.
Touched(p, k, m) == \E j \in 1 .. k - 1 : p[j].kind # "result" /\ p[j].mod = m

\* A call that takes a number: every ahead call, and a live call of a module that
\* no call before it has lowered.
Needs(p, i) ==
    \/ p[i].kind = "ahead"
    \/ p[i].kind = "call" /\ ~Touched(p, i, p[i].mod)

\* The numbers taken by the calls before the k-th.
Taking(p, k) == {j \in 1 .. k - 1 : Needs(p, j)}
Count(p, k) == Cardinality(Taking(p, k))

\* Number n is the one of a call of module m.
Names(p, n, m) ==
    \E j \in 1 .. Len(p) : Needs(p, j) /\ Count(p, j) = n /\ p[j].mod = m

-----------------------------------------------------------------------------
(* The inductive invariant, rank by rank *)

AtMain(r) == at[r]["main"]
Compiling == {"claimed", "published"}

\* The first call whose number the main thread has not taken yet.
Reached(r) ==
    IF \/ AtMain(r).stage \in {"published", "running"}
       \/ AtMain(r).stage = "wants" /\ AtMain(r).mod \in memo[r]
      THEN ip[r] + 1 ELSE ip[r]

\* What a thread does belongs to the call, or the submission, it works for.
Shape(r) ==
    /\ AtMain(r).stage # "idle" => /\ ip[r] <= Len(program)
                                  /\ AtMain(r).mod = program[ip[r]].mod
                                  /\ program[ip[r]].kind # "ahead"
    /\ AtMain(r).stage \in {"wants"} \cup Compiling => program[ip[r]].kind = "call"
    /\ AtMain(r).stage = "running" /\ program[ip[r]].kind = "call" => AtMain(r).mod \in memo[r]
    /\ \A t \in Helpers : at[r][t].stage # "idle" =>
         /\ at[r][t].mod \in Module /\ at[r][t].slot \in Number
         /\ at[r][t].stage \in {"wants"} \cup Compiling

\* A submission is in the queue, or with one helper, until its future ends.
Slots(r) ==
    /\ \A n \in Number : future[r][n] # "none" => n < number[r]
    /\ \A i \in 1 .. Len(queue[r]) :
         /\ future[r][queue[r][i].slot] = "pending"
         /\ \A j \in 1 .. Len(queue[r]) : queue[r][i].slot = queue[r][j].slot => i = j
         /\ \A t \in Helpers : at[r][t].stage # "idle" => at[r][t].slot # queue[r][i].slot
    /\ \A t \in Helpers : at[r][t].stage # "idle" =>
         /\ future[r][at[r][t].slot] = "pending"
         /\ \A u \in Helpers : at[r][u].stage # "idle" /\ at[r][u].slot = at[r][t].slot => u = t

\* A number is claimed once and published under once, whatever fails.
Once(r) ==
    /\ \A n \in Number : n \in claimed[r] \/ record[r][n] # NoRecord => n < number[r]
    /\ \A m \in Module : ahead[r][m] # None =>
         /\ ahead[r][m] < number[r]
         /\ ahead[r][m] \notin claimed[r] => record[r][ahead[r][m]] = NoRecord
    /\ \A t \in Thread : at[r][t].stage = "claimed" /\ at[r][t].occurrence # None =>
         /\ at[r][t].occurrence \in claimed[r]
         /\ record[r][at[r][t].occurrence] = NoRecord
         /\ \A u \in Thread : at[r][u].stage = "claimed"
                              /\ at[r][u].occurrence = at[r][t].occurrence => u = t
    /\ \A t \in Thread : at[r][t].stage = "published" =>
         /\ at[r][t].occurrence # None
         /\ record[r][at[r][t].occurrence] = Own(r, at[r][t].mod)

\* As long as nothing was refused, the count is the program's, ...
Counted(r) == number[r] = Count(program, Reached(r))
\* ... a rank knows only modules its program has lowered, ...
Known(r) ==
    /\ \A m \in memo[r] : Touched(program, Reached(r), m)
    /\ \A m \in Module : ahead[r][m] # None => Touched(program, Reached(r), m)
    /\ \A i \in 1 .. Len(queue[r]) : Touched(program, Reached(r), queue[r][i].mod)
    /\ \A t \in Helpers : at[r][t].stage # "idle" =>
         Touched(program, Reached(r), at[r][t].mod)
\* ... each of them is compiled, or being compiled, or has an entry to claim, ...
Covered(r) ==
    \A m \in Module : Touched(program, Reached(r), m) =>
        \/ m \in memo[r]
        \/ \E t \in Thread : at[r][t].mod = m /\ at[r][t].stage \in Compiling
        \/ ahead[r][m] # None /\ ahead[r][m] \notin claimed[r]
\* ... and every number in use is the one its program gives to that module.
Named(r) ==
    /\ \A n \in Number : record[r][n] # NoRecord => Names(program, n, record[r][n].mod)
    /\ \A m \in Module : ahead[r][m] # None => Names(program, ahead[r][m], m)
    /\ \A t \in Thread : at[r][t].stage = "claimed" =>
         IF at[r][t].occurrence = None
           THEN t = "main" /\ Needs(program, ip[r])
           ELSE /\ Names(program, at[r][t].occurrence, at[r][t].mod)
                /\ t = "main" => ~Needs(program, ip[r])
Unrefused(r) == Counted(r) /\ Known(r) /\ Covered(r) /\ Named(r)

\* Rank r built only what it and rank 0 have published alike, rank 0 only what all have.
BuiltOK ==
    \A r \in Rank : \A n \in built[r] :
        /\ record[r][n] # NoRecord /\ record[0][n] = record[r][n]
        /\ r = 0 => \A q \in Rank : record[q][n] = record[0][n]

RankInv(r) == Shape(r) /\ Slots(r) /\ Once(r) /\ (~Failed(r) => Unrefused(r))
IInv == TypeOK /\ BuiltOK /\ \A r \in Rank : RankInv(r)

-----------------------------------------------------------------------------
(* Counting the calls of a program *)

\* Each call that takes a number moves the count by one.
LEMMA Counting ==
    ASSUME NEW p \in Seq(Call), NEW k \in 1 .. Len(p) + 1
    PROVE  /\ Count(p, k) \in Nat
           /\ Count(p, 1) = 0
           /\ k <= Len(p) => Count(p, k + 1) = Count(p, k) + IF Needs(p, k) THEN 1 ELSE 0
           /\ \A i \in 1 .. k : Count(p, i) <= Count(p, k)
           /\ \A i \in 1 .. k - 1 : Needs(p, i) => Count(p, i) < Count(p, k)
<1>1. ASSUME NEW i \in Nat PROVE IsFiniteSet(Taking(p, i)) /\ Count(p, i) \in Nat
  <2>1. i - 1 \in Int /\ Taking(p, i) \in SUBSET (1 .. i - 1)
    BY DEF Taking
  <2>2. IsFiniteSet(1 .. i - 1)
    BY <2>1, FS_Interval
  <2> QED  BY <2>1, <2>2, FS_Subset, FS_CardinalityType DEF Count
<1>2. ASSUME NEW i \in 1 .. k PROVE Count(p, i) <= Count(p, k)
  <2>1. Taking(p, i) \subseteq Taking(p, k)
    BY DEF Taking
  <2> QED  BY <2>1, <1>1, FS_Subset DEF Count
<1>3. ASSUME NEW i \in 1 .. k - 1, Needs(p, i) PROVE Count(p, i) < Count(p, k)
  <2>1. Taking(p, i) \cup {i} \subseteq Taking(p, k) /\ i \notin Taking(p, i) /\ i \in Nat
    BY <1>3 DEF Taking
  <2>2. Cardinality(Taking(p, i) \cup {i}) = Count(p, i) + 1
    BY <2>1, <1>1, FS_AddElement DEF Count
  <2>3. Cardinality(Taking(p, i) \cup {i}) <= Count(p, k)
    BY <2>1, <1>1, FS_Subset DEF Count
  <2> QED  BY <2>1, <2>2, <2>3, <1>1
<1>4. Count(p, 1) = 0
  <2>1. Taking(p, 1) = {}
    BY DEF Taking
  <2> QED  BY <2>1, FS_EmptySet DEF Count
<1>5. ASSUME k <= Len(p) PROVE Count(p, k + 1) = Count(p, k) + IF Needs(p, k) THEN 1 ELSE 0
  <2>1. k \in Nat /\ k \notin Taking(p, k)
    BY DEF Taking
  <2>2. CASE Needs(p, k)
    <3>1. Taking(p, k + 1) = Taking(p, k) \cup {k}
      BY <2>2 DEF Taking
    <3> QED  BY <2>1, <2>2, <3>1, <1>1, FS_AddElement DEF Count
  <2>3. CASE ~Needs(p, k)
    <3>1. Taking(p, k + 1) = Taking(p, k)
      BY <2>3 DEF Taking
    <3> QED  BY <2>1, <2>3, <3>1, <1>1 DEF Count
  <2> QED  BY <2>2, <2>3
<1> QED  BY <1>1, <1>2, <1>3, <1>4, <1>5

\* A number is of one module.
LEMMA OneName ==
    ASSUME NEW p \in Seq(Call), NEW n, NEW m, NEW l, Names(p, n, m), Names(p, n, l)
    PROVE  m = l
<1>1. PICK i \in 1 .. Len(p) : Needs(p, i) /\ Count(p, i) = n /\ p[i].mod = m
  BY DEF Names
<1>2. PICK j \in 1 .. Len(p) : Needs(p, j) /\ Count(p, j) = n /\ p[j].mod = l
  BY DEF Names
<1>3. Len(p) \in Nat
  OBVIOUS
<1>4. ~(i < j)
  <2>1. i < j => i \in 1 .. j - 1 /\ j \in 1 .. Len(p) + 1
    BY <1>3
  <2>2. i < j => Count(p, i) < Count(p, j) /\ Count(p, i) \in Nat /\ Count(p, j) \in Nat
    BY <2>1, <1>1, <1>3, Counting
  <2> QED  BY <2>2, <1>1, <1>2
<1>5. ~(j < i)
  <2>1. j < i => j \in 1 .. i - 1 /\ i \in 1 .. Len(p) + 1
    BY <1>3
  <2>2. j < i => Count(p, j) < Count(p, i) /\ Count(p, i) \in Nat /\ Count(p, j) \in Nat
    BY <2>1, <1>2, <1>3, Counting
  <2> QED  BY <2>2, <1>1, <1>2
<1> QED  BY <1>1, <1>2, <1>3, <1>4, <1>5

\* A call that was lowered before the k-th was lowered before any later one; the
\* call at k itself is the only one between k and k + 1.
LEMMA Later ==
    ASSUME NEW p, NEW k \in Nat \ {0}, NEW m
    PROVE  /\ Touched(p, k, m) => Touched(p, k + 1, m)
           /\ Touched(p, k + 1, m) => Touched(p, k, m) \/ (p[k].kind # "result" /\ p[k].mod = m)
           /\ p[k].kind # "result" /\ p[k].mod = m => Touched(p, k + 1, m)
  BY DEF Touched

-----------------------------------------------------------------------------
(* What every step is made of *)

\* The state of one rank.
LEMMA Types ==
    ASSUME IInv, NEW r \in Rank
    PROVE  /\ program \in Seq(Call) /\ Len(program) \in Nat
           /\ ip[r] \in 1 .. Len(program) + 1 /\ number[r] \in 0 .. MaxNumber
           /\ Reached(r) \in Nat \ {0}
           /\ ahead[r] \in [Module -> Number \cup {None}]
           /\ future[r] \in [Number -> {"none", "pending", "done", "failed"}]
           /\ queue[r] \in Seq([mod : Module, slot : Number])
           /\ at[r] \in [Thread -> [stage : Stage, mod : Module \cup {None},
                                    slot : Number \cup {None}, occurrence : Number \cup {None}]]
           /\ record[r] \in [Number -> Record \cup {NoRecord}]
           /\ claimed[r] \subseteq Number /\ memo[r] \subseteq Module
           /\ ip[r] <= Len(program) => program[ip[r]] \in Call
           /\ None \notin Number /\ "main" \in Thread /\ Number \subseteq Nat
<1>1. TypeOK
  BY DEF IInv
<1>2. program \in Seq(Call)
  BY <1>1, ProgramsAssumption DEF TypeOK
<1>3. Len(program) \in Nat /\ ip[r] \in 1 .. Len(program) + 1
  BY <1>1, <1>2 DEF TypeOK
<1>4. Reached(r) \in Nat \ {0}
  BY <1>3 DEF Reached
<1>5. ip[r] <= Len(program) => program[ip[r]] \in Call
  BY <1>2, <1>3
<1>6. None \notin Number /\ "main" \in Thread /\ Number \subseteq Nat
  BY MaxNumberAssumption DEF None, Number, Thread
<1> QED  BY <1>1, <1>2, <1>3, <1>4, <1>5, <1>6 DEF TypeOK

\* What another rank does.
Stays(q) ==
    /\ ip'[q] = ip[q] /\ number'[q] = number[q] /\ ahead'[q] = ahead[q]
    /\ claimed'[q] = claimed[q] /\ queue'[q] = queue[q] /\ future'[q] = future[q]
    /\ at'[q] = at[q] /\ memo'[q] = memo[q] /\ record'[q] = record[q]

\* A rank that stays is as it was.
LEMMA OthersStay ==
    ASSUME NEW q \in Rank, RankInv(q), program' = program, key' = key, Stays(q)
    PROVE  RankInv(q)'
<1> USE DEF Stays, AtMain
<1>1. Reached(q)' = Reached(q)
  BY DEF Reached
<1>2. Shape(q)'
  BY DEF RankInv, Shape
<1>3. Slots(q)'
  BY DEF RankInv, Slots
<1>4. Once(q)'
  BY DEF RankInv, Once, Own
<1>5. Failed(q)' <=> Failed(q)
  BY DEF Failed
<1>6. Unrefused(q) => Unrefused(q)'
  BY <1>1 DEF Unrefused, Counted, Known, Covered, Named
<1> QED  BY <1>2, <1>3, <1>4, <1>5, <1>6 DEF RankInv

\* A step of rank r keeps the invariant when it keeps r's own and what was built.
LEMMA OneRankSteps ==
    ASSUME IInv, NEW r \in Rank, program' = program, key' = key,
           \A q \in Rank \ {r} : Stays(q), TypeOK', BuiltOK', RankInv(r)'
    PROVE  IInv'
  BY OthersStay DEF IInv

\* Nothing is built that was not published before.
LEMMA BuiltStays ==
    ASSUME IInv, built' = built,
           \A r \in Rank, n \in Number : record[r][n] # NoRecord => record'[r][n] = record[r][n]
    PROVE  BuiltOK'
<1>1. 0 \in Rank
  BY NAssumption DEF Rank
<1>2. \A r \in Rank : built[r] \subseteq Number
  BY DEF IInv, TypeOK
<1> QED  BY <1>1, <1>2 DEF IInv, BuiltOK

-----------------------------------------------------------------------------
(* The main thread *)

\* compile_ahead takes the next number, and the entry unless there is one.
LEMMA CompileAheadKeeps ==
    ASSUME IInv, NEW r \in Rank, CompileAhead(r)
    PROVE  IInv'
<1> DEFINE n == number[r]
           m == program[ip[r]].mod
<1>1. /\ at[r]["main"].stage = "idle" /\ ip[r] <= Len(program)
      /\ program[ip[r]].kind = "ahead" /\ n \in Number /\ n < MaxNumber /\ m \in Module
  BY Types, MaxNumberAssumption DEF CompileAhead, MainFree, Next_, Number, Call
<1>2. /\ ip' = [ip EXCEPT ![r] = @ + 1]
      /\ number' = [number EXCEPT ![r] = @ + 1]
      /\ ahead' = [ahead EXCEPT ![r][m] = IF @ = None THEN n ELSE @]
      /\ queue' = [queue EXCEPT ![r] = Append(@, [mod |-> m, slot |-> n])]
      /\ future' = [future EXCEPT ![r][n] = "pending"]
      /\ UNCHANGED <<given, warm, claimed, at, memo, record, built>>
  BY DEF CompileAhead, Next_
<1> HIDE DEF n, m
<1>t. TypeOK
  BY DEF IInv
<1>3. TypeOK'
  <2>1. ip' \in [Rank -> 1 .. Len(program) + 1] /\ number' \in [Rank -> 0 .. MaxNumber]
    BY SMTT(60), <1>1, <1>2, <1>t, Types, MaxNumberAssumption DEF TypeOK, n
  <2>2. ahead' \in [Rank -> [Module -> Number \cup {None}]]
    BY <1>1, <1>2, <1>t DEF TypeOK
  <2>3. queue' \in [Rank -> Seq([mod : Module, slot : Number])]
    <3>1. [mod |-> m, slot |-> n] \in [mod : Module, slot : Number]
      BY <1>1
    <3>2. Append(queue[r], [mod |-> m, slot |-> n]) \in Seq([mod : Module, slot : Number])
      BY <3>1, Types, AppendProperties
    <3> QED  BY <3>2, <1>2, <1>t DEF TypeOK
  <2>4. future' \in [Rank -> [Number -> {"none", "pending", "done", "failed"}]]
    BY <1>1, <1>2, <1>t DEF TypeOK
  <2> QED  BY <1>2, <1>t, <2>1, <2>2, <2>3, <2>4 DEF TypeOK, given
<1>4. \A q \in Rank \ {r} : Stays(q)
  BY <1>2, <1>t DEF Stays, TypeOK
<1>5. BuiltOK'
  BY <1>2, BuiltStays
<1>6. /\ ip'[r] = ip[r] + 1 /\ number'[r] = n + 1 /\ at'[r] = at[r] /\ memo'[r] = memo[r]
      /\ claimed'[r] = claimed[r] /\ record'[r] = record[r] /\ program' = program /\ key' = key
      /\ \A l \in Module \ {m} : ahead'[r][l] = ahead[r][l]
      /\ ahead'[r][m] = IF ahead[r][m] = None THEN n ELSE ahead[r][m]
      /\ future'[r][n] = "pending" /\ \A i \in Number \ {n} : future'[r][i] = future[r][i]
      /\ queue'[r] = Append(queue[r], [mod |-> m, slot |-> n])
  BY <1>1, <1>2, <1>t DEF TypeOK, given, n
<1>7. /\ Len(queue'[r]) = Len(queue[r]) + 1 /\ Len(queue[r]) \in Nat
      /\ queue'[r][Len(queue[r]) + 1].mod = m /\ queue'[r][Len(queue[r]) + 1].slot = n
      /\ \A i \in 1 .. Len(queue[r]) : queue'[r][i] = queue[r][i] /\ queue[r][i].slot \in Number
                                       /\ queue[r][i].mod \in Module
  <2>1. queue[r] \in Seq([mod : Module, slot : Number])
    BY Types
  <2>2. [mod |-> m, slot |-> n] \in [mod : Module, slot : Number]
    BY <1>1
  <2>3. \A i \in 1 .. Len(queue[r]) : queue[r][i] \in [mod : Module, slot : Number]
    BY <2>1, ElementOfSeq
  <2> QED  BY <2>1, <2>2, <2>3, <1>6, AppendProperties
<1>0. ip[r] \in Nat \ {0} /\ program[ip[r]] \in Call
  BY <1>1, Types
<1>8. RankInv(r)
  BY DEF IInv
<1>9. Shape(r)'
  BY <1>1, <1>6, <1>8 DEF RankInv, Shape, AtMain
<1>10. future[r][n] = "none" /\ record[r][n] = NoRecord /\ n \notin claimed[r]
  BY <1>1, <1>8, Types DEF RankInv, Slots, Once, n
<1>11. Slots(r)'
  <2>1. \A i \in Number : future'[r][i] # "none" => i < number'[r]
    BY SMTT(60), <1>6, <1>8, <1>1, Types DEF RankInv, Slots, n
  <2>2. \A i \in 1 .. Len(queue[r]) : queue[r][i].slot # n
    BY <1>7, <1>8, <1>10 DEF RankInv, Slots
  <2>3. \A t \in Helpers : at[r][t].stage # "idle" =>
           at[r][t].slot # n /\ at[r][t].slot \in Number
    BY <1>8, <1>10 DEF RankInv, Slots, Shape
  <2>4. \A i \in 1 .. Len(queue[r]) + 1 : i \in 1 .. Len(queue[r]) \/ i = Len(queue[r]) + 1
    BY <1>7
  <2> QED  BY SMTT(60), <2>1, <2>2, <2>3, <2>4, <1>6, <1>7, <1>8 DEF RankInv, Slots
<1>12. Once(r)'
  <2>1. Once(r)
    BY <1>8 DEF RankInv
  <2>2. \A i \in Number : i \in claimed'[r] \/ record'[r][i] # NoRecord => i < number'[r]
    BY <2>1, <1>1, <1>6, Types DEF Once, n
  <2>3. \A l \in Module : ahead'[r][l] # None =>
           /\ ahead'[r][l] < number'[r]
           /\ ahead'[r][l] \notin claimed'[r] => record'[r][ahead'[r][l]] = NoRecord
    <3> TAKE l \in Module
    <3>1. CASE ahead'[r][l] = ahead[r][l]
      <4>1. ahead[r][l] # None => ahead[r][l] \in Nat /\ ahead[r][l] < n
        BY <2>1, Types DEF Once, n
      <4> QED  BY <4>1, <3>1, <2>1, <1>1, <1>6, Types DEF Once
    <3>2. CASE l = m /\ ahead'[r][l] = n
      BY <3>2, <1>6, <1>10, <1>1, Types
    <3> QED  BY <3>1, <3>2, <1>6
  <2> QED  BY <2>1, <2>2, <2>3, <1>6 DEF Once, Own
<1>13. ASSUME ~Failed(r)' PROVE Unrefused(r)'
  <2>1. ~Failed(r)
    BY <1>13, <1>6, <1>10 DEF Failed
  <2>2. Unrefused(r)
    BY <1>8, <2>1 DEF RankInv
  <2>3. Reached(r) = ip[r] /\ Reached(r)' = ip[r] + 1
    BY <1>1, <1>6 DEF Reached, AtMain
  <2>4. Needs(program, ip[r]) /\ Touched(program, ip[r] + 1, m)
    BY SMTT(60), <1>0, <1>1 DEF Needs, Touched, m
  <2>5. Counted(r)'
    BY <2>2, <2>3, <2>4, <1>6, <1>1, Types, Counting DEF Unrefused, Counted, n
  <2>6. Known(r)'
    <3>1. \A l : Touched(program, ip[r], l) => Touched(program, ip[r] + 1, l)
      BY <1>0, Later
    <3>2. \A i \in 1 .. Len(queue[r]) + 1 : i \in 1 .. Len(queue[r]) \/ i = Len(queue[r]) + 1
      BY <1>7
    <3> QED  BY <3>1, <3>2, <2>2, <2>3, <2>4, <1>6, <1>7 DEF Unrefused, Known
  <2>7. Covered(r)'
    <3>1. \A l : Touched(program, ip[r] + 1, l) => Touched(program, ip[r], l) \/ l = m
      BY <1>0, Later DEF m
    <3>2. ahead[r][m] = None => ahead'[r][m] = n /\ n # None /\ n \notin claimed[r]
      BY <1>1, <1>6, <1>10, Types
    <3>3. ahead[r][m] # None => Touched(program, ip[r], m)
      BY <1>1, <2>2, <2>3 DEF Unrefused, Known
    <3> QED  BY <3>1, <3>2, <3>3, <2>2, <2>3, <1>1, <1>6 DEF Unrefused, Covered
  <2>8. Names(program, n, m)
    BY <2>2, <2>3, <2>4, <1>1, Types DEF Unrefused, Counted, Names, n, m
  <2>9. Named(r)'
    <3>1. \A t \in Thread : at[r][t].stage = "claimed" => t # "main"
      BY <1>1
    <3> QED  BY <3>1, <2>2, <2>8, <1>6 DEF Unrefused, Named
  <2> QED  BY <2>5, <2>6, <2>7, <2>9 DEF Unrefused
<1> QED
  BY <1>3, <1>4, <1>5, <1>6, <1>9, <1>11, <1>12, <1>13, OneRankSteps DEF RankInv

\* The main thread goes on between two requests: it takes no number, and has at most
\* come past a call that needs none.
LEMMA MainMoves ==
    ASSUME IInv, NEW r \in Rank,
           NEW x \in [stage : Stage, mod : Module \cup {None}, slot : Number \cup {None},
                      occurrence : Number \cup {None}],
           NEW k \in 1 .. Len(program) + 1,
           at[r]["main"].stage \notin Compiling \cup {"dead"}, x.stage \notin Compiling,
           at' = [at EXCEPT ![r]["main"] = x], ip' = [ip EXCEPT ![r] = k],
           UNCHANGED <<given, warm, number, ahead, claimed, queue, future, memo, record, built>>,
           Shape(r)',
           ~Failed(r)' /\ Unrefused(r) =>
              \/ Reached(r)' = Reached(r)
              \/ /\ Reached(r)' = Reached(r) + 1 /\ Reached(r) <= Len(program)
                 /\ ~Needs(program, Reached(r))
                 /\ program[Reached(r)].kind # "result" => program[Reached(r)].mod \in memo[r]
    PROVE  IInv'
<1>t. TypeOK /\ RankInv(r)
  BY DEF IInv
<1>1. /\ at'[r]["main"] = x /\ \A t \in Helpers : at'[r][t] = at[r][t]
      /\ DOMAIN at'[r] = Thread
  BY <1>t, Types, HelpersAssumption DEF TypeOK, Thread
<1>2. /\ ip'[r] = k /\ number'[r] = number[r] /\ ahead'[r] = ahead[r] /\ claimed'[r] = claimed[r]
      /\ queue'[r] = queue[r] /\ future'[r] = future[r] /\ memo'[r] = memo[r]
      /\ record'[r] = record[r] /\ program' = program /\ key' = key
  BY <1>t DEF TypeOK, given
<1>3. TypeOK'
  <2>1. ip' \in [Rank -> 1 .. Len(program) + 1]
    BY <1>t DEF TypeOK
  <2>2. at' \in [Rank -> [Thread -> [stage : Stage, mod : Module \cup {None},
                                   slot : Number \cup {None},
                                   occurrence : Number \cup {None}]]]
    BY <1>t, Types DEF TypeOK
  <2> QED  BY <1>t, <2>1, <2>2 DEF TypeOK, given
<1>4. \A q \in Rank \ {r} : Stays(q)
  BY <1>t DEF Stays, TypeOK
<1>5. BuiltOK'
  BY BuiltStays
<1>6. Slots(r)'
  BY <1>t, <1>1, <1>2 DEF RankInv, Slots
<1>7. Once(r)'
  <2>1. \A t \in Thread : at'[r][t].stage \in Compiling => t \in Helpers
    BY <1>1 DEF Thread
  <2>2. \A t \in Thread : at'[r][t].stage \in Compiling =>
           at'[r][t] = at[r][t]
    BY <2>1, <1>1
  <2> QED  BY <2>2, <1>t, <1>2 DEF RankInv, Once, Own, Compiling
<1>8. ASSUME ~Failed(r)' PROVE Unrefused(r)'
  <2>1. Unrefused(r)
    BY <1>8, <1>t, <1>2 DEF Failed, RankInv
  <2>2. \A t \in Thread : at[r][t].stage \in Compiling => t # "main" /\ at'[r][t] = at[r][t]
    BY <1>1 DEF Thread
  <2>3. \A t \in Thread : at'[r][t].stage \in Compiling => t # "main" /\ at'[r][t] = at[r][t]
    BY <1>1 DEF Thread
  <2>4. Named(r)'
    BY <2>1, <2>3, <1>2 DEF Unrefused, Named, Compiling
  <2>5. CASE Reached(r)' = Reached(r)
    <3>1. Counted(r)' /\ Known(r)'
      BY <2>1, <2>5, <1>1, <1>2 DEF Unrefused, Counted, Known
    <3>2. Covered(r)'
      BY <2>1, <2>2, <2>5, <1>2 DEF Unrefused, Covered
    <3> QED  BY <2>4, <3>1, <3>2 DEF Unrefused
  <2>6. CASE /\ Reached(r)' = Reached(r) + 1 /\ Reached(r) <= Len(program)
             /\ ~Needs(program, Reached(r))
             /\ program[Reached(r)].kind # "result" => program[Reached(r)].mod \in memo[r]
    <3>0. Reached(r) \in Nat \ {0} /\ Reached(r) \in 1 .. Len(program) + 1 /\ Len(program) \in Nat
      BY <2>6, Types
    <3>1. \A l : Touched(program, Reached(r), l) => Touched(program, Reached(r) + 1, l)
      BY <3>0, Later
    <3>2. \A l : Touched(program, Reached(r) + 1, l)
                   => Touched(program, Reached(r), l) \/ l \in memo[r]
      BY <3>0, <2>6, Later
    <3>3. Count(program, Reached(r) + 1) = Count(program, Reached(r))
      BY <3>0, <2>6, Counting, Types
    <3>4. Counted(r)'
      BY <2>1, <2>6, <3>3, <1>2 DEF Unrefused, Counted
    <3>5. Known(r)'
      BY <2>1, <2>6, <3>1, <1>1, <1>2 DEF Unrefused, Known
    <3>6. Covered(r)'
      BY <2>1, <2>2, <2>6, <3>2, <1>2 DEF Unrefused, Covered
    <3> QED  BY <2>4, <3>4, <3>5, <3>6 DEF Unrefused
  <2> QED  BY <1>8, <2>1, <2>5, <2>6
<1> QED  BY <1>2, <1>3, <1>4, <1>5, <1>6, <1>7, <1>8, OneRankSteps DEF RankInv

\* result() ends the wait of the program, or the program.
LEMMA TakeResultKeeps ==
    ASSUME IInv, NEW r \in Rank, TakeResult(r)
    PROVE  IInv'
<1>t. TypeOK /\ RankInv(r)
  BY DEF IInv
<1>1. /\ at[r]["main"].stage = "idle" /\ ip[r] <= Len(program)
      /\ program[ip[r]].kind = "result" /\ program[ip[r]].mod \in Module
  BY Types DEF TakeResult, MainFree, Next_, Call
<1>2. PICK s \in {"running", "dead"} :
         at' = [at EXCEPT ![r]["main"] = [Idle EXCEPT !.stage = s, !.mod = program[ip[r]].mod]]
  BY DEF TakeResult, Next_
<1> DEFINE x == [Idle EXCEPT !.stage = s, !.mod = program[ip[r]].mod]
<1>3. /\ x \in [stage : Stage, mod : Module \cup {None}, slot : Number \cup {None},
                occurrence : Number \cup {None}]
      /\ x.stage = s /\ x.mod = program[ip[r]].mod
  BY <1>1 DEF Idle, Stage
<1> HIDE DEF x
<1>4. UNCHANGED <<given, warm, number, ahead, claimed, queue, future, memo, record, built, ip>>
  BY DEF TakeResult
<1>5. ip[r] \in 1 .. Len(program) + 1 /\ ip' = [ip EXCEPT ![r] = ip[r]] /\ ip'[r] = ip[r]
  BY <1>4, <1>t DEF TypeOK
<1>6. at' = [at EXCEPT ![r]["main"] = x] /\ at'[r]["main"] = x
      /\ \A t \in Helpers : at'[r][t] = at[r][t]
  BY <1>2, <1>t, Types, HelpersAssumption DEF TypeOK, Thread, x
<1>7. Shape(r)'
  BY <1>1, <1>3, <1>4, <1>5, <1>6, <1>t DEF RankInv, Shape, AtMain, Compiling, given
<1>8. ~Failed(r)' => Reached(r)' = Reached(r) + 1 /\ Reached(r) = ip[r]
  BY <1>1, <1>3, <1>4, <1>5, <1>6 DEF Failed, Reached, AtMain
<1>9. ~Needs(program, ip[r])
  BY <1>1 DEF Needs
<1>10. at[r]["main"].stage \notin Compiling \cup {"dead"} /\ x.stage \notin Compiling
  BY <1>1, <1>3 DEF Compiling
<1> QED
  BY <1>1, <1>3, <1>4, <1>5, <1>6, <1>7, <1>8, <1>9, <1>10, MainMoves

\* A call asks for its executable.
LEMMA LiveCallKeeps ==
    ASSUME IInv, NEW r \in Rank, LiveCall(r)
    PROVE  IInv'
<1>t. TypeOK /\ RankInv(r)
  BY DEF IInv
<1>1. /\ at[r]["main"].stage = "idle" /\ ip[r] <= Len(program)
      /\ program[ip[r]].kind = "call" /\ program[ip[r]].mod \in Module
  BY Types DEF LiveCall, MainFree, Next_, Call
<1> DEFINE x == [Idle EXCEPT !.stage = "wants", !.mod = program[ip[r]].mod]
<1>2. at' = [at EXCEPT ![r]["main"] = x]
  BY DEF LiveCall, Next_
<1>3. /\ x \in [stage : Stage, mod : Module \cup {None}, slot : Number \cup {None},
                occurrence : Number \cup {None}]
      /\ x.stage = "wants" /\ x.mod = program[ip[r]].mod
  BY <1>1 DEF Idle, Stage
<1> HIDE DEF x
<1>4. UNCHANGED <<given, warm, number, ahead, claimed, queue, future, memo, record, built, ip>>
  BY DEF LiveCall
<1>5. ip[r] \in 1 .. Len(program) + 1 /\ ip' = [ip EXCEPT ![r] = ip[r]] /\ ip'[r] = ip[r]
  BY <1>4, <1>t DEF TypeOK
<1>6. at'[r]["main"] = x /\ \A t \in Helpers : at'[r][t] = at[r][t]
  BY <1>2, <1>t, Types, HelpersAssumption DEF TypeOK, Thread
<1>7. Shape(r)'
  BY <1>1, <1>3, <1>4, <1>5, <1>6, <1>t DEF RankInv, Shape, AtMain, Compiling, given
<1>8. /\ Reached(r) = ip[r]
      /\ Reached(r)' = IF program[ip[r]].mod \in memo[r] THEN ip[r] + 1 ELSE ip[r]
  BY <1>1, <1>3, <1>4, <1>5, <1>6 DEF Reached, AtMain
<1>9. Unrefused(r) /\ program[ip[r]].mod \in memo[r] => ~Needs(program, ip[r])
  BY <1>1, <1>8 DEF Needs, Unrefused, Known
<1>10. at[r]["main"].stage \notin Compiling \cup {"dead"} /\ x.stage \notin Compiling
  BY <1>1, <1>3 DEF Compiling
<1> QED
  BY <1>1, <1>2, <1>3, <1>4, <1>5, <1>7, <1>8, <1>9, <1>10, MainMoves

\* The executable is there: the program runs.
LEMMA FindExecutableKeeps ==
    ASSUME IInv, NEW r \in Rank, FindExecutable(r)
    PROVE  IInv'
<1>t. TypeOK /\ RankInv(r)
  BY DEF IInv
<1> DEFINE x == [at[r]["main"] EXCEPT !.stage = "running"]
<1>1. /\ at[r]["main"].stage = "wants" /\ at[r]["main"].mod \in memo[r]
      /\ at' = [at EXCEPT ![r]["main"].stage = "running"]
      /\ UNCHANGED <<given, warm, number, ahead, claimed, queue, future, memo, record, built, ip>>
  BY DEF FindExecutable
<1>2. at' = [at EXCEPT ![r]["main"] = x]
  BY <1>1
<1>3. /\ x \in [stage : Stage, mod : Module \cup {None}, slot : Number \cup {None},
                occurrence : Number \cup {None}]
      /\ x.stage = "running" /\ x.mod = at[r]["main"].mod
  <2>1. at[r]["main"] \in [stage : Stage, mod : Module \cup {None}, slot : Number \cup {None},
                           occurrence : Number \cup {None}]
    BY Types
  <2>2. "running" \in Stage
    BY DEF Stage
  <2> QED  BY <2>1, <2>2
<1> HIDE DEF x
<1>5. ip[r] \in 1 .. Len(program) + 1 /\ ip' = [ip EXCEPT ![r] = ip[r]] /\ ip'[r] = ip[r]
  BY <1>1, <1>t DEF TypeOK
<1>6. at'[r]["main"] = x /\ \A t \in Helpers : at'[r][t] = at[r][t]
  BY <1>2, <1>t, Types, HelpersAssumption DEF TypeOK, Thread
<1>7. Shape(r)'
  BY <1>1, <1>3, <1>5, <1>6, <1>t DEF RankInv, Shape, AtMain, Compiling, given
<1>8. Reached(r)' = Reached(r)
  BY <1>1, <1>3, <1>5, <1>6 DEF Reached, AtMain
<1>9. at[r]["main"].stage \notin Compiling \cup {"dead"} /\ x.stage \notin Compiling
  BY <1>1, <1>3 DEF Compiling
<1> QED
  BY <1>1, <1>2, <1>3, <1>5, <1>7, <1>8, <1>9, MainMoves

\* The call returns.
LEMMA AfterCallKeeps ==
    ASSUME IInv, NEW r \in Rank, at[r]["main"].stage = "running", AfterCall(r)
    PROVE  IInv'
<1>t. TypeOK /\ RankInv(r)
  BY DEF IInv
<1>1. /\ at' = [at EXCEPT ![r]["main"] = Idle] /\ ip' = [ip EXCEPT ![r] = ip[r] + 1]
      /\ UNCHANGED <<given, warm, number, ahead, claimed, queue, future, memo, record, built>>
  BY DEF AfterCall
<1>3. Idle \in [stage : Stage, mod : Module \cup {None}, slot : Number \cup {None},
                occurrence : Number \cup {None}]
      /\ Idle.stage = "idle"
  BY DEF Idle, Stage
<1>5. ip[r] + 1 \in 1 .. Len(program) + 1 /\ ip'[r] = ip[r] + 1
  BY <1>1, <1>t, Types DEF TypeOK, RankInv, Shape, AtMain
<1>6. at'[r]["main"] = Idle /\ \A t \in Helpers : at'[r][t] = at[r][t]
  BY <1>1, <1>t, Types, HelpersAssumption DEF TypeOK, Thread
<1>7. Shape(r)'
  BY <1>1, <1>3, <1>5, <1>6, <1>t DEF RankInv, Shape, AtMain, Compiling, given
<1>8. Reached(r)' = Reached(r)
  BY <1>1, <1>3, <1>5, <1>6 DEF Reached, AtMain
<1>9. at[r]["main"].stage \notin Compiling \cup {"dead"} /\ Idle.stage \notin Compiling
  BY <1>3 DEF Compiling
<1> QED
  BY <1>1, <1>3, <1>5, <1>7, <1>8, <1>9, MainMoves

-----------------------------------------------------------------------------
(* A submission, and the requests *)

\* A helper takes the next submission.
LEMMA TakeKeeps ==
    ASSUME IInv, NEW r \in Rank, Take(r)
    PROVE  IInv'
<1>t. TypeOK /\ RankInv(r)
  BY DEF IInv
<1> DEFINE free == {t \in Helpers : at[r][t].stage = "idle"}
           h == CHOOSE g \in free : TRUE
           first == Head(queue[r])
           x == [stage |-> "wants", mod |-> first.mod, slot |-> first.slot, occurrence |-> None]
<1>1. /\ h \in Helpers /\ at[r][h].stage = "idle" /\ queue[r] # <<>>
      /\ at' = [at EXCEPT ![r][h] = x]
      /\ queue' = [queue EXCEPT ![r] = Tail(@)]
      /\ UNCHANGED <<given, warm, ip, number, ahead, claimed, future, memo, record, built>>
  BY DEF Take
<1>2. /\ Len(queue[r]) \in Nat /\ Len(queue[r]) >= 1 /\ first = queue[r][1]
      /\ first \in [mod : Module, slot : Number]
      /\ Tail(queue[r]) \in Seq([mod : Module, slot : Number])
      /\ Len(Tail(queue[r])) = Len(queue[r]) - 1
      /\ \A i \in 1 .. Len(queue[r]) - 1 : Tail(queue[r])[i] = queue[r][i + 1]
  <2>1. queue[r] \in Seq([mod : Module, slot : Number]) /\ queue[r] # <<>>
    BY <1>1, Types
  <2>2. Len(queue[r]) \in Nat /\ Len(queue[r]) >= 1 /\ first = queue[r][1]
    BY <2>1
  <2>3. first \in [mod : Module, slot : Number]
    BY <2>1, HeadTailProperties
  <2>4. /\ Tail(queue[r]) \in Seq([mod : Module, slot : Number])
        /\ Len(Tail(queue[r])) = Len(queue[r]) - 1
        /\ \A i \in 1 .. Len(Tail(queue[r])) : Tail(queue[r])[i] = queue[r][i + 1]
    BY <2>1, HeadTailProperties
  <2> QED  BY <2>2, <2>3, <2>4
<1>3. /\ x \in [stage : Stage, mod : Module \cup {None}, slot : Number \cup {None},
                occurrence : Number \cup {None}]
      /\ x.stage = "wants" /\ x.mod = queue[r][1].mod /\ x.slot = queue[r][1].slot
      /\ x.mod \in Module /\ x.slot \in Number
  BY <1>2 DEF Stage
<1> HIDE DEF x, first, h, free
<1>4. /\ at'[r][h] = x /\ h # "main" /\ h \in Thread
      /\ \A t \in Thread \ {h} : at'[r][t] = at[r][t]
  BY <1>1, <1>t, Types, HelpersAssumption DEF TypeOK, Thread
<1>5. /\ queue'[r] = Tail(queue[r]) /\ ip'[r] = ip[r] /\ number'[r] = number[r]
      /\ ahead'[r] = ahead[r] /\ claimed'[r] = claimed[r] /\ future'[r] = future[r]
      /\ memo'[r] = memo[r] /\ record'[r] = record[r] /\ program' = program /\ key' = key
  BY <1>1, <1>t DEF TypeOK, given
<1>6. TypeOK'
  <2>1. at' \in [Rank -> [Thread -> [stage : Stage, mod : Module \cup {None},
                                   slot : Number \cup {None},
                                   occurrence : Number \cup {None}]]]
    BY <1>1, <1>3, <1>4, <1>t DEF TypeOK
  <2>2. queue' \in [Rank -> Seq([mod : Module, slot : Number])]
    BY <1>1, <1>2, <1>t DEF TypeOK
  <2> QED  BY <1>1, <1>t, <2>1, <2>2 DEF TypeOK, given
<1>7. \A q \in Rank \ {r} : Stays(q)
  BY <1>1, <1>t DEF Stays, TypeOK
<1>8. BuiltOK'
  BY <1>1, BuiltStays
<1>9. Shape(r)'
  BY <1>3, <1>4, <1>5, <1>t DEF RankInv, Shape, AtMain, Thread
<1>10. \A i \in 1 .. Len(queue'[r]) :
          i + 1 \in 1 .. Len(queue[r]) /\ i + 1 # 1 /\ queue'[r][i] = queue[r][i + 1]
  BY <1>2, <1>5
<1>11. Slots(r)'
  <2>1. \A i \in 1 .. Len(queue'[r]) : queue'[r][i].slot # x.slot
    BY <1>2, <1>3, <1>10, <1>t DEF RankInv, Slots
  <2>2. \A i \in 1 .. Len(queue'[r]) :
          /\ future[r][queue'[r][i].slot] = "pending"
          /\ \A j \in 1 .. Len(queue'[r]) : queue'[r][i].slot = queue'[r][j].slot => i = j
    <3>1. \A i, j \in 1 .. Len(queue[r]) : queue[r][i].slot = queue[r][j].slot => i = j
      BY <1>t DEF RankInv, Slots
    <3>6. \A i \in 1 .. Len(queue[r]) : future[r][queue[r][i].slot] = "pending"
      BY <1>t DEF RankInv, Slots
    <3>2. \A i \in 1 .. Len(queue'[r]) : i \in Int
      BY <1>2, <1>5
    <3>3. \A i, j \in Int : i + 1 = j + 1 => i = j
      OBVIOUS
    <3>4. ASSUME NEW i \in 1 .. Len(queue'[r]), NEW j \in 1 .. Len(queue'[r]),
                 queue'[r][i].slot = queue'[r][j].slot
          PROVE  i = j
      <4>1. queue[r][i + 1].slot = queue[r][j + 1].slot
        BY <1>10, <3>4
      <4>2. i + 1 = j + 1
        <5> DEFINE a == i + 1
                   b == j + 1
        <5>1. a \in 1 .. Len(queue[r]) /\ b \in 1 .. Len(queue[r])
              /\ queue[r][a].slot = queue[r][b].slot
          BY <1>10, <4>1
        <5> HIDE DEF a, b
        <5>2. a = b
          BY <3>1, <5>1
        <5> QED  BY <5>2 DEF a, b
      <4> QED  BY <3>2, <3>3, <4>2
    <3>5. \A i \in 1 .. Len(queue'[r]) : future[r][queue'[r][i].slot] = "pending"
      <4> TAKE i \in 1 .. Len(queue'[r])
      <4> DEFINE a == i + 1
      <4>1. a \in 1 .. Len(queue[r]) /\ queue'[r][i] = queue[r][a]
        BY <1>10
      <4> HIDE DEF a
      <4> QED  BY <3>6, <4>1
    <3> QED  BY <3>4, <3>5
  <2>3. \A i \in 1 .. Len(queue'[r]), t \in Helpers :
           at'[r][t].stage # "idle" => at'[r][t].slot # queue'[r][i].slot
    <3>1. \A i \in 1 .. Len(queue[r]), t \in Helpers :
             at[r][t].stage # "idle" => at[r][t].slot # queue[r][i].slot
      BY <1>t DEF RankInv, Slots
    <3> QED  BY SMTT(60), <2>1, <3>1, <1>4, <1>10 DEF Thread
  <2>4. \A t \in Helpers : at'[r][t].stage # "idle" =>
           future[r][at'[r][t].slot] = "pending"
    BY <1>2, <1>3, <1>4, <1>t DEF RankInv, Slots, Thread
  <2>5. \A t \in Helpers : at[r][t].stage # "idle" => at[r][t].slot # x.slot
    BY <1>2, <1>3, <1>t DEF RankInv, Slots
  <2>6. \A t, u \in Helpers : at'[r][t].stage # "idle" /\ at'[r][u].stage # "idle"
                               /\ at'[r][u].slot = at'[r][t].slot => u = t
    BY <2>5, <1>4, <1>t DEF RankInv, Slots, Thread
  <2> QED  BY <2>2, <2>3, <2>4, <2>6, <1>5, <1>t DEF RankInv, Slots
<1>12. Once(r)'
  <2>1. \A t \in Thread : at'[r][t].stage \in Compiling => at'[r][t] = at[r][t]
    BY <1>3, <1>4 DEF Compiling
  <2> QED  BY <2>1, <1>5, <1>t DEF RankInv, Once, Own, Compiling
<1>13. ASSUME ~Failed(r)' PROVE Unrefused(r)'
  <2>1. Unrefused(r)
    BY <1>13, <1>4, <1>5, <1>t, Types DEF Failed, RankInv
  <2>2. \A t \in Thread : at'[r][t].stage \in Compiling <=> at[r][t].stage \in Compiling
    BY <1>1, <1>3, <1>4 DEF Compiling
  <2>3. \A t \in Thread : at'[r][t].stage \in Compiling => at'[r][t] = at[r][t]
    BY <1>3, <1>4 DEF Compiling
  <2>4. Reached(r)' = Reached(r)
    BY <1>4, <1>5, Types DEF Reached, AtMain
  <2>5. Counted(r)' /\ Covered(r)'
    BY <2>1, <2>2, <2>3, <2>4, <1>5 DEF Unrefused, Counted, Covered
  <2>6. Known(r)'
    <3>1. Touched(program, Reached(r), x.mod)
      BY <2>1, <1>2, <1>3 DEF Unrefused, Known
    <3>2. \A i \in 1 .. Len(queue'[r]) : Touched(program, Reached(r), queue'[r][i].mod)
      BY <2>1, <1>10 DEF Unrefused, Known
    <3> QED  BY <3>1, <3>2, <2>1, <2>4, <1>4, <1>5 DEF Unrefused, Known, Thread
  <2>7. Named(r)'
    BY <2>1, <2>3, <1>5 DEF Unrefused, Named, Compiling
  <2> QED  BY <2>5, <2>6, <2>7 DEF Unrefused
<1> QED
  BY <1>5, <1>6, <1>7, <1>8, <1>9, <1>11, <1>12, <1>13, OneRankSteps DEF RankInv

\* The types of a request that ends badly.
LEMMA RaiseTypes ==
    ASSUME IInv, NEW r \in Rank, NEW t \in Thread, at[r][t].stage \in {"wants"} \cup Compiling,
           Raise(r, t),
           UNCHANGED <<given, warm, ip, number, claimed, queue, memo, record, built>>
    PROVE  TypeOK'
<1>t. TypeOK /\ RankInv(r)
  BY DEF IInv
<1>1. CASE t = "main"
  <2>1. at' = [at EXCEPT ![r]["main"].stage = "dead"] /\ UNCHANGED <<ahead, future>>
    BY <1>1 DEF Raise
  <2>2. at[r]["main"] \in [stage : Stage, mod : Module \cup {None}, slot : Number \cup {None},
                           occurrence : Number \cup {None}]
    BY Types
  <2>3. [at[r]["main"] EXCEPT !.stage = "dead"]
           \in [stage : Stage, mod : Module \cup {None}, slot : Number \cup {None},
                occurrence : Number \cup {None}]
    BY <2>2 DEF Stage
  <2>4. at' \in [Rank -> [Thread -> [stage : Stage, mod : Module \cup {None},
                                 slot : Number \cup {None},
                                 occurrence : Number \cup {None}]]]
    BY <2>1, <2>3, <1>t DEF TypeOK
  <2> QED  BY <2>1, <2>4, <1>t DEF TypeOK, given
<1>2. CASE t # "main"
  <2> DEFINE s == at[r][t].slot
             l == at[r][t].mod
  <2>0. t \in Helpers /\ s \in Number /\ l \in Module
    BY <1>2, <1>t DEF Thread, RankInv, Shape, Compiling
  <2>1. /\ at' = [at EXCEPT ![r][t] = Idle]
        /\ ahead' = [ahead EXCEPT ![r][l] = IF @ = s THEN None ELSE @]
        /\ future' = [future EXCEPT ![r][s] = "failed"]
    BY <1>2 DEF Raise, Forget
  <2> HIDE DEF s, l
  <2>2. Idle \in [stage : Stage, mod : Module \cup {None}, slot : Number \cup {None},
                  occurrence : Number \cup {None}]
    BY DEF Idle, Stage
  <2>3. at' \in [Rank -> [Thread -> [stage : Stage, mod : Module \cup {None},
                                 slot : Number \cup {None},
                                 occurrence : Number \cup {None}]]]
    BY <2>1, <2>2, <1>t DEF TypeOK
  <2>4. ahead' \in [Rank -> [Module -> Number \cup {None}]]
    BY <2>0, <2>1, <1>t DEF TypeOK
  <2>5. future' \in [Rank -> [Number -> {"none", "pending", "done", "failed"}]]
    BY <2>0, <2>1, <1>t DEF TypeOK
  <2> QED  BY <2>3, <2>4, <2>5, <1>t DEF TypeOK, given
<1> QED  BY <1>1, <1>2

\* A request ends badly: on a helper its future has failed and its entry is gone.
LEMMA RaiseKeeps ==
    ASSUME IInv, NEW r \in Rank, NEW t \in Thread, at[r][t].stage \in {"wants"} \cup Compiling,
           Raise(r, t),
           UNCHANGED <<given, warm, ip, number, claimed, queue, memo, record, built>>
    PROVE  IInv'
<1>t. TypeOK /\ RankInv(r)
  BY DEF IInv
<1>0. at[r][t].stage \notin {"idle", "dead", "running"}
  BY DEF Compiling
<1>1. /\ program' = program /\ key' = key /\ ip'[r] = ip[r] /\ number'[r] = number[r]
      /\ claimed'[r] = claimed[r] /\ queue'[r] = queue[r] /\ memo'[r] = memo[r]
      /\ record'[r] = record[r]
  BY <1>t DEF TypeOK, given
<1>2. CASE t = "main"
  <2>1. at' = [at EXCEPT ![r]["main"].stage = "dead"] /\ UNCHANGED <<ahead, future>>
    BY <1>2 DEF Raise
  <2>2. /\ at'[r]["main"].stage = "dead" /\ at'[r]["main"].mod = at[r]["main"].mod
        /\ \A u \in Helpers : at'[r][u] = at[r][u]
    BY <2>1, <1>t, Types, HelpersAssumption DEF TypeOK, Thread
  <2>3. ahead'[r] = ahead[r] /\ future'[r] = future[r]
    BY <2>1
  <2>4. \A q \in Rank \ {r} : Stays(q)
    BY <2>1, <1>t DEF Stays, TypeOK
  <2>5. Shape(r)'
    BY <2>2, <1>0, <1>1, <1>2, <1>t DEF RankInv, Shape, AtMain, Compiling
  <2>6. Slots(r)'
    BY <2>2, <2>3, <1>1, <1>t DEF RankInv, Slots
  <2>7. \A u \in Thread : at'[r][u].stage \in Compiling => at'[r][u] = at[r][u]
    BY <2>2 DEF Compiling, Thread
  <2>8. Once(r)'
    BY <2>3, <2>7, <1>1, <1>t DEF RankInv, Once, Own, Compiling
  <2>9. Failed(r)'
    BY <2>2 DEF Failed
  <2> QED  BY <2>4, <2>5, <2>6, <2>8, <2>9, <1>1, RaiseTypes, BuiltStays, OneRankSteps DEF RankInv
<1>3. CASE t # "main"
  <2> DEFINE s == at[r][t].slot
             l == at[r][t].mod
  <2>0. t \in Helpers /\ s \in Number /\ l \in Module
    BY <1>3, <1>0, <1>t DEF Thread, RankInv, Shape
  <2>1. /\ at' = [at EXCEPT ![r][t] = Idle]
        /\ ahead' = [ahead EXCEPT ![r][l] = IF @ = s THEN None ELSE @]
        /\ future' = [future EXCEPT ![r][s] = "failed"]
    BY <1>3 DEF Raise, Forget
  <2> HIDE DEF s, l
  <2>2. /\ at'[r][t].stage = "idle" /\ \A u \in Thread \ {t} : at'[r][u] = at[r][u]
    BY <2>1, <1>t, Types DEF TypeOK, Idle
  <2>3. \A m \in Module : ahead'[r][m] # None => ahead'[r][m] = ahead[r][m]
    BY <2>0, <2>1, <1>t, Types DEF TypeOK
  <2>4. future'[r][s] = "failed" /\ \A n \in Number \ {s} : future'[r][n] = future[r][n]
    BY <2>0, <2>1, <1>t, Types DEF TypeOK
  <2>5. \A q \in Rank \ {r} : Stays(q)
    BY <2>1, <1>t DEF Stays, TypeOK
  <2>6. Shape(r)'
    BY <2>2, <1>1, <1>3, <1>t DEF RankInv, Shape, AtMain, Thread
  <2>7. Slots(r)'
    <3>1. future[r][s] = "pending"
      BY <2>0, <1>0, <1>t DEF RankInv, Slots, s
    <3>2. \A n \in Number : future'[r][n] # "none" => n < number[r]
      BY <3>1, <2>0, <2>4, <1>t DEF RankInv, Slots
    <3>3. \A i \in 1 .. Len(queue[r]) : queue[r][i].slot # s /\ queue[r][i].slot \in Number
      <4>1. \A i \in 1 .. Len(queue[r]) : queue[r][i] \in [mod : Module, slot : Number]
        BY Types, ElementOfSeq
      <4> QED  BY <4>1, <2>0, <1>0, <1>t DEF RankInv, Slots, s
    <3>4. \A u \in Helpers \ {t} : at[r][u].stage # "idle" =>
             at[r][u].slot # s /\ at[r][u].slot \in Number
      BY <2>0, <1>0, <1>t DEF RankInv, Slots, Shape, s
    <3>5. \A u \in Helpers : at'[r][u].stage # "idle" => u # t /\ at'[r][u] = at[r][u]
      BY <2>2 DEF Thread
    <3>6. \A i \in 1 .. Len(queue[r]) : future'[r][queue[r][i].slot] = "pending"
      BY <3>3, <2>4, <1>t DEF RankInv, Slots
    <3>7. \A u \in Helpers : at'[r][u].stage # "idle" => future'[r][at'[r][u].slot] = "pending"
      BY <3>4, <3>5, <2>4, <1>t DEF RankInv, Slots
    <3> QED  BY <3>2, <3>5, <3>6, <3>7, <1>1, <1>t DEF RankInv, Slots
  <2>8. \A u \in Thread : at'[r][u].stage \in Compiling => at'[r][u] = at[r][u]
    BY <2>2 DEF Compiling
  <2>9. Once(r)'
    BY <2>3, <2>8, <1>1, <1>t DEF RankInv, Once, Own, Compiling
  <2>10. Failed(r)'
    BY <2>0, <2>4 DEF Failed
  <2> QED  BY <2>5, <2>6, <2>7, <2>9, <2>10, <1>1, RaiseTypes, BuiltStays, OneRankSteps DEF RankInv
<1> QED  BY <1>2, <1>3

\* A helper finds the executable, and its entry goes.
LEMMA LeaveKeeps ==
    ASSUME IInv, NEW r \in Rank, NEW t \in Thread, Leave(r, t)
    PROVE  IInv'
<1>t. TypeOK /\ RankInv(r)
  BY DEF IInv
<1> DEFINE s == at[r][t].slot
           l == at[r][t].mod
<1>0. /\ t \in Helpers /\ t # "main" /\ at[r][t].stage = "wants" /\ l \in memo[r]
      /\ s \in Number /\ l \in Module
  BY <1>t DEF Leave, Thread, RankInv, Shape
<1>1. /\ at' = [at EXCEPT ![r][t] = Idle]
      /\ ahead' = [ahead EXCEPT ![r][l] = IF @ = s THEN None ELSE @]
      /\ future' = [future EXCEPT ![r][s] = "done"]
      /\ UNCHANGED <<given, warm, ip, number, claimed, queue, memo, record, built>>
  BY DEF Leave, Forget
<1> HIDE DEF s, l
<1>2. /\ program' = program /\ key' = key /\ ip'[r] = ip[r] /\ number'[r] = number[r]
      /\ claimed'[r] = claimed[r] /\ queue'[r] = queue[r] /\ memo'[r] = memo[r]
      /\ record'[r] = record[r]
  BY <1>1, <1>t DEF TypeOK, given
<1>3. /\ at'[r][t].stage = "idle" /\ \A u \in Thread \ {t} : at'[r][u] = at[r][u]
  BY <1>1, <1>t, Types DEF TypeOK, Idle
<1>4. /\ \A m \in Module : ahead'[r][m] # None => ahead'[r][m] = ahead[r][m]
      /\ \A m \in Module \ {l} : ahead'[r][m] = ahead[r][m]
  BY <1>0, <1>1, <1>t, Types DEF TypeOK
<1>5. future'[r][s] = "done" /\ \A n \in Number \ {s} : future'[r][n] = future[r][n]
  BY <1>0, <1>1, <1>t, Types DEF TypeOK
<1>6. \A q \in Rank \ {r} : Stays(q)
  BY <1>1, <1>t DEF Stays, TypeOK
<1>7. TypeOK'
  <2>1. Idle \in [stage : Stage, mod : Module \cup {None}, slot : Number \cup {None},
                  occurrence : Number \cup {None}]
    BY DEF Idle, Stage
  <2>2. at' \in [Rank -> [Thread -> [stage : Stage, mod : Module \cup {None},
                                   slot : Number \cup {None},
                                   occurrence : Number \cup {None}]]]
    BY <2>1, <1>1, <1>t DEF TypeOK
  <2>3. ahead' \in [Rank -> [Module -> Number \cup {None}]]
    BY <1>0, <1>1, <1>t DEF TypeOK
  <2>4. future' \in [Rank -> [Number -> {"none", "pending", "done", "failed"}]]
    BY <1>0, <1>1, <1>t DEF TypeOK
  <2> QED  BY <2>2, <2>3, <2>4, <1>1, <1>t DEF TypeOK, given
<1>8. Shape(r)'
  BY <1>0, <1>2, <1>3, <1>t DEF RankInv, Shape, AtMain, Thread
<1>9. future[r][s] = "pending"
  BY <1>0, <1>t DEF RankInv, Slots, s
<1>10. Slots(r)'
  <2>2. \A n \in Number : future'[r][n] # "none" => n < number[r]
    BY <1>9, <1>0, <1>5, <1>t DEF RankInv, Slots
  <2>3. \A i \in 1 .. Len(queue[r]) : queue[r][i].slot # s /\ queue[r][i].slot \in Number
    <3>1. \A i \in 1 .. Len(queue[r]) : queue[r][i] \in [mod : Module, slot : Number]
      BY Types, ElementOfSeq
    <3> QED  BY <3>1, <1>0, <1>t DEF RankInv, Slots, s
  <2>4. \A u \in Helpers \ {t} : at[r][u].stage # "idle" =>
           at[r][u].slot # s /\ at[r][u].slot \in Number
    BY <1>0, <1>t DEF RankInv, Slots, Shape, s
  <2>5. \A u \in Helpers : at'[r][u].stage # "idle" => u # t /\ at'[r][u] = at[r][u]
    BY <1>3 DEF Thread
  <2>6. \A i \in 1 .. Len(queue[r]) : future'[r][queue[r][i].slot] = "pending"
    BY <2>3, <1>5, <1>t DEF RankInv, Slots
  <2>7. \A u \in Helpers : at'[r][u].stage # "idle" => future'[r][at'[r][u].slot] = "pending"
    BY <2>4, <2>5, <1>5, <1>t DEF RankInv, Slots
  <2> QED  BY <2>2, <2>5, <2>6, <2>7, <1>2, <1>t DEF RankInv, Slots
<1>11. \A u \in Thread : /\ at'[r][u].stage \in Compiling => at'[r][u] = at[r][u]
                         /\ at[r][u].stage \in Compiling => at'[r][u] = at[r][u]
  BY <1>0, <1>3 DEF Compiling
<1>12. Once(r)'
  BY <1>4, <1>11, <1>2, <1>t DEF RankInv, Once, Own, Compiling
<1>13. ASSUME ~Failed(r)' PROVE Unrefused(r)'
  <2>1. Unrefused(r)
    <3>1. at'[r]["main"] = at[r]["main"]
      BY <1>0, <1>3, Types
    <3> QED  BY <3>1, <1>13, <1>5, <1>9, <1>0, <1>t DEF Failed, RankInv
  <2>2. Reached(r)' = Reached(r)
    BY <1>0, <1>2, <1>3, Types DEF Reached, AtMain
  <2>3. Counted(r)' /\ Known(r)'
    BY <2>1, <2>2, <1>2, <1>3, <1>4 DEF Unrefused, Counted, Known, Thread
  <2>4. Covered(r)'
    BY <2>1, <2>2, <1>0, <1>2, <1>4, <1>11 DEF Unrefused, Covered
  <2>5. Named(r)'
    BY <2>1, <1>2, <1>4, <1>11 DEF Unrefused, Named, Compiling
  <2> QED  BY <2>3, <2>4, <2>5 DEF Unrefused
<1> QED
  BY <1>1, <1>2, <1>6, <1>7, <1>8, <1>10, <1>12, <1>13, BuiltStays, OneRankSteps DEF RankInv

\* A thread claims the entry of its module; an entry claimed before has failed.
LEMMA ClaimKeeps ==
    ASSUME IInv, NEW r \in Rank, NEW t \in Thread, Claim(r, t)
    PROVE  IInv'
<1>t. TypeOK /\ RankInv(r)
  BY DEF IInv
<1> DEFINE l == at[r][t].mod
           e == ahead[r][l]
<1>0. /\ at[r][t].stage = "wants" /\ l \notin memo[r]
      /\ \A u \in Thread : at[r][u].mod = l => at[r][u].stage \notin Compiling
  BY DEF Claim, MayCompile, Compiling
<1>a. l \in Module
  BY <1>0, <1>t, Types DEF RankInv, Shape, AtMain, Thread, Call
<1>b. e \in Number \cup {None}
  BY <1>a, Types
<1>1. CASE e \in claimed[r]
  <2>1. Raise(r, t) /\ UNCHANGED claimed
        /\ UNCHANGED <<given, warm, ip, number, queue, memo, record, built>>
    BY <1>1 DEF Claim
  <2> QED  BY <2>1, <1>0, RaiseKeeps
<1>2. CASE e \notin claimed[r]
  <2>1. /\ claimed' = [claimed EXCEPT ![r] = @ \cup ({e} \ {None})]
        /\ at' = [at EXCEPT ![r][t].stage = "claimed", ![r][t].occurrence = e]
        /\ UNCHANGED <<ahead, future>>
        /\ UNCHANGED <<given, warm, ip, number, queue, memo, record, built>>
    BY <1>2 DEF Claim
  <2> HIDE DEF l, e
  <2>2. /\ program' = program /\ key' = key /\ ip'[r] = ip[r] /\ number'[r] = number[r]
        /\ ahead'[r] = ahead[r] /\ future'[r] = future[r]
        /\ queue'[r] = queue[r] /\ memo'[r] = memo[r] /\ record'[r] = record[r]
        /\ claimed'[r] = claimed[r] \cup ({e} \ {None})
    BY <2>1, <1>t DEF TypeOK, given
  <2>3. /\ at'[r][t].stage = "claimed" /\ at'[r][t].occurrence = e
        /\ at'[r][t].mod = l /\ at'[r][t].slot = at[r][t].slot
        /\ \A u \in Thread \ {t} : at'[r][u] = at[r][u]
    BY <2>1, <1>t, Types DEF TypeOK, l
  <2>4. TypeOK'
    <3>1. [at[r][t] EXCEPT !.stage = "claimed", !.occurrence = e]
             \in [stage : Stage, mod : Module \cup {None}, slot : Number \cup {None},
                  occurrence : Number \cup {None}]
      <4>1. at[r][t] \in [stage : Stage, mod : Module \cup {None}, slot : Number \cup {None},
                          occurrence : Number \cup {None}]
        BY Types
      <4>2. "claimed" \in Stage
        BY DEF Stage
      <4> QED  BY <4>1, <4>2, <1>b
    <3>0. at' = [at EXCEPT ![r] = [at[r] EXCEPT ![t] =
                     [at[r][t] EXCEPT !.stage = "claimed", !.occurrence = e]]]
      BY <2>1, <1>t DEF TypeOK
    <3>2. at' \in [Rank -> [Thread -> [stage : Stage, mod : Module \cup {None},
                                   slot : Number \cup {None},
                                   occurrence : Number \cup {None}]]]
      <4>1. [at[r] EXCEPT ![t] = [at[r][t] EXCEPT !.stage = "claimed", !.occurrence = e]]
              \in [Thread -> [stage : Stage, mod : Module \cup {None},
                              slot : Number \cup {None}, occurrence : Number \cup {None}]]
        BY <3>1, Types
      <4> QED  BY <3>0, <4>1, <1>t DEF TypeOK
    <3>3. claimed' \in [Rank -> SUBSET Number]
      BY <2>1, <1>b, <1>t DEF TypeOK
    <3> QED  BY <3>2, <3>3, <2>1, <1>t DEF TypeOK, given
  <2>5. \A q \in Rank \ {r} : Stays(q)
    BY <2>1, <1>t DEF Stays, TypeOK
  <2>6. Shape(r)'
    BY <2>2, <2>3, <1>0, <1>t DEF RankInv, Shape, AtMain, Thread, Compiling, l
  <2>7. Slots(r)'
    <3>1. \A u \in Helpers : /\ at'[r][u].slot = at[r][u].slot
                             /\ at'[r][u].stage # "idle" => at[r][u].stage # "idle"
      BY <2>3, <1>0 DEF Thread
    <3> QED  BY <3>1, <2>2, <1>t DEF RankInv, Slots
  <2>8. e # None => e < number[r] /\ record[r][e] = NoRecord
    BY <1>2, <1>a, <1>t DEF RankInv, Once, e
  <2>9. Once(r)'
    <3>1. \A n \in Number : n \in claimed'[r] \/ record'[r][n] # NoRecord => n < number'[r]
      BY <2>2, <2>8, <1>t DEF RankInv, Once
    <3>2. \A m \in Module : ahead'[r][m] # None =>
            /\ ahead'[r][m] < number'[r]
            /\ ahead'[r][m] \notin claimed'[r] => record'[r][ahead'[r][m]] = NoRecord
      BY <2>2, <1>t DEF RankInv, Once
    <3>3. \A u \in Thread \ {t} : at'[r][u].stage = "claimed" /\ at'[r][u].occurrence # None =>
            at'[r][u].occurrence # e
      BY <2>3, <1>2, <1>t DEF RankInv, Once
    <3>4. \A u \in Thread : at'[r][u].stage = "claimed" /\ at'[r][u].occurrence # None =>
            /\ at'[r][u].occurrence \in claimed'[r]
            /\ record'[r][at'[r][u].occurrence] = NoRecord
            /\ \A v \in Thread : at'[r][v].stage = "claimed"
                                 /\ at'[r][v].occurrence = at'[r][u].occurrence => v = u
      <4> TAKE u \in Thread
      <4>1. CASE u = t
        BY <4>1, <3>3, <2>2, <2>3, <2>8
      <4>2. CASE u # t
        BY <4>2, <3>3, <2>2, <2>3, <1>t DEF RankInv, Once
      <4> QED  BY <4>1, <4>2
    <3>5. \A u \in Thread : at'[r][u].stage = "published" =>
            /\ at'[r][u].occurrence # None
            /\ record'[r][at'[r][u].occurrence]
                 = [mod |-> at'[r][u].mod, key |-> key'[r][at'[r][u].mod]]
      BY <2>2, <2>3, <1>t DEF RankInv, Once, Own
    <3> QED  BY <3>1, <3>2, <3>4, <3>5 DEF Once, Own
  <2>10. ASSUME ~Failed(r)' PROVE Unrefused(r)'
    <3>1. Unrefused(r)
      <4>1. at[r]["main"].stage = "dead" => at'[r]["main"].stage = "dead"
        BY <2>3, <1>0, Types
      <4> QED  BY <4>1, <2>10, <2>2, <1>t DEF Failed, RankInv
    <3>2. Reached(r)' = Reached(r)
      BY <2>2, <2>3, <1>0, Types DEF Reached, AtMain, l
    <3>3. Counted(r)'
      BY <3>1, <3>2, <2>2 DEF Unrefused, Counted
    <3>4. Known(r)'
      <4>1. \A u \in Helpers : /\ at'[r][u].mod = at[r][u].mod
                               /\ at'[r][u].stage # "idle" => at[r][u].stage # "idle"
        BY <2>3, <1>0 DEF Thread, l
      <4> QED  BY <4>1, <3>1, <3>2, <2>2 DEF Unrefused, Known
    <3>5. Covered(r)'
      <4>1. \A u \in Thread : at[r][u].stage \in Compiling => at'[r][u] = at[r][u]
        BY <2>3, <1>0 DEF Compiling
      <4>2. at'[r][t].mod = l /\ at'[r][t].stage \in Compiling
        BY <2>3 DEF Compiling
      <4>3. ASSUME NEW m \in Module, m # l, Touched(program, Reached(r), m)
            PROVE  \/ m \in memo'[r]
                   \/ \E u \in Thread : at'[r][u].mod = m /\ at'[r][u].stage \in Compiling
                   \/ ahead'[r][m] # None /\ ahead'[r][m] \notin claimed'[r]
        <5>1. CASE ahead[r][m] # None /\ ahead[r][m] \notin claimed[r] /\ ahead[r][m] = e
          \* Two modules never share a number.
          <6>1. Names(program, e, m) /\ Names(program, e, l)
            BY <5>1, <3>1, <1>a DEF Unrefused, Named, e
          <6> QED  BY <6>1, <4>3, OneName, Types
        <5> QED  BY <5>1, <4>1, <4>3, <3>1, <2>2 DEF Unrefused, Covered
      <4> QED  BY <4>2, <4>3, <3>2, <2>2 DEF Covered
    <3>6. Named(r)'
      <4>1. CASE e = None
        \* Only a live call meets its module first.
        <5>1. ~Touched(program, Reached(r), l)
          BY <4>1, <3>1, <1>0, <1>a DEF Unrefused, Covered, e
        <5>2. t = "main"
          BY <5>1, <3>1, <1>0 DEF Unrefused, Known, Thread, l
        <5>3. Reached(r) = ip[r] /\ program[ip[r]].kind = "call" /\ program[ip[r]].mod = l
          BY <5>2, <1>0, <1>t DEF RankInv, Shape, Reached, AtMain, l
        <5>4. Needs(program, ip[r])
          BY <5>1, <5>3 DEF Needs
        <5> QED  BY <4>1, <5>2, <5>4, <3>1, <2>2, <2>3 DEF Unrefused, Named
      <4>2. CASE e # None
        <5>1. Names(program, e, l) /\ Touched(program, Reached(r), l)
          BY <4>2, <3>1, <1>a DEF Unrefused, Named, Known, e
        <5>2. t = "main" => ~Needs(program, ip[r])
          <6>1. t = "main" =>
                  Reached(r) = ip[r] /\ program[ip[r]].kind = "call" /\ program[ip[r]].mod = l
            BY <1>0, <1>t DEF RankInv, Shape, Reached, AtMain, l
          <6> QED  BY <6>1, <5>1 DEF Needs
        <5> QED  BY <4>2, <5>1, <5>2, <3>1, <2>2, <2>3 DEF Unrefused, Named
      <4> QED  BY <4>1, <4>2
    <3> QED  BY <3>3, <3>4, <3>5, <3>6 DEF Unrefused
  <2> QED
    BY <2>1, <2>2, <2>4, <2>5, <2>6, <2>7, <2>9, <2>10, BuiltStays, OneRankSteps DEF RankInv
<1> QED  BY <1>1, <1>2

\* The module of a thread that is not idle, and what it publishes.
LEMMA Modules ==
    ASSUME IInv, NEW r \in Rank, NEW t \in Thread, at[r][t].stage # "idle"
    PROVE  at[r][t].mod \in Module /\ Own(r, at[r][t].mod) \in Record
           /\ Own(r, at[r][t].mod) # NoRecord
<1>1. at[r][t].mod \in Module
  BY Types DEF IInv, RankInv, Shape, AtMain, Thread, Call
<1>2. key[r][at[r][t].mod] \in {"common", "own"}
  BY <1>1 DEF IInv, TypeOK
<1> QED  BY <1>1, <1>2, NoneAssumption DEF Own, Record, NoRecord

\* A request is published under its number, reserved or next.
LEMMA PublishKeeps ==
    ASSUME IInv, NEW r \in Rank, NEW t \in Thread, Publish(r, t)
    PROVE  IInv'
<1>t. TypeOK /\ RankInv(r)
  BY DEF IInv
<1> DEFINE l == at[r][t].mod
           fresh == at[r][t].occurrence = None
           n == IF fresh THEN number[r] ELSE at[r][t].occurrence
<1>1. /\ at[r][t].stage = "claimed" /\ n < MaxNumber
      /\ number' = [number EXCEPT ![r] = IF fresh THEN n + 1 ELSE @]
      /\ record' = [record EXCEPT ![r][n] = Own(r, l)]
      /\ at' = [at EXCEPT ![r][t].stage = "published", ![r][t].occurrence = n]
      /\ UNCHANGED <<given, warm, ip, ahead, claimed, queue, future, memo, built>>
  BY DEF Publish
<1>2. n \in Number /\ n \in Nat /\ n # None
  <2>1. CASE fresh
    BY <2>1, <1>1, Types, MaxNumberAssumption DEF Number, None
  <2>2. CASE ~fresh
    BY <2>2, Types DEF Number
  <2> QED  BY <2>1, <2>2
<1>3. record[r][n] = NoRecord /\ (~fresh => n \in claimed[r] /\ n < number[r])
  BY <1>1, <1>2, <1>t, Types DEF RankInv, Once
<1>4. fresh => n = number[r]
  OBVIOUS
<1>5. ~fresh => n = at[r][t].occurrence
  OBVIOUS
<1>6. l \in Module /\ Own(r, l) \in Record /\ Own(r, l) # NoRecord
  BY <1>1, Modules
<1> HIDE DEF l, fresh, n
<1>7. /\ program' = program /\ key' = key /\ ip'[r] = ip[r] /\ ahead'[r] = ahead[r]
      /\ claimed'[r] = claimed[r] /\ queue'[r] = queue[r] /\ future'[r] = future[r]
      /\ memo'[r] = memo[r] /\ number'[r] = IF fresh THEN n + 1 ELSE number[r]
      /\ record'[r][n] = Own(r, l) /\ \A i \in Number \ {n} : record'[r][i] = record[r][i]
  BY <1>1, <1>2, <1>t, Types DEF TypeOK, given
<1>8. /\ at'[r][t].stage = "published" /\ at'[r][t].occurrence = n
      /\ at'[r][t].mod = l /\ at'[r][t].slot = at[r][t].slot
      /\ \A u \in Thread \ {t} : at'[r][u] = at[r][u]
  BY <1>1, <1>t, Types DEF TypeOK, l
<1>9. TypeOK'
  <2>1. at' \in [Rank -> [Thread -> [stage : Stage, mod : Module \cup {None},
                                   slot : Number \cup {None},
                                   occurrence : Number \cup {None}]]]
    <3>1. at[r][t] \in [stage : Stage, mod : Module \cup {None}, slot : Number \cup {None},
                        occurrence : Number \cup {None}]
      BY Types
    <3>2. "published" \in Stage
      BY DEF Stage
    <3>3. [at[r][t] EXCEPT !.stage = "published", !.occurrence = n]
             \in [stage : Stage, mod : Module \cup {None}, slot : Number \cup {None},
                  occurrence : Number \cup {None}]
      BY <3>1, <3>2, <1>2
    <3>4. at' = [at EXCEPT ![r] = [at[r] EXCEPT ![t] =
                     [at[r][t] EXCEPT !.stage = "published", !.occurrence = n]]]
      BY <1>1, <1>t DEF TypeOK
    <3>5. [at[r] EXCEPT ![t] = [at[r][t] EXCEPT !.stage = "published", !.occurrence = n]]
              \in [Thread -> [stage : Stage, mod : Module \cup {None},
                              slot : Number \cup {None}, occurrence : Number \cup {None}]]
      BY <3>3, Types
    <3> QED  BY <3>4, <3>5, <1>t DEF TypeOK
  <2>2. record' \in [Rank -> [Number -> Record \cup {NoRecord}]]
    BY <1>1, <1>2, <1>6, <1>t DEF TypeOK
  <2>3. number' \in [Rank -> 0 .. MaxNumber]
    <3>1. fresh => n + 1 \in 0 .. MaxNumber
      BY <1>1, <1>2, MaxNumberAssumption
    <3> QED  BY <3>1, <1>1, <1>t DEF TypeOK
  <2> QED  BY <2>1, <2>2, <2>3, <1>1, <1>t DEF TypeOK, given
<1>10. \A q \in Rank \ {r} : Stays(q)
  BY <1>1, <1>t DEF Stays, TypeOK
<1>11. BuiltOK'
  <2>1. \A q \in Rank, i \in Number : record[q][i] # NoRecord => record'[q][i] = record[q][i]
    BY <1>1, <1>3, <1>7, <1>t DEF TypeOK
  <2> QED  BY <2>1, <1>1, BuiltStays
<1>12. Shape(r)'
  <2>1. Shape(r)
    BY <1>t DEF RankInv
  <2>2. \A u \in Thread :
          /\ at'[r][u].mod = at[r][u].mod /\ at'[r][u].slot = at[r][u].slot
          /\ \/ at'[r][u].stage = at[r][u].stage
             \/ at[r][u].stage = "claimed" /\ at'[r][u].stage = "published"
    BY <1>1, <1>8 DEF l
  <2>3. "main" \in Thread /\ Helpers \subseteq Thread
    BY DEF Thread
  <2>4. /\ at[r]["main"].stage = "idle" => at'[r]["main"].stage = "idle"
        /\ at'[r]["main"].stage # "idle" => at[r]["main"].stage # "idle"
        /\ at'[r]["main"].stage \in {"wants"} \cup Compiling =>
             at[r]["main"].stage \in {"wants"} \cup Compiling
        /\ at'[r]["main"].stage = "running" => at[r]["main"].stage = "running"
        /\ at'[r]["main"].mod = at[r]["main"].mod
    BY <2>2, <2>3 DEF Compiling
  <2>5. ASSUME NEW u \in Helpers, at'[r][u].stage # "idle"
        PROVE  /\ at'[r][u].mod \in Module /\ at'[r][u].slot \in Number
               /\ at'[r][u].stage \in {"wants"} \cup Compiling
    BY <2>1, <2>2, <2>3, <2>5 DEF Shape, Compiling
  <2>6. /\ at[r]["main"].stage # "idle" => /\ ip[r] <= Len(program)
                                           /\ at[r]["main"].mod = program[ip[r]].mod
                                           /\ program[ip[r]].kind # "ahead"
        /\ at[r]["main"].stage \in {"wants"} \cup Compiling => program[ip[r]].kind = "call"
        /\ at[r]["main"].stage = "running" /\ program[ip[r]].kind = "call" =>
             at[r]["main"].mod \in memo[r]
    BY <2>1 DEF Shape, AtMain
  <2> QED  BY <2>4, <2>5, <2>6, <1>7 DEF Shape, AtMain
<1>13. number[r] \in Nat /\ number'[r] \in Nat /\ number[r] <= number'[r]
       /\ (fresh => number'[r] = number[r] + 1)
  BY <1>2, <1>4, <1>7, Types
<1>14. Slots(r)'
  <2>1. \A u \in Helpers : /\ at'[r][u].slot = at[r][u].slot
                           /\ at'[r][u].stage # "idle" => at[r][u].stage # "idle"
    BY <1>1, <1>8 DEF Thread
  <2>2. \A i \in Number : future[r][i] # "none" => i < number'[r]
    BY <1>13, <1>t, Types DEF RankInv, Slots
  <2> QED  BY <2>1, <2>2, <1>7, <1>t DEF RankInv, Slots
<1>15. Once(r)'
  <2>1. \A i \in Number : i \in claimed'[r] \/ record'[r][i] # NoRecord => i < number'[r]
    <3>1. n < number'[r]
      BY <1>2, <1>3, <1>4, <1>7, <1>13
    <3>2. \A i \in Number : i \in claimed[r] \/ record[r][i] # NoRecord => i < number[r]
      BY <1>t DEF RankInv, Once
    <3>3. \A i \in Number : i < number[r] => i < number'[r]
      BY <1>13, Types
    <3> QED  BY <3>1, <3>2, <3>3, <1>7
  <2>2. \A m \in Module : ahead[r][m] # None =>
          /\ ahead[r][m] < number'[r]
          /\ ahead[r][m] \notin claimed[r] => record'[r][ahead[r][m]] = NoRecord
    <3> SUFFICES ASSUME NEW m \in Module, ahead[r][m] # None
                 PROVE  /\ ahead[r][m] < number'[r]
                        /\ ahead[r][m] \notin claimed[r] => record'[r][ahead[r][m]] = NoRecord
      OBVIOUS
    <3>1. ahead[r][m] \in Number /\ ahead[r][m] \in Nat /\ ahead[r][m] < number[r]
          /\ (ahead[r][m] \notin claimed[r] => record[r][ahead[r][m]] = NoRecord)
      BY <1>t, Types DEF RankInv, Once
    <3>2. ahead[r][m] \notin claimed[r] => ahead[r][m] # n
      BY <3>1, <1>3, <1>4, <1>13
    <3> QED  BY <3>1, <3>2, <1>7, <1>13
  <2>3. \A u \in Thread \ {t} : at[r][u].stage = "claimed" /\ at[r][u].occurrence # None =>
          at[r][u].occurrence # n /\ at[r][u].occurrence \in Number
    <3> TAKE u \in Thread \ {t}
    <3>1. CASE fresh
      BY <3>1, <1>4, <1>13, <1>t, Types DEF RankInv, Once
    <3>2. CASE ~fresh
      BY <3>2, <1>1, <1>2, <1>5, <1>t, Types DEF RankInv, Once
    <3> QED  BY <3>1, <3>2
  <2>4. \A u \in Thread : at'[r][u].stage = "claimed" => u # t /\ at'[r][u] = at[r][u]
    BY <1>8
  <2>5. \A u \in Thread : at'[r][u].stage = "claimed" /\ at'[r][u].occurrence # None =>
          /\ at'[r][u].occurrence \in claimed[r]
          /\ record'[r][at'[r][u].occurrence] = NoRecord
          /\ \A v \in Thread : at'[r][v].stage = "claimed"
                               /\ at'[r][v].occurrence = at'[r][u].occurrence => v = u
    BY <2>3, <2>4, <1>7, <1>t DEF RankInv, Once
  <2>6. \A u \in Thread : at'[r][u].stage = "published" =>
          /\ at'[r][u].occurrence # None
          /\ record'[r][at'[r][u].occurrence]
               = [mod |-> at'[r][u].mod, key |-> key[r][at'[r][u].mod]]
    <3> SUFFICES ASSUME NEW u \in Thread, at'[r][u].stage = "published"
                 PROVE  /\ at'[r][u].occurrence # None
                        /\ record'[r][at'[r][u].occurrence]
                             = [mod |-> at'[r][u].mod, key |-> key[r][at'[r][u].mod]]
      OBVIOUS
    <3>1. CASE u = t
      BY <3>1, <1>2, <1>7, <1>8 DEF Own
    <3>2. CASE u # t
      <4>1. at'[r][u] = at[r][u]
        BY <3>2, <1>8
      <4>2. /\ at[r][u].occurrence # None /\ at[r][u].occurrence \in Number
            /\ record[r][at[r][u].occurrence] = Own(r, at[r][u].mod)
        BY <4>1, <1>t, Types DEF RankInv, Once
      <4>3. at[r][u].occurrence # n
        BY <4>1, <4>2, <1>3, Modules
      <4> QED  BY <4>1, <4>2, <4>3, <1>7 DEF Own
    <3> QED  BY <3>1, <3>2
  <2> QED  BY <2>1, <2>2, <2>5, <2>6, <1>7 DEF Once, Own
<1>16. ASSUME ~Failed(r)' PROVE Unrefused(r)'
  <2>1. Unrefused(r)
    <3>1. at[r]["main"].stage = "dead" => at'[r]["main"].stage = "dead"
      BY <1>8, <1>1, Types
    <3> QED  BY <3>1, <1>16, <1>7, <1>t DEF Failed, RankInv
  <2>2. CASE t = "main"
    <3>1. /\ Reached(r) = ip[r] /\ Reached(r)' = ip[r] + 1 /\ ip[r] <= Len(program)
          /\ program[ip[r]].kind = "call" /\ program[ip[r]].mod = l
      BY <2>2, <1>1, <1>7, <1>8, <1>t DEF RankInv, Shape, Reached, AtMain, Compiling, l
    <3>2. ip[r] \in Nat \ {0} /\ ip[r] \in 1 .. Len(program) + 1 /\ Len(program) \in Nat
          /\ program \in Seq(Call)
      BY Types
    <3>3. fresh <=> Needs(program, ip[r])
      BY <2>1, <2>2, <1>1 DEF Unrefused, Named, fresh
    <3>4. Count(program, ip[r] + 1) = Count(program, ip[r]) + IF fresh THEN 1 ELSE 0
      BY <3>1, <3>2, <3>3, Counting
    <3>5. Counted(r)'
      BY <2>1, <3>1, <3>2, <3>4, <1>4, <1>7, Counting DEF Unrefused, Counted
    <3>6. /\ \A m : Touched(program, ip[r], m) => Touched(program, ip[r] + 1, m)
          /\ \A m : Touched(program, ip[r] + 1, m) => Touched(program, ip[r], m) \/ m = l
      BY <3>1, <3>2, Later
    <3>7. Known(r)'
      <4>1. \A u \in Helpers : at'[r][u] = at[r][u]
        BY <2>2, <1>8, HelpersAssumption DEF Thread
      <4> QED  BY <4>1, <2>1, <3>1, <3>6, <1>7 DEF Unrefused, Known
    <3>8. Covered(r)'
      <4>1. \A u \in Thread : at[r][u].stage \in Compiling =>
                at'[r][u].stage \in Compiling /\ at'[r][u].mod = at[r][u].mod
        BY <1>8 DEF Compiling, l
      <4>2. at'[r][t].stage \in Compiling /\ at'[r][t].mod = l
        BY <1>8 DEF Compiling
      <4> QED  BY <4>1, <4>2, <2>1, <3>1, <3>6, <1>7 DEF Unrefused, Covered
    <3>9. Names(program, n, l)
      <4>1. CASE fresh
        BY <4>1, <2>1, <3>1, <3>2, <3>3, <1>4 DEF Unrefused, Counted, Names
      <4>2. CASE ~fresh
        BY <4>2, <2>1, <1>1, <1>2, <1>5 DEF Unrefused, Named, l
      <4> QED  BY <4>1, <4>2
    <3>10. Named(r)'
      <4>1. \A i \in Number : record'[r][i] # NoRecord => Names(program, i, record'[r][i].mod)
        BY <2>1, <3>9, <1>7 DEF Unrefused, Named, Own
      <4>2. \A u \in Thread : at'[r][u].stage = "claimed" => u # t /\ at'[r][u] = at[r][u]
        BY <1>8
      <4> QED  BY <4>1, <4>2, <2>1, <1>7 DEF Unrefused, Named
    <3> QED  BY <3>5, <3>7, <3>8, <3>10 DEF Unrefused
  <2>3. CASE t # "main"
    <3>1. ~fresh
      BY <2>1, <2>3, <1>1 DEF Unrefused, Named, fresh
    <3>2. Reached(r)' = Reached(r)
      BY <2>3, <1>7, <1>8, Types DEF Reached, AtMain
    <3>3. Counted(r)'
      BY <2>1, <3>1, <3>2, <1>7 DEF Unrefused, Counted
    <3>4. Known(r)'
      <4>1. \A u \in Helpers : /\ at'[r][u].mod = at[r][u].mod
                               /\ at'[r][u].stage # "idle" => at[r][u].stage # "idle"
        BY <1>1, <1>8 DEF Thread, l
      <4> QED  BY <4>1, <2>1, <3>2, <1>7 DEF Unrefused, Known
    <3>5. Covered(r)'
      <4>1. \A u \in Thread : at[r][u].stage \in Compiling =>
                at'[r][u].stage \in Compiling /\ at'[r][u].mod = at[r][u].mod
        BY <1>8 DEF Compiling, l
      <4> QED  BY <4>1, <2>1, <3>2, <1>7 DEF Unrefused, Covered
    <3>6. Named(r)'
      <4>0. Names(program, n, l)
        BY <2>1, <3>1, <1>1, <1>2, <1>5 DEF Unrefused, Named, l
      <4>1. \A i \in Number : record'[r][i] # NoRecord => Names(program, i, record'[r][i].mod)
        BY <2>1, <4>0, <1>7 DEF Unrefused, Named, Own
      <4>2. \A u \in Thread : at'[r][u].stage = "claimed" => u # t /\ at'[r][u] = at[r][u]
        BY <1>8
      <4> QED  BY <4>1, <4>2, <2>1, <1>7 DEF Unrefused, Named
    <3> QED  BY <3>3, <3>4, <3>5, <3>6 DEF Unrefused
  <2> QED  BY <2>2, <2>3
<1> QED
  BY <1>7, <1>9, <1>10, <1>11, <1>12, <1>14, <1>15, <1>16, OneRankSteps DEF RankInv

\* The executable is on the lowering.
LEMMA CompiledKeeps ==
    ASSUME IInv, NEW r \in Rank, NEW t \in Thread, at[r][t].stage = "published",
           Compiled(r, t), warm' \in [Rank -> SUBSET Module], built' \in [Rank -> SUBSET Number],
           UNCHANGED <<given, ip, number, ahead, claimed, queue, future, record>>,
           BuiltOK'
    PROVE  IInv'
<1>t. TypeOK /\ RankInv(r)
  BY DEF IInv
<1> DEFINE l == at[r][t].mod
<1>1. /\ memo' = [memo EXCEPT ![r] = @ \cup {l}]
      /\ at' = [at EXCEPT ![r][t].stage = "wants"]
  BY DEF Compiled
<1>2. l \in Module
  BY Modules
<1> HIDE DEF l
<1>7. /\ program' = program /\ key' = key /\ ip'[r] = ip[r] /\ ahead'[r] = ahead[r]
      /\ claimed'[r] = claimed[r] /\ queue'[r] = queue[r] /\ future'[r] = future[r]
      /\ number'[r] = number[r] /\ record'[r] = record[r] /\ memo'[r] = memo[r] \cup {l}
  BY <1>1, <1>t, Types DEF TypeOK, given
<1>8. /\ at'[r][t].stage = "wants" /\ at'[r][t].occurrence = at[r][t].occurrence
      /\ at'[r][t].mod = l /\ at'[r][t].slot = at[r][t].slot
      /\ \A u \in Thread \ {t} : at'[r][u] = at[r][u]
  BY <1>1, <1>t, Types DEF TypeOK, l
<1>9. TypeOK'
  <2>1. at' \in [Rank -> [Thread -> [stage : Stage, mod : Module \cup {None},
                                   slot : Number \cup {None},
                                   occurrence : Number \cup {None}]]]
    <3>1. at[r][t] \in [stage : Stage, mod : Module \cup {None}, slot : Number \cup {None},
                        occurrence : Number \cup {None}]
      BY Types
    <3>2. "wants" \in Stage
      BY DEF Stage
    <3>3. [at[r][t] EXCEPT !.stage = "wants"]
             \in [stage : Stage, mod : Module \cup {None}, slot : Number \cup {None},
                  occurrence : Number \cup {None}]
      BY <3>1, <3>2
    <3>4. at' = [at EXCEPT ![r] = [at[r] EXCEPT ![t] = [at[r][t] EXCEPT !.stage = "wants"]]]
      BY <1>1, <1>t DEF TypeOK
    <3>5. [at[r] EXCEPT ![t] = [at[r][t] EXCEPT !.stage = "wants"]]
              \in [Thread -> [stage : Stage, mod : Module \cup {None},
                              slot : Number \cup {None}, occurrence : Number \cup {None}]]
      BY <3>3, Types
    <3> QED  BY <3>4, <3>5, <1>t DEF TypeOK
  <2>2. memo' \in [Rank -> SUBSET Module]
    BY <1>1, <1>2, <1>t DEF TypeOK
  <2> QED  BY <2>1, <2>2, <1>t DEF TypeOK, given
<1>10. \A q \in Rank \ {r} : Stays(q)
  BY <1>1, <1>t DEF Stays, TypeOK
<1>12. Shape(r)'
  BY <1>7, <1>8, <1>t DEF RankInv, Shape, AtMain, Thread, Compiling, l
<1>13. Slots(r)'
  <2>1. \A u \in Helpers : /\ at'[r][u].slot = at[r][u].slot
                           /\ at'[r][u].stage # "idle" => at[r][u].stage # "idle"
    BY <1>8 DEF Thread
  <2> QED  BY <2>1, <1>7, <1>t DEF RankInv, Slots
<1>14. \A u \in Thread : at'[r][u].stage \in Compiling => u # t /\ at'[r][u] = at[r][u]
  BY <1>8 DEF Compiling
<1>15. Once(r)'
  BY <1>14, <1>7, <1>t DEF RankInv, Once, Own, Compiling
<1>16. ASSUME ~Failed(r)' PROVE Unrefused(r)'
  <2>1. Unrefused(r)
    <3>1. at[r]["main"].stage = "dead" => at'[r]["main"].stage = "dead"
      BY <1>8, Types
    <3> QED  BY <3>1, <1>16, <1>7, <1>t DEF Failed, RankInv
  <2>2. Touched(program, Reached(r), l)
    <3>1. CASE t = "main"
      <4>1. /\ Reached(r) = ip[r] + 1 /\ program[ip[r]].kind = "call" /\ program[ip[r]].mod = l
        BY <3>1, <1>t DEF RankInv, Shape, Reached, AtMain, Compiling, l
      <4>2. ip[r] \in Nat \ {0}
        BY Types
      <4>3. Touched(program, ip[r] + 1, l)
        BY SMTT(60), <4>1, <4>2 DEF Touched
      <4> QED  BY <4>1, <4>3
    <3>2. CASE t # "main"
      BY <3>2, <2>1 DEF Unrefused, Known, Thread, l
    <3> QED  BY <3>1, <3>2
  <2>3. \/ Reached(r)' = Reached(r)
        \/ /\ Reached(r)' = Reached(r) + 1 /\ Reached(r) = ip[r] /\ ip[r] <= Len(program)
           /\ program[ip[r]].kind = "call" /\ program[ip[r]].mod = l
    <3>1. CASE t = "main"
      BY <3>1, <1>7, <1>8, <1>t DEF Reached, AtMain
    <3>2. CASE t # "main"
      <4>1. at'[r]["main"] = at[r]["main"]
        BY <3>2, <1>8, Types
      <4> QED  BY <4>1, <1>7, <1>t, Types DEF RankInv, Shape, Reached, AtMain
    <3> QED  BY <3>1, <3>2
  <2>4. /\ ip[r] \in Nat \ {0} /\ ip[r] \in 1 .. Len(program) + 1 /\ program \in Seq(Call)
    BY Types
  <2>5. Counted(r)'
    <3>1. CASE Reached(r)' = Reached(r)
      BY <3>1, <2>1, <1>7 DEF Unrefused, Counted
    <3>2. CASE /\ Reached(r)' = Reached(r) + 1 /\ Reached(r) = ip[r] /\ ip[r] <= Len(program)
               /\ program[ip[r]].kind = "call" /\ program[ip[r]].mod = l
      <4>1. ~Needs(program, ip[r])
        BY <3>2, <2>2 DEF Needs
      <4>2. Count(program, ip[r] + 1) = Count(program, ip[r])
        BY <4>1, <3>2, <2>4, Counting
      <4> QED  BY <4>2, <3>2, <2>1, <1>7 DEF Unrefused, Counted
    <3> QED  BY <2>3, <3>1, <3>2
  <2>6. /\ \A m : Touched(program, Reached(r), m) => Touched(program, Reached(r)', m)
        /\ \A m : Touched(program, Reached(r)', m) => Touched(program, Reached(r), m) \/ m = l
    BY <2>3, <2>4, Later
  <2>7. Known(r)'
    <3>1. \A u \in Helpers : /\ at'[r][u].mod = at[r][u].mod
                             /\ at'[r][u].stage # "idle" => at[r][u].stage # "idle"
      BY <1>8 DEF Thread, l
    <3>2. /\ \A m \in memo[r] : Touched(program, Reached(r), m)
          /\ \A m \in Module : ahead[r][m] # None => Touched(program, Reached(r), m)
          /\ \A i \in 1 .. Len(queue[r]) : Touched(program, Reached(r), queue[r][i].mod)
          /\ \A u \in Helpers : at[r][u].stage # "idle" =>
               Touched(program, Reached(r), at[r][u].mod)
      BY <2>1 DEF Unrefused, Known
    <3> DEFINE K(m) == Touched(program, Reached(r), m)
               L(m) == Touched(program, Reached(r)', m)
    <3>3. \A m : K(m) => L(m)
      BY <2>6
    <3>4. K(l)
      BY <2>2
    <3>5. /\ \A m \in memo[r] : K(m)
          /\ \A m \in Module : ahead[r][m] # None => K(m)
          /\ \A i \in 1 .. Len(queue[r]) : K(queue[r][i].mod)
          /\ \A u \in Helpers : at[r][u].stage # "idle" => K(at[r][u].mod)
      BY <3>2
    <3> HIDE DEF K, L
    <3>6. /\ \A m \in memo[r] \cup {l} : L(m)
          /\ \A m \in Module : ahead[r][m] # None => L(m)
          /\ \A i \in 1 .. Len(queue[r]) : L(queue[r][i].mod)
          /\ \A u \in Helpers : at'[r][u].stage # "idle" => L(at'[r][u].mod)
      BY <3>1, <3>3, <3>4, <3>5
    <3> QED  BY <3>6, <1>7 DEF Known, L
  <2>8. Covered(r)'
    <3>1. \A u \in Thread : at[r][u].stage \in Compiling =>
              at[r][u].mod = l \/ (at'[r][u].stage \in Compiling /\ at'[r][u].mod = at[r][u].mod)
      BY <1>8 DEF Compiling, l
    <3>2. \A m \in Module : Touched(program, Reached(r)', m) =>
              Touched(program, Reached(r), m) \/ m = l
      BY <2>6
    <3>3. \A m \in Module : Touched(program, Reached(r), m) \/ m = l =>
              \/ m \in memo'[r]
              \/ \E u \in Thread : at'[r][u].mod = m /\ at'[r][u].stage \in Compiling
              \/ ahead'[r][m] # None /\ ahead'[r][m] \notin claimed'[r]
      BY <3>1, <2>1, <1>7 DEF Unrefused, Covered
    <3>4. \A m \in Module : Touched(program, Reached(r)', m) =>
              \/ m \in memo'[r]
              \/ \E u \in Thread : at'[r][u].mod = m /\ at'[r][u].stage \in Compiling
              \/ ahead'[r][m] # None /\ ahead'[r][m] \notin claimed'[r]
      BY <3>2, <3>3
    <3> QED  BY <3>4, <1>7 DEF Covered
  <2>9. Named(r)'
    BY <2>1, <1>14, <1>7 DEF Unrefused, Named, Compiling
  <2> QED  BY <2>5, <2>7, <2>8, <2>9 DEF Unrefused
<1> QED
  BY <1>7, <1>9, <1>10, <1>12, <1>13, <1>15, <1>16, OneRankSteps DEF RankInv

\* The cache has it.
LEMMA HitKeeps ==
    ASSUME IInv, NEW r \in Rank, NEW t \in Thread, Hit(r, t)
    PROVE  IInv'
<1>1. /\ at[r][t].stage = "published" /\ Compiled(r, t)
      /\ UNCHANGED <<given, warm, ip, number, ahead, claimed, queue, future, record, built>>
  BY DEF Hit
<1>2. warm' \in [Rank -> SUBSET Module] /\ built' \in [Rank -> SUBSET Number]
  BY <1>1 DEF IInv, TypeOK
<1> QED  BY <1>1, <1>2, BuiltStays, CompiledKeeps

\* The records agree, and XLA compiles; or the request is refused.
LEMMA CheckAndCompileKeeps ==
    ASSUME IInv, NEW r \in Rank, NEW t \in Thread, CheckAndCompile(r, t)
    PROVE  IInv'
<1>t. TypeOK /\ RankInv(r) /\ BuiltOK
  BY DEF IInv
<1>1. /\ at[r][t].stage = "published"
      /\ UNCHANGED <<given, ip, number, claimed, queue, record>>
  BY DEF CheckAndCompile, Waiting
<1>2. CASE Agrees(r, t)
  <2> DEFINE n == at[r][t].occurrence
             l == at[r][t].mod
  <2>1. /\ Compiled(r, t) /\ UNCHANGED <<ahead, future>>
        /\ warm' = [warm EXCEPT ![r] = @ \cup {l}] /\ built' = [built EXCEPT ![r] = @ \cup {n}]
    BY <1>2 DEF CheckAndCompile
  <2>2. l \in Module /\ Own(r, l) # NoRecord /\ n \in Number /\ record[r][n] = Own(r, l)
    BY <1>1, <1>t, Types, Modules DEF RankInv, Once
  <2>3. warm' \in [Rank -> SUBSET Module] /\ built' \in [Rank -> SUBSET Number]
    BY <2>1, <2>2, <1>t DEF TypeOK
  <2>4. \A q \in Awaited(r) : record[q][n] = Own(r, l)
    BY <1>2 DEF Agrees
  <2>5. BuiltOK'
    <3>1. record[0][n] = Own(r, l) /\ (r = 0 => \A q \in Rank : record[q][n] = record[0][n])
      BY <2>4 DEF Awaited
    <3>2. \A q \in Rank : \A i \in built'[q] : i \in built[q] \/ (q = r /\ i = n)
      BY <2>1, <1>t DEF TypeOK
    <3> QED  BY <3>1, <3>2, <2>2, <1>1, <1>t DEF BuiltOK
  <2> QED  BY <1>1, <2>1, <2>3, <2>5, CompiledKeeps
<1>3. CASE ~Agrees(r, t)
  <2>1. Raise(r, t) /\ UNCHANGED <<warm, built, memo>>
    BY <1>3 DEF CheckAndCompile
  <2> QED  BY <1>1, <2>1, RaiseKeeps DEF Compiling
<1> QED  BY <1>2, <1>3

\* The wait for a record gives up.
LEMMA TimeOutKeeps ==
    ASSUME IInv, NEW r \in Rank, NEW t \in Thread, TimeOut(r, t)
    PROVE  IInv'
<1>1. /\ at[r][t].stage = "published" /\ Raise(r, t)
      /\ UNCHANGED <<given, warm, ip, number, claimed, queue, memo, record, built>>
  BY DEF TimeOut, Waiting
<1> QED  BY <1>1, RaiseKeeps DEF Compiling

-----------------------------------------------------------------------------
(* The theorem *)

\* Before the first call no number is taken.
LEMMA InitIInv == ASSUME Init PROVE IInv
<1>1. 0 \in Rank /\ 0 \in 0 .. MaxNumber
  BY NAssumption, MaxNumberAssumption DEF Rank
<1>2. Idle \in [stage : Stage, mod : Module \cup {None}, slot : Number \cup {None},
                occurrence : Number \cup {None}] /\ Idle.stage = "idle"
  BY DEF Idle, Stage
<1>3. program \in Seq(Call)
  BY ProgramsAssumption DEF Init
<1>4. TypeOK
  <2>1. 1 \in 1 .. Len(program) + 1
    BY <1>3
  <2>2. <<>> \in Seq([mod : Module, slot : Number])
    OBVIOUS
  <2>3. /\ ip \in [Rank -> 1 .. Len(program) + 1]
        /\ queue \in [Rank -> Seq([mod : Module, slot : Number])]
    BY <2>1, <2>2 DEF Init
  <2>4. at \in [Rank -> [Thread -> [stage : Stage, mod : Module \cup {None},
                                    slot : Number \cup {None},
                                    occurrence : Number \cup {None}]]]
    BY <1>2 DEF Init
  <2>5. /\ number \in [Rank -> 0 .. MaxNumber]
        /\ ahead \in [Rank -> [Module -> Number \cup {None}]]
        /\ claimed \in [Rank -> SUBSET Number]
        /\ future \in [Rank -> [Number -> {"none", "pending", "done", "failed"}]]
        /\ memo \in [Rank -> SUBSET Module]
        /\ record \in [Rank -> [Number -> Record \cup {NoRecord}]]
        /\ built \in [Rank -> SUBSET Number]
    BY <1>1 DEF Init
  <2> QED  BY <2>3, <2>4, <2>5 DEF Init, TypeOK
<1>5. BuiltOK
  BY DEF Init, BuiltOK
<1>6. ASSUME NEW r \in Rank PROVE RankInv(r)
  <2>1. /\ ip[r] = 1 /\ number[r] = 0 /\ claimed[r] = {} /\ queue[r] = <<>> /\ memo[r] = {}
        /\ \A m \in Module : ahead[r][m] = None
        /\ \A n \in Number : future[r][n] = "none" /\ record[r][n] = NoRecord
        /\ \A t \in Thread : at[r][t].stage = "idle"
    BY <1>2 DEF Init
  <2>2. at[r]["main"].stage = "idle" /\ \A t \in Helpers : at[r][t].stage = "idle"
    BY <2>1 DEF Thread
  <2>3. Shape(r)
    BY <2>1, <2>2 DEF Shape, AtMain, Compiling
  <2>4. Slots(r)
    BY <2>1, <2>2 DEF Slots
  <2>5. Once(r)
    BY <2>1 DEF Once
  <2>6. Reached(r) = 1 /\ \A m : ~Touched(program, 1, m)
    BY <2>1, <2>2 DEF Reached, AtMain, Touched
  <2>7. Count(program, 1) = 0
    BY <1>3, Counting
  <2>8. Unrefused(r)
    BY <2>1, <2>2, <2>6, <2>7 DEF Unrefused, Counted, Known, Covered, Named
  <2> QED  BY <2>3, <2>4, <2>5, <2>8 DEF RankInv
<1> QED  BY <1>4, <1>5, <1>6 DEF IInv

\* Every step, refusals and deadlines included.
LEMMA NextIInv == IInv /\ [Next]_vars => IInv'
<1> SUFFICES ASSUME IInv, [Next]_vars PROVE IInv'
  OBVIOUS
<1>1. CASE UNCHANGED vars
  <2>1. UNCHANGED <<given, warm, ip, number, ahead, claimed, queue, future, at, memo, record,
                    built>>
    BY <1>1 DEF vars, given
  <2>2. TypeOK'
    BY <2>1 DEF IInv, TypeOK, given
  <2>3. \A q \in Rank : Stays(q)
    BY <2>1 DEF Stays
  <2>4. program' = program /\ key' = key
    BY <2>1 DEF given
  <2> QED  BY <2>1, <2>2, <2>3, <2>4, BuiltStays, OthersStay DEF IInv
<1>2. ASSUME NEW r \in Rank, Main(r) \/ Dispatch(r) \/ Take(r) PROVE IInv'
  BY <1>2, CompileAheadKeeps, TakeResultKeeps, LiveCallKeeps, FindExecutableKeeps,
     AfterCallKeeps, TakeKeeps DEF Main, Dispatch, Synchronise
<1>3. ASSUME NEW r \in Rank, NEW t \in Thread, Request(r, t) \/ TimeOut(r, t) PROVE IInv'
  BY <1>3, LeaveKeeps, ClaimKeeps, PublishKeeps, HitKeeps, CheckAndCompileKeeps, TimeOutKeeps
     DEF Request
<1> QED  BY <1>1, <1>2, <1>3 DEF Next

\* The inductive invariant.
THEOREM Inductive == Spec => []IInv
  BY InitIInv, NextIInv, PTL DEF Spec

\* As long as nothing was refused, a number stands for one program on every rank and
\* ranks at the same call have used the same numbers; and what is compiled under
\* one number is one text everywhere, refused or not (_compile_event_prefix,
\* _check_compile_record).
THEOREM NumbersFollowTheProgram == Spec => []NumbersInv
<1>1. IInv => NumbersInv
  <2> SUFFICES ASSUME IInv PROVE NumbersInv
    OBVIOUS
  <2>1. SameNumberSameProgram
    <3> SUFFICES ASSUME NobodyFailed, NEW r \in Rank, NEW q \in Rank, NEW n \in Number,
                        record[r][n] # NoRecord, record[q][n] # NoRecord
                 PROVE  record[r][n].mod = record[q][n].mod
      BY DEF SameNumberSameProgram
    <3>1. Unrefused(r) /\ Unrefused(q)
      BY DEF NobodyFailed, IInv, RankInv
    <3>2. Names(program, n, record[r][n].mod) /\ Names(program, n, record[q][n].mod)
      BY <3>1 DEF Unrefused, Named
    <3> QED  BY <3>2, OneName, Types
  <2>2. CountFollowsProgram
    <3> SUFFICES ASSUME NobodyFailed, NEW r \in Rank, NEW q \in Rank, ip[r] = ip[q],
                        at[r]["main"].stage = at[q]["main"].stage,
                        at[r]["main"].stage \in {"idle", "running"}
                 PROVE  number[r] = number[q]
      BY DEF CountFollowsProgram
    <3>1. Counted(r) /\ Counted(q)
      BY DEF NobodyFailed, IInv, RankInv, Unrefused
    <3>2. Reached(r) = Reached(q)
      BY DEF Reached, AtMain
    <3> QED  BY <3>1, <3>2 DEF Counted
  <2>3. CompiledAlike
    <3>1. 0 \in Rank
      BY NAssumption DEF Rank
    <3> QED  BY <3>1 DEF IInv, BuiltOK, CompiledAlike
  <2> QED  BY <2>1, <2>2, <2>3 DEF NumbersInv, IInv
<1> QED  BY <1>1, Inductive, PTL
=============================================================================
