-------------------------- MODULE HostControlProofs --------------------------
(***************************************************************************)
(* The safety of the host control plane for every number of ranks, calls   *)
(* and stages, and every assignment of programs to ranks.                  *)
(***************************************************************************)
EXTENDS MCHostControl, FiniteSetTheorems, WellFoundedInduction, TLAPS

-----------------------------------------------------------------------------
(* The inductive invariant *)

\* Rank r has entered exchange k (it may have returned from it since).
Joined(r, k) == program[r][k.occ] = k.stage /\ offered[r][k.occ] # NoReceipt

\* Rank r is inside exchange k, at one of the labels.
At(r, k, labels) == key[r] = k /\ pc[r] \in labels

Counted(k) == {r \in Rank : Joined(r, k) /\ ~At(r, k, {"counting"})}
Acked(k) == {r \in Peer : Past(r, k) \/ At(r, k, {"ackmarking"})}

\* What exchange k decides, and when it can be decided.
Decision(k) ==
    IF k.stage \in ReadStages
      THEN ReadEnvelope(offered[0][k.occ])
      ELSE Envelope([r \in Rank |-> offered[r][k.occ]])
Decidable(k) ==
    /\ Joined(0, k)
    /\ k.stage \notin ReadStages => \A r \in Rank : r \in Counted(k)

\* A rank's counters, its key and its histories agree on where it is.
CallsOK ==
    \A r \in Rank :
        /\ occurrence[r] = IF pc[r] = "ready" THEN call[r] ELSE call[r] + 1
        /\ pc[r] # "ready" =>
             /\ call[r] \in Call
             /\ key[r] = [stage |-> program[r][call[r]], occ |-> call[r]]
        /\ \A c \in Call : heard[r][c] # NoVerdict <=> c < call[r]
        /\ \A c \in Call : offered[r][c] # NoReceipt <=> c < occurrence[r]

LabelsOK ==
    \A r \in Rank :
        /\ pc[r] \in {"counting", "marking", "collecting"}
             => key[r].stage \notin ReadStages
        /\ pc[r] \in {"chunking", "body"} => key[r].stage \in ReadStages
        /\ pc[r] \in {"collecting", "chunking", "publishing", "gathering",
                      "deleting"} => r = 0
        /\ pc[r] \in {"awaiting", "body", "acking", "ackmarking"} => r # 0

\* The publishing side of a reduction rank zero has not returned from.
Open(k) == k.stage \notin ReadStages /\ ~Past(0, k)

RecordsStored ==
    \A k \in Key, r \in Rank :
        Open(k) /\ Joined(r, k) => record[k][r] = offered[r][k.occ]
RecordsCounted ==
    \A k \in Key : Open(k) => arrived[k] = Cardinality(Counted(k))
CompleteIsFull ==
    /\ \A k \in Key : Open(k) /\ complete[k] => \A q \in Rank : q \in Counted(k)
    /\ \A k \in Key, r \in Rank : Open(k) /\ At(r, k, {"marking"})
         => \A q \in Rank : q \in Counted(k)
    /\ \A k \in Key : k.stage \in ReadStages => ~complete[k]

\* Wherever a verdict is, it is the exchange's decision.
Holding == {"chunking", "publishing", "gathering", "deleting", "body",
            "acking", "ackmarking"}
ResultsOK ==
    \A k \in Key :
        result[k] # NoVerdict => Decidable(k) /\ result[k] = Decision(k)
EnvelopesOK ==
    \A k \in Key, r \in Rank :
        At(r, k, Holding) => Decidable(k) /\ envelope[r] = Decision(k)
HeardOK ==
    \A k \in Key, r \in Rank :
        Past(r, k) => Decidable(k) /\ heard[r][k.occ] = Decision(k)

\* The reading side: the last reader to arrive finds all the others gone.
ReadersCounted ==
    \A k \in Key : ~Past(0, k) => readArrived[k] = Cardinality(Acked(k))
ReadersGone ==
    /\ \A k \in Key : ~Past(0, k) /\ readComplete[k]
         => \A q \in Peer : Past(q, k)
    /\ \A k \in Key : Past(0, k) \/ At(0, k, {"deleting"})
         => \A q \in Peer : Past(q, k)
    /\ \A k \in Key, r \in Rank : At(r, k, {"ackmarking"})
         => \A q \in Peer \ {r} : Past(q, k)

\* A directory exists only for an exchange somebody has entered and rank zero
\* has not left, and the chunks of a read are there as long as its head is.
Directories ==
    /\ \A k \in Key : Past(0, k) \/ (\A r \in Rank : ~Joined(r, k)) => Absent(k)
    /\ \A k \in Key : k.stage \in ReadStages =>
         /\ result[k] # NoVerdict => chunks[k]
         /\ At(0, k, {"publishing"}) => chunks[k]

\* Whoever is past rank zero's publication finds the result still there.
Answered == {"gathering", "deleting", "body", "acking", "ackmarking"}
ResultsStay ==
    \A k \in Key, r \in Rank : At(r, k, Answered) => result[k] # NoVerdict

IInv == /\ TypeOK
        /\ CallsOK /\ LabelsOK
        /\ RecordsStored /\ RecordsCounted /\ CompleteIsFull
        /\ ResultsOK /\ EnvelopesOK /\ HeardOK
        /\ ReadersCounted /\ ReadersGone
        /\ Directories /\ ResultsStay

-----------------------------------------------------------------------------
(* Facts about the ranks and about where they are *)

\* The ranks are finitely many: N of them, N - 1 of which are peers.
LEMMA Ranks ==
    /\ 0 \in Rank
    /\ IsFiniteSet(Rank) /\ Cardinality(Rank) = N
    /\ IsFiniteSet(Peer) /\ Cardinality(Peer) = N - 1
<1>1. 0 \in Rank
  BY NAssumption DEF Rank
<1>2. IsFiniteSet(Rank) /\ Cardinality(Rank) = N
  BY NAssumption, FS_Interval DEF Rank
<1>3. IsFiniteSet(Peer) /\ Cardinality(Peer) = N - 1
  BY <1>1, <1>2, FS_RemoveElement DEF Peer
<1> QED BY <1>1, <1>2, <1>3

\* A rank inside an exchange has entered it and not returned from it; a rank
\* that has returned from one had entered it.
LEMMA Positions ==
    ASSUME TypeOK, CallsOK
    PROVE  /\ \A r \in Rank : pc[r] # "ready" =>
                /\ key[r] \in Key
                /\ Joined(r, key[r])
                /\ ~Past(r, key[r])
           /\ \A r \in Rank, k \in Key : Past(r, k) => Joined(r, k)
<1>1. ASSUME NEW r \in Rank, pc[r] # "ready"
      PROVE  key[r] \in Key /\ Joined(r, key[r]) /\ ~Past(r, key[r])
  <2>1. /\ call[r] \in Call
        /\ key[r] = [stage |-> program[r][call[r]], occ |-> call[r]]
        /\ occurrence[r] = call[r] + 1
    BY <1>1 DEF CallsOK
  <2>2. program[r][call[r]] \in Stage
    BY <2>1 DEF TypeOK
  <2>3. key[r] \in Key
    BY <2>1, <2>2 DEF Key
  <2>4. key[r].occ = call[r] /\ key[r].stage = program[r][call[r]]
    BY <2>1
  <2>5. call[r] < occurrence[r] /\ ~(call[r] < call[r])
    BY <2>1, CallsAssumption DEF Call
  <2>6. offered[r][call[r]] # NoReceipt /\ heard[r][call[r]] = NoVerdict
    BY <2>1, <2>5 DEF CallsOK
  <2> QED BY <2>3, <2>4, <2>6 DEF Joined, Past
<1>2. ASSUME NEW r \in Rank, NEW k \in Key, Past(r, k)
      PROVE  Joined(r, k)
  <2>1. k.occ \in Call
    BY DEF Key
  <2>2. k.occ < call[r]
    BY <1>2, <2>1 DEF Past, CallsOK
  <2>3. k.occ < occurrence[r]
    BY <2>1, <2>2, CallsAssumption DEF CallsOK, TypeOK, Call
  <2> QED BY <1>2, <2>1, <2>3 DEF Past, Joined, CallsOK
<1> QED BY <1>1, <1>2

-----------------------------------------------------------------------------
(* What no step takes back *)

Moves(r) == CountRecord(r) \/ MarkComplete(r) \/ TakeResult(r) \/ TakeChunks(r)
RootMoves == CollectRecords \/ StoreChunks \/ PublishResult \/ AwaitReaders
Enters(r) == EnterReduce(r) \/ EnterRead(r)
Leaves(r) == CountRead(r) \/ MarkReadComplete(r)

\* Every step is rank zero's inside an exchange, its delete, or one of one rank's.
LEMMA NextCases ==
    ASSUME Next
    PROVE  \/ RootMoves
           \/ DeleteDirectory
           \/ \E r \in Rank : Moves(r) \/ Enters(r) \/ Leaves(r)
BY DEF Next, RootStep, Step, RootMoves, Moves, Enters, Leaves

\* The steps inside an exchange change no caller's state, and nobody starts
\* counting.
LEMMA MovesFrame ==
    ASSUME TypeOK, RootMoves \/ \E r \in Rank : Moves(r)
    PROVE  /\ UNCHANGED caller
           /\ \A q \in Rank : pc'[q] = "counting" => pc[q] = "counting"
<1>1. CASE RootMoves
  BY <1>1 DEF TypeOK, RootMoves, CollectRecords, StoreChunks, PublishResult,
     AwaitReaders, Goto
<1>2. ASSUME NEW r \in Rank, Moves(r)
      PROVE  /\ UNCHANGED caller
             /\ \A q \in Rank : pc'[q] = "counting" => pc[q] = "counting"
  BY <1>2 DEF TypeOK, Moves, CountRecord, MarkComplete, TakeResult, TakeChunks,
     Goto, Collecting, caller
<1> QED BY <1>1, <1>2

\* Entering touches the entering rank's next call alone, ...
LEMMA EntersFrame ==
    ASSUME TypeOK, CallsOK, NEW r \in Rank, Enters(r)
    PROVE  /\ pc[r] = "ready" /\ call[r] \in Call /\ occurrence[r] = call[r]
           /\ offered[r][call[r]] = NoReceipt
           /\ NextKey(r) \in Key
           /\ key' = [key EXCEPT ![r] = NextKey(r)]
           /\ occurrence' = [occurrence EXCEPT ![r] = @ + 1]
           /\ UNCHANGED <<program, heard, call>>
           /\ \E x \in Receipt : offered' = [offered EXCEPT ![r][call[r]] = x]
           /\ \A q \in Rank \ {r} : pc'[q] = pc[q]
           /\ pc'[r] \in {"counting", "chunking", "awaiting"}
           /\ UNCHANGED <<arrived, complete, answer, readers>>
<1>1. pc[r] = "ready" /\ call[r] < Calls
  BY DEF Enters, EnterReduce, EnterRead
<1>2. /\ call[r] \in Call /\ occurrence[r] = call[r]
      /\ ~(call[r] < occurrence[r])
  BY <1>1, CallsAssumption DEF TypeOK, CallsOK, Call
<1>3. offered[r][call[r]] = NoReceipt
  BY <1>2 DEF CallsOK
<1>4. NextKey(r) \in Key
  BY <1>2 DEF TypeOK, NextKey, Key
<1>5. \A s : Offers(r, s) \subseteq Receipt
  BY DEF Offers, Receipt
<1>6. CASE EnterReduce(r)
  BY <1>1, <1>2, <1>3, <1>4, <1>5, <1>6 DEF TypeOK, EnterReduce, Goto
<1>7. CASE EnterRead(r)
  BY <1>1, <1>2, <1>3, <1>4, <1>5, <1>7
  DEF TypeOK, EnterRead, Goto, store, posted
<1> QED BY <1>6, <1>7 DEF Enters

\* ... and returning the returning rank's current one.
Ends(r) ==
    /\ heard' = [heard EXCEPT ![r][call[r]] = envelope[r]]
    /\ call' = [call EXCEPT ![r] = @ + 1]
    /\ pc' = [pc EXCEPT ![r] = "ready"]
    /\ key' = [key EXCEPT ![r] = NoKey]
    /\ envelope' = [envelope EXCEPT ![r] = NoVerdict]

\* What a peer's last increment and marker leave alone, and how they end.
LEMMA ReturnsFrame ==
    ASSUME TypeOK, NEW r \in Rank, Leaves(r)
    PROVE  /\ UNCHANGED <<program, occurrence, offered, posted, answer>>
           /\ pc[r] \in {"acking", "ackmarking"}
           /\ \/ Ends(r)
              \/ /\ pc[r] = "acking"
                 /\ pc' = [pc EXCEPT ![r] = "ackmarking"]
                 /\ UNCHANGED <<call, key, envelope, heard>>
BY DEF TypeOK, Leaves, CountRead, MarkReadComplete, Return, Ends, Goto

\* What a rank has offered, heard and counted is never taken back, and a decision never changes.
LEMMA Monotone ==
    ASSUME IInv, Next
    PROVE  \A k \in Key :
             /\ \A r \in Rank :
                  /\ Joined(r, k) =>
                       /\ Joined(r, k)'
                       /\ offered'[r][k.occ] = offered[r][k.occ]
                  /\ Past(r, k) =>
                       /\ Past(r, k)'
                       /\ heard'[r][k.occ] = heard[r][k.occ]
                  /\ r \in Counted(k) => (r \in Counted(k))'
             /\ Decidable(k) => Decidable(k)' /\ Decision(k)' = Decision(k)
<1> USE DEF IInv
<1> DEFINE Kept(r, k) ==
      /\ Joined(r, k) => Joined(r, k)' /\ offered'[r][k.occ] = offered[r][k.occ]
      /\ Past(r, k) => Past(r, k)' /\ heard'[r][k.occ] = heard[r][k.occ]
      /\ r \in Counted(k) => (r \in Counted(k))'
<1>1. ASSUME NEW k \in Key, NEW r \in Rank
      PROVE  Kept(r, k)
  <2>0. k.occ \in Call
    BY DEF Key
  <2>1. CASE RootMoves \/ \E q \in Rank : Moves(q)
    BY <2>1, MovesFrame DEF caller, Joined, Past, Counted, At
  <2>2. ASSUME NEW q \in Rank, Enters(q)
        PROVE  Kept(r, k)
    <3>1. Joined(r, k) => ~(r = q /\ k.occ = call[q])
      BY <2>2, EntersFrame DEF Joined
    <3>2. Joined(r, k) => Joined(r, k)' /\ offered'[r][k.occ] = offered[r][k.occ]
      BY <2>0, <2>2, <3>1, EntersFrame DEF Joined, TypeOK
    <3>3. Past(r, k) => Past(r, k)' /\ heard'[r][k.occ] = heard[r][k.occ]
      BY <2>2, EntersFrame DEF Past
    <3>4. ASSUME r \in Counted(k)
          PROVE  (r \in Counted(k))'
      <4>1. CASE r = q
        <5>1. NextKey(q) # k
          BY <2>2, <3>1, <3>4, <4>1, EntersFrame DEF Counted, NextKey
        <5>2. key'[r] # k
          BY <2>2, <4>1, <5>1, EntersFrame DEF TypeOK
        <5> QED BY <3>2, <3>4, <5>2 DEF Counted, At
      <4>2. CASE r # q
        BY <2>2, <3>2, <3>4, <4>2, EntersFrame DEF Counted, At, TypeOK
      <4> QED BY <4>1, <4>2
    <3> QED BY <3>2, <3>3, <3>4
  <2>3. ASSUME NEW q \in Rank, Ends(q), pc[q] # "ready",
               UNCHANGED <<program, offered>>
        PROVE  Kept(r, k)
    <3>0. call[q] \in Call
      BY <2>3 DEF CallsOK
    <3>1. ~(call[q] < call[q])
      BY <3>0, CallsAssumption DEF Call
    <3>2. Past(r, k) => ~(r = q /\ k.occ = call[q])
      BY <2>0, <3>0, <3>1 DEF Past, CallsOK
    <3>3. Past(r, k) => Past(r, k)' /\ heard'[r][k.occ] = heard[r][k.occ]
      BY <2>0, <2>3, <3>2 DEF Past, Ends, TypeOK
    <3>4. Joined(r, k) => Joined(r, k)' /\ offered'[r][k.occ] = offered[r][k.occ]
      BY <2>3 DEF Joined
    <3>5. r \in Counted(k) => (r \in Counted(k))'
      BY <2>3, <3>4 DEF Counted, At, Ends, TypeOK
    <3> QED BY <3>3, <3>4, <3>5
  <2>4. ASSUME NEW q \in Rank, Leaves(q)
        PROVE  Kept(r, k)
    <3>1. CASE Ends(q)
      BY <2>3, <2>4, <3>1, ReturnsFrame
    <3>2. CASE ~Ends(q)
      BY <2>4, <3>2, ReturnsFrame DEF Joined, Past, Counted, At, TypeOK
    <3> QED BY <3>1, <3>2
  <2>5. CASE DeleteDirectory
    <3>1. 0 \in Rank /\ Ends(0) /\ pc[0] # "ready" /\ UNCHANGED <<program, offered>>
      BY <2>5, Ranks DEF DeleteDirectory, Return, Ends, Goto
    <3> QED BY <2>3, <3>1
  <2> QED BY <2>1, <2>2, <2>4, <2>5, NextCases
<1>2. ASSUME NEW k \in Key, Decidable(k)
      PROVE  Decidable(k)' /\ Decision(k)' = Decision(k)
  <2>1. Decidable(k)'
    BY <1>1, <1>2, Ranks DEF Decidable
  <2>2. CASE k.stage \in ReadStages
    BY <1>1, <1>2, <2>2, Ranks DEF Decidable, Decision
  <2>3. CASE k.stage \notin ReadStages
    <3>1. \A r \in Rank : offered'[r][k.occ] = offered[r][k.occ]
      BY <1>1, <1>2, <2>3 DEF Decidable, Counted
    <3> QED BY <2>1, <2>3, <3>1 DEF Decision
  <2> QED BY <2>1, <2>2, <2>3
<1> QED BY <1>1, <1>2

-----------------------------------------------------------------------------
(* The counters *)

\* A counter that is the size of a subset of T stays so when one element joins; at T's size it is all of T.
LEMMA AddOne ==
    ASSUME NEW T, IsFiniteSet(T), NEW S \in SUBSET T, NEW x \in T, x \notin S
    PROVE  /\ Cardinality(S) + 1 = Cardinality(S \cup {x})
           /\ Cardinality(S) \in Nat
           /\ Cardinality(S) + 1 <= Cardinality(T)
           /\ Cardinality(S) + 1 = Cardinality(T) => S \cup {x} = T
<1>1. IsFiniteSet(S)
  BY FS_Subset
<1>2. Cardinality(S) + 1 = Cardinality(S \cup {x})
  BY <1>1, FS_AddElement
<1>3. Cardinality(S) \in Nat /\ Cardinality(T) \in Nat
  BY <1>1, FS_CardinalityType
<1>4. S \cup {x} \in SUBSET T
  OBVIOUS
<1>5. /\ Cardinality(S \cup {x}) <= Cardinality(T)
      /\ Cardinality(T) = Cardinality(S \cup {x}) => T = S \cup {x}
  BY <1>4, FS_Subset
<1> QED BY <1>2, <1>3, <1>5

\* A rank about to count its record is in an open reduction; the N-th
\* increment is the one that completes the set.
LEMMA CountFacts ==
    ASSUME IInv, NEW r \in Rank, pc[r] = "counting"
    PROVE  /\ key[r] \in Key /\ Open(key[r])
           /\ r \notin Counted(key[r])
           /\ arrived[key[r]] + 1 \in 0 .. N
           /\ arrived[key[r]] + 1 = Cardinality(Counted(key[r]) \cup {r})
           /\ arrived[key[r]] + 1 = N => Counted(key[r]) \cup {r} = Rank
<1>1. /\ key[r] \in Key /\ key[r].stage \notin ReadStages
      /\ r \notin Counted(key[r])
  BY Positions DEF IInv, LabelsOK, Counted, At
<1>2. ~Past(0, key[r])
  BY <1>1, Ranks DEF IInv, HeardOK, Decidable
<1>3. Counted(key[r]) \in SUBSET Rank
  BY DEF Counted
<1>4. /\ Cardinality(Counted(key[r])) \in Nat
      /\ Cardinality(Counted(key[r])) + 1 <= N
      /\ Cardinality(Counted(key[r])) + 1
           = Cardinality(Counted(key[r]) \cup {r})
      /\ Cardinality(Counted(key[r])) + 1 = N
           => Counted(key[r]) \cup {r} = Rank
  BY <1>1, <1>3, Ranks, AddOne
<1>5. arrived[key[r]] = Cardinality(Counted(key[r]))
  BY <1>1, <1>2 DEF IInv, RecordsCounted, Open
<1> QED BY <1>1, <1>2, <1>4, <1>5, NAssumption DEF Open

\* A peer about to count itself as a reader finds rank zero still there; the
\* last one finds every other peer gone.
LEMMA ReadFacts ==
    ASSUME IInv, NEW r \in Rank, pc[r] = "acking"
    PROVE  /\ key[r] \in Key /\ ~Past(0, key[r])
           /\ r \in Peer /\ r \notin Acked(key[r])
           /\ readArrived[key[r]] + 1 \in 0 .. N-1
           /\ readArrived[key[r]] + 1 = Cardinality(Acked(key[r]) \cup {r})
           /\ readArrived[key[r]] + 1 = N - 1
                => \A q \in Peer \ {r} : Past(q, key[r])
<1>1. key[r] \in Key /\ r \in Peer /\ ~Past(r, key[r])
  BY Positions DEF IInv, LabelsOK, Peer
<1>2. ~Past(0, key[r])
  BY <1>1 DEF IInv, ReadersGone
<1>3. r \notin Acked(key[r])
  BY <1>1 DEF Acked, At
<1>4. Acked(key[r]) \in SUBSET Peer
  BY DEF Acked
<1>5. /\ Cardinality(Acked(key[r])) \in Nat
      /\ Cardinality(Acked(key[r])) + 1 <= N - 1
      /\ Cardinality(Acked(key[r])) + 1 = Cardinality(Acked(key[r]) \cup {r})
      /\ Cardinality(Acked(key[r])) + 1 = N - 1
           => Acked(key[r]) \cup {r} = Peer
  <2>1. ASSUME NEW S \in SUBSET Peer, NEW x \in Peer, x \notin S
        PROVE  /\ Cardinality(S) \in Nat
               /\ Cardinality(S) + 1 <= N - 1
               /\ Cardinality(S) + 1 = Cardinality(S \cup {x})
               /\ Cardinality(S) + 1 = N - 1 => S \cup {x} = Peer
    BY <2>1, Ranks, AddOne
  <2> QED BY <1>1, <1>3, <1>4, <2>1
<1>6. readArrived[key[r]] = Cardinality(Acked(key[r]))
  BY <1>1, <1>2 DEF IInv, ReadersCounted
<1>7. ASSUME readArrived[key[r]] + 1 = N - 1, NEW q \in Peer \ {r}
      PROVE  Past(q, key[r])
  <2>1. q \in Acked(key[r])
    BY <1>5, <1>6, <1>7
  <2>2. CASE At(q, key[r], {"ackmarking"})
    <3>1. Past(r, key[r])
      BY <1>1, <2>2 DEF IInv, ReadersGone, Peer
    <3> QED BY <1>1, <3>1
  <2> QED BY <2>1, <2>2 DEF Acked
<1> QED BY <1>1, <1>2, <1>3, <1>5, <1>6, <1>7, NAssumption

-----------------------------------------------------------------------------
(* Types, calls and labels *)

\* A non-empty set of naturals has a least element (the rank FirstIoError chooses).
LEMMA LeastOf ==
    ASSUME NEW S \in SUBSET Nat, S # {}
    PROVE  \E m \in S : \A q \in S : m <= q
<1> DEFINE Less == {ss \in Nat \X Nat : ss[1] < ss[2]}
<1>1. IsWellFoundedOn(Less, Nat)
  BY NatLessThanWellFounded DEF OpToRel
<1>2. PICK m \in S : \A q \in S : <<q, m>> \notin Less
  BY <1>1, WFMin
<1>3. \A q \in Nat, n \in Nat : <<q, n>> \notin Less => n <= q
  OBVIOUS
<1>4. \A q \in S : m <= q
  <2> HIDE DEF Less
  <2> QED BY <1>2, <1>3
<1> QED BY <1>4

\* Every envelope rank zero can make is a verdict.
LEMMA VerdictTypes ==
    /\ \A x : ReadEnvelope(x) \in Verdict
    /\ \A f : Envelope(f) \in Verdict
<1>1. \A x : ReadEnvelope(x) \in Verdict
  BY Ranks DEF ReadEnvelope, Verdict
<1>2. ASSUME NEW f PROVE Envelope(f) \in Verdict
  <2>1. RootFailed \in Verdict
    BY Ranks DEF RootFailed, Verdict
  <2>2. CASE Failing(f) = {}
    BY <2>1, <2>2, Ranks DEF Envelope, FirstIoError, Verdict
  <2>3. CASE Failing(f) # {}
    <3>1. PICK m \in Failing(f) : \A q \in Failing(f) : m <= q
      <4>1. Failing(f) \in SUBSET Nat
        BY NAssumption DEF Failing, Rank
      <4> QED BY <2>3, <4>1, LeastOf
    <3>2. (CHOOSE r \in Failing(f) : \A q \in Failing(f) : r <= q) \in Rank
      BY <3>1 DEF Failing
    <3> QED BY <2>1, <2>3, <3>2 DEF Envelope, FirstIoError, Verdict
  <2> QED BY <2>2, <2>3
<1> QED BY <1>1, <1>2

\* TypeOK is preserved by every step.
LEMMA TypeStep ==
    ASSUME IInv, Next
    PROVE  TypeOK'
<1> USE DEF IInv
<1>1. \A r \in Rank : pc[r] # "ready" => key[r] \in Key
  BY Positions
<1>2. CASE RootMoves
  <2>1. CASE CollectRecords
    BY <2>1, Ranks, VerdictTypes
    DEF TypeOK, CollectRecords, Goto, PC, caller, posted, answer, readers, store
  <2>2. CASE StoreChunks
    BY <2>2, Ranks
    DEF TypeOK, StoreChunks, Goto, PC, caller, posted, readers
  <2>3. CASE PublishResult
    BY <2>3, Ranks
    DEF TypeOK, PublishResult, Goto, PC, caller, posted, readers
  <2>4. CASE AwaitReaders
    BY <2>4, Ranks
    DEF TypeOK, AwaitReaders, Goto, PC, caller, posted, answer, readers, store
  <2> QED BY <1>2, <2>1, <2>2, <2>3, <2>4 DEF RootMoves
<1>3. ASSUME NEW r \in Rank, CountRecord(r)
      PROVE  TypeOK'
  <2>1. arrived' \in [Key -> 0 .. N]
    BY <1>3, CountFacts DEF CountRecord, TypeOK
  <2> QED BY <1>3, <2>1 DEF TypeOK, CountRecord, Goto, PC, Collecting, caller,
             answer, readers
<1>4. ASSUME NEW r \in Rank, MarkComplete(r) \/ TakeResult(r) \/ TakeChunks(r)
      PROVE  TypeOK'
  BY <1>1, <1>4 DEF TypeOK, MarkComplete, TakeResult, TakeChunks, Goto, PC,
     Collecting, caller, posted, answer, readers, store
<1>5. ASSUME NEW r \in Rank, EnterReduce(r)
      PROVE  TypeOK'
  <2>1. \A s : Offers(r, s) \subseteq Receipt
    BY DEF Offers, Receipt
  <2>2. /\ call[r] \in Call /\ NextKey(r) \in Key
        /\ occurrence[r] = call[r] /\ call[r] < Calls
    BY <1>5, EntersFrame DEF Enters, EnterReduce
  <2>3. occurrence' \in [Rank -> 0 .. Calls]
    BY <1>5, <2>2, CallsAssumption DEF TypeOK, EnterReduce
  <2> QED BY <1>5, <2>1, <2>2, <2>3
          DEF TypeOK, EnterReduce, Goto, PC, answer, readers
<1>6. ASSUME NEW r \in Rank, EnterRead(r)
      PROVE  TypeOK'
  <2>1. \A s : Offers(r, s) \subseteq Receipt
    BY DEF Offers, Receipt
  <2>2. /\ call[r] \in Call /\ NextKey(r) \in Key
        /\ occurrence[r] = call[r] /\ call[r] < Calls
    BY <1>6, EntersFrame DEF Enters, EnterRead
  <2>3. occurrence' \in [Rank -> 0 .. Calls]
    BY <1>6, <2>2, CallsAssumption DEF TypeOK, EnterRead
  <2> QED BY <1>6, <2>1, <2>2, <2>3, VerdictTypes
          DEF TypeOK, EnterRead, Goto, PC, posted, answer, readers, store
<1>7. ASSUME NEW r \in Rank, Ends(r), pc[r] # "ready"
      PROVE  /\ heard' \in [Rank -> [Call -> Verdict \cup {NoVerdict}]]
             /\ call' \in [Rank -> 0 .. Calls]
             /\ pc' \in [Rank -> PC]
             /\ key' \in [Rank -> Key \cup {NoKey}]
             /\ envelope' \in [Rank -> Verdict \cup {NoVerdict}]
  <2>1. call[r] + 1 \in 0 .. Calls
    <3>1. call[r] \in Call
      BY <1>7 DEF CallsOK
    <3> QED BY <3>1, CallsAssumption DEF Call
  <2> QED BY <1>7, <2>1 DEF Ends, TypeOK, PC
<1>8. ASSUME NEW r \in Rank, CountRead(r)
      PROVE  TypeOK'
  <2>1. readArrived' \in [Key -> 0 .. N-1]
    BY <1>8, ReadFacts DEF CountRead, TypeOK
  <2>3. CASE Ends(r)
    BY <1>7, <1>8, <2>1, <2>3 DEF TypeOK, CountRead, posted, answer
  <2>4. CASE ~Ends(r)
    BY <1>8, <2>1, <2>4
    DEF TypeOK, CountRead, Ends, Return, Goto, PC, posted, answer
  <2> QED BY <2>3, <2>4
<1>9. ASSUME NEW r \in Rank, MarkReadComplete(r)
      PROVE  TypeOK'
  <2>1. Ends(r) /\ pc[r] # "ready"
    BY <1>9 DEF MarkReadComplete, Return, Ends, Goto
  <2> QED BY <1>7, <1>9, <2>1 DEF TypeOK, MarkReadComplete, posted, answer
<1>10. CASE DeleteDirectory
  <2>1. 0 \in Rank /\ Ends(0) /\ pc[0] # "ready"
    BY <1>10, Ranks DEF DeleteDirectory, Return, Ends, Goto
  <2>2. UNCHANGED <<program, occurrence, offered>>
    BY <1>10 DEF DeleteDirectory
  <2>6. [r \in Rank |-> NoReceipt] \in [Rank -> Receipt \cup {NoReceipt}]
    OBVIOUS
  <2>7. record' \in [Key -> [Rank -> Receipt \cup {NoReceipt}]]
    BY <1>10, <2>6 DEF TypeOK, DeleteDirectory
  <2>3. 0 \in 0 .. N /\ 0 \in 0 .. N-1
    BY NAssumption
  <2>4. /\ arrived' \in [Key -> 0 .. N]
        /\ readArrived' \in [Key -> 0 .. N-1]
        /\ result' \in [Key -> Verdict \cup {NoVerdict}]
    BY <1>10, <2>3 DEF TypeOK, DeleteDirectory
  <2>8. /\ complete' \in [Key -> BOOLEAN]
        /\ chunks' \in [Key -> BOOLEAN]
        /\ readComplete' \in [Key -> BOOLEAN]
    BY <1>10 DEF TypeOK, DeleteDirectory
  <2>5. /\ heard' \in [Rank -> [Call -> Verdict \cup {NoVerdict}]]
        /\ call' \in [Rank -> 0 .. Calls]
        /\ pc' \in [Rank -> PC]
        /\ key' \in [Rank -> Key \cup {NoKey}]
        /\ envelope' \in [Rank -> Verdict \cup {NoVerdict}]
    BY <1>7, <2>1
  <2> QED BY <2>2, <2>4, <2>5, <2>7, <2>8 DEF TypeOK
<1>11. ASSUME NEW r \in Rank, Moves(r) \/ Enters(r) \/ Leaves(r)
       PROVE  TypeOK'
  BY <1>3, <1>4, <1>5, <1>6, <1>8, <1>9, <1>11 DEF Moves, Enters, Leaves
<1> QED BY <1>2, <1>10, <1>11, NextCases

\* CallsOK is preserved: a call takes its occurrence once and returns once.
LEMMA CallsStep ==
    ASSUME IInv, Next
    PROVE  CallsOK'
<1> USE DEF IInv
<1>1. CASE RootMoves
  <2>1. UNCHANGED caller
    BY <1>1, MovesFrame
  <2>2. \A q \in Rank : pc'[q] = "ready" <=> pc[q] = "ready"
    BY <1>1 DEF TypeOK, RootMoves, CollectRecords, StoreChunks, PublishResult,
       AwaitReaders, Goto
  <2> QED BY <2>1, <2>2 DEF CallsOK, caller
<1>2. ASSUME NEW r \in Rank, Moves(r)
      PROVE  CallsOK'
  BY <1>2 DEF TypeOK, CallsOK, Moves, CountRecord, MarkComplete, TakeResult,
     TakeChunks, Goto, Collecting, caller
<1>3. ASSUME NEW r \in Rank, Enters(r)
      PROVE  CallsOK'
  <2>1. PICK x \in Receipt : offered' = [offered EXCEPT ![r][call[r]] = x]
    BY <1>3, EntersFrame
  <2>2. x # NoReceipt
    BY DEF Receipt, NoReceipt
  <2>3. /\ pc[r] = "ready" /\ call[r] \in Call /\ occurrence[r] = call[r]
        /\ key' = [key EXCEPT ![r] = NextKey(r)]
        /\ occurrence' = [occurrence EXCEPT ![r] = @ + 1]
        /\ UNCHANGED <<program, heard, call>>
        /\ \A q \in Rank \ {r} : pc'[q] = pc[q]
        /\ pc'[r] \in {"counting", "chunking", "awaiting"}
    BY <1>3, EntersFrame
  <2>4. ASSUME NEW q \in Rank, NEW c \in Call
        PROVE  offered'[q][c] # NoReceipt <=> c < occurrence'[q]
    <3>1. CASE q # r
      BY <2>1, <2>3, <3>1 DEF TypeOK, CallsOK
    <3>2. CASE q = r
      <4>1. c < call[r] + 1 <=> c < call[r] \/ c = call[r]
        BY <2>3, CallsAssumption DEF Call
      <4>2. offered[r][c] # NoReceipt <=> c < call[r]
        BY <2>3 DEF CallsOK
      <4>3. offered'[r][c] = IF c = call[r] THEN x ELSE offered[r][c]
        BY <2>1, <2>3 DEF TypeOK
      <4>4. occurrence'[r] = call[r] + 1
        BY <2>3 DEF TypeOK
      <4> QED BY <2>2, <3>2, <4>1, <4>2, <4>3, <4>4
    <3> QED BY <3>1, <3>2
  <2>5. ASSUME NEW q \in Rank
        PROVE  /\ occurrence'[q] =
                    IF pc'[q] = "ready" THEN call'[q] ELSE call'[q] + 1
               /\ pc'[q] # "ready" =>
                    /\ call'[q] \in Call
                    /\ key'[q] = [stage |-> program'[q][call'[q]],
                                  occ |-> call'[q]]
               /\ \A c \in Call : heard'[q][c] # NoVerdict <=> c < call'[q]
    <3>1. CASE q # r
      BY <2>3, <3>1 DEF TypeOK, CallsOK
    <3>2. CASE q = r
      <4>1. NextKey(r) = [stage |-> program[r][call[r]], occ |-> call[r]]
        BY <2>3 DEF NextKey
      <4>2. /\ occurrence'[r] = call[r] + 1 /\ call'[r] = call[r]
            /\ key'[r] = NextKey(r) /\ program' = program /\ heard' = heard
        BY <2>3 DEF TypeOK
      <4>3. \A c \in Call : heard[r][c] # NoVerdict <=> c < call[r]
        BY DEF CallsOK
      <4> QED BY <2>3, <3>2, <4>1, <4>2, <4>3
    <3> QED BY <3>1, <3>2
  <2> QED BY <2>4, <2>5 DEF CallsOK
<1>4. ASSUME NEW r \in Rank, Ends(r), pc[r] # "ready", envelope[r] # NoVerdict,
             UNCHANGED <<program, occurrence, offered>>
      PROVE  CallsOK'
  <2>1. call[r] \in Call /\ occurrence[r] = call[r] + 1
    BY <1>4 DEF CallsOK
  <2>2. ASSUME NEW q \in Rank, NEW c \in Call
        PROVE  heard'[q][c] # NoVerdict <=> c < call'[q]
    <3>1. CASE q # r
      BY <1>4, <3>1 DEF Ends, TypeOK, CallsOK
    <3>2. CASE q = r
      <4>1. c < call[r] + 1 <=> c < call[r] \/ c = call[r]
        BY <2>1, CallsAssumption DEF Call
      <4>2. heard[r][c] # NoVerdict <=> c < call[r]
        BY DEF CallsOK
      <4>3. heard'[r][c] = IF c = call[r] THEN envelope[r] ELSE heard[r][c]
        BY <1>4, <2>1 DEF Ends, TypeOK
      <4>4. call'[r] = call[r] + 1
        BY <1>4 DEF Ends, TypeOK
      <4> QED BY <1>4, <3>2, <4>1, <4>2, <4>3, <4>4
    <3> QED BY <3>1, <3>2
  <2>3. ASSUME NEW q \in Rank
        PROVE  /\ occurrence'[q] =
                    IF pc'[q] = "ready" THEN call'[q] ELSE call'[q] + 1
               /\ pc'[q] # "ready" =>
                    /\ call'[q] \in Call
                    /\ key'[q] = [stage |-> program'[q][call'[q]],
                                  occ |-> call'[q]]
               /\ \A c \in Call : offered'[q][c] # NoReceipt <=> c < occurrence'[q]
    BY <1>4, <2>1 DEF Ends, TypeOK, CallsOK
  <2> QED BY <2>2, <2>3 DEF CallsOK
<1>5. ASSUME NEW r \in Rank, pc[r] \in Holding
      PROVE  envelope[r] # NoVerdict
  <2>1. /\ key[r] \in Key
        /\ At(r, key[r], Holding)
    BY <1>5, Positions DEF At, Holding
  <2>2. Decision(key[r]) \in Verdict
    BY VerdictTypes DEF Decision
  <2>3. NoVerdict \notin Verdict
    BY DEF NoVerdict, Verdict
  <2> QED BY <2>1, <2>2, <2>3 DEF EnvelopesOK
<1>6. ASSUME NEW r \in Rank, Leaves(r)
      PROVE  CallsOK'
  <2>1. CASE Ends(r)
    BY <1>4, <1>5, <1>6, <2>1, ReturnsFrame DEF Holding
  <2>2. CASE ~Ends(r)
    BY <1>6, <2>2, ReturnsFrame DEF TypeOK, CallsOK
  <2> QED BY <2>1, <2>2
<1>7. CASE DeleteDirectory
  <2>1. /\ 0 \in Rank /\ Ends(0) /\ pc[0] \in Holding
        /\ UNCHANGED <<program, occurrence, offered>>
    BY <1>7, Ranks DEF DeleteDirectory, Return, Ends, Goto, Holding
  <2> QED BY <1>4, <1>5, <2>1 DEF Holding
<1> QED BY <1>1, <1>2, <1>3, <1>6, <1>7, NextCases

\* LabelsOK is preserved: each label belongs to one kind of exchange and one role.
LEMMA LabelsStep ==
    ASSUME IInv, Next
    PROVE  LabelsOK'
<1> USE DEF IInv
<1>1. CASE RootMoves
  BY <1>1, Ranks
  DEF TypeOK, LabelsOK, RootMoves, CollectRecords, StoreChunks, PublishResult,
      AwaitReaders, Goto, caller
<1>2. ASSUME NEW r \in Rank, Moves(r)
      PROVE  LabelsOK'
  BY <1>2 DEF TypeOK, LabelsOK, Moves, CountRecord, MarkComplete, TakeResult,
     TakeChunks, Goto, Collecting, caller
<1>3. ASSUME NEW r \in Rank, Enters(r)
      PROVE  LabelsOK'
  BY <1>3 DEF TypeOK, LabelsOK, Enters, EnterReduce, EnterRead, Goto
<1>4. ASSUME NEW r \in Rank, Leaves(r)
      PROVE  LabelsOK'
  <2>1. CASE Ends(r)
    BY <2>1 DEF TypeOK, LabelsOK, Ends
  <2>2. CASE ~Ends(r)
    BY <1>4, <2>2, ReturnsFrame DEF TypeOK, LabelsOK
  <2> QED BY <2>1, <2>2
<1>5. CASE DeleteDirectory
  <2>1. Ends(0)
    BY <1>5 DEF DeleteDirectory, Return, Ends, Goto
  <2> QED BY <2>1, Ranks DEF TypeOK, LabelsOK, Ends
<1> QED BY <1>1, <1>2, <1>3, <1>4, <1>5, NextCases

-----------------------------------------------------------------------------
(* How a rank comes to have joined, counted in or left an exchange *)

\* A rank is newly past an exchange only by returning from it with the envelope it holds.
LEMMA NewPast ==
    ASSUME IInv, Next, NEW k \in Key, NEW r \in Rank, Past(r, k)', ~Past(r, k)
    PROVE  /\ Ends(r) /\ key[r] = k
           /\ pc[r] \in {"acking", "ackmarking", "deleting"}
           /\ heard'[r][k.occ] = envelope[r]
           /\ Leaves(r) \/ (r = 0 /\ DeleteDirectory)
<1> USE DEF IInv
<1>1. CASE RootMoves \/ \E q \in Rank : Moves(q)
  BY <1>1, MovesFrame DEF caller, Past
<1>2. ASSUME NEW q \in Rank, Enters(q) PROVE FALSE
  BY <1>2, EntersFrame DEF Past
<1>3. ASSUME NEW q \in Rank, Ends(q), pc[q] # "ready", UNCHANGED program
      PROVE  r = q /\ key[r] = k /\ heard'[r][k.occ] = envelope[r]
  <2>1. call[q] \in Call /\ k.occ \in Call
    BY <1>3 DEF CallsOK, Key
  <2>2. r = q /\ k.occ = call[q]
    BY <1>3, <2>1 DEF Ends, Past, TypeOK
  <2>3. k = [stage |-> k.stage, occ |-> k.occ]
    BY DEF Key
  <2>4. key[q] = [stage |-> program[q][call[q]], occ |-> call[q]]
    BY <1>3 DEF CallsOK
  <2>5. heard'[r][k.occ] = envelope[r]
    BY <1>3, <2>1, <2>2 DEF Ends, TypeOK
  <2> QED BY <1>3, <2>2, <2>3, <2>4, <2>5 DEF Past
<1>4. ASSUME NEW q \in Rank, Leaves(q)
      PROVE  /\ q = r /\ Ends(r) /\ key[r] = k
             /\ pc[r] \in {"acking", "ackmarking"}
             /\ heard'[r][k.occ] = envelope[r]
  <2>1. CASE Ends(q)
    BY <1>3, <1>4, <2>1, ReturnsFrame
  <2>2. CASE ~Ends(q)
    BY <1>4, <2>2, ReturnsFrame DEF Past
  <2> QED BY <2>1, <2>2
<1>5. CASE DeleteDirectory
  <2>1. /\ 0 \in Rank /\ Ends(0) /\ pc[0] = "deleting" /\ UNCHANGED program
    BY <1>5, Ranks DEF DeleteDirectory, Return, Ends, Goto
  <2> QED BY <1>3, <1>5, <2>1
<1> QED BY <1>1, <1>2, <1>4, <1>5, NextCases

\* A rank is newly in an exchange only by entering it, under its next key.
LEMMA NewJoined ==
    ASSUME IInv, Next, NEW k \in Key, NEW r \in Rank,
           Joined(r, k)', ~Joined(r, k)
    PROVE  Enters(r) /\ k = NextKey(r) /\ k.occ = call[r]
<1> USE DEF IInv
<1>1. CASE RootMoves \/ \E q \in Rank : Moves(q)
  BY <1>1, MovesFrame DEF caller, Joined
<1>2. ASSUME NEW q \in Rank, Enters(q)
      PROVE  Enters(r) /\ k = NextKey(r) /\ k.occ = call[r]
  <2>1. r = q /\ k.occ = call[q]
    BY <1>2, EntersFrame DEF Joined, TypeOK, Key
  <2>2. k = [stage |-> k.stage, occ |-> k.occ]
    BY DEF Key
  <2>3. NextKey(q) = [stage |-> program[q][call[q]], occ |-> call[q]]
    BY <1>2, EntersFrame DEF NextKey
  <2>4. program[r][k.occ] = k.stage
    BY <1>2, EntersFrame DEF Joined
  <2> QED BY <1>2, <2>1, <2>2, <2>3, <2>4
<1>3. ASSUME NEW q \in Rank, Leaves(q) PROVE FALSE
  BY <1>3, ReturnsFrame DEF Joined
<1>4. CASE DeleteDirectory
  BY <1>4 DEF DeleteDirectory, Joined
<1> QED BY <1>1, <1>2, <1>3, <1>4, NextCases

\* A rank is newly counted in a reduction only by its own increment.
LEMMA NewCounted ==
    ASSUME IInv, Next, NEW k \in Key, k.stage \notin ReadStages,
           NEW r \in Rank, (r \in Counted(k))', r \notin Counted(k)
    PROVE  CountRecord(r) /\ key[r] = k
<1> USE DEF IInv
<1>1. Joined(r, k)' /\ ~At(r, k, {"counting"})'
  BY DEF Counted
<1>2. ~Enters(r) \/ k # NextKey(r)
  <2>1. ASSUME Enters(r), k = NextKey(r) PROVE FALSE
    <3>1. EnterReduce(r)
      BY <2>1 DEF Enters, EnterRead
    <3>2. key'[r] = k /\ pc'[r] = "counting"
      BY <2>1, <3>1, EntersFrame DEF EnterReduce, Goto, TypeOK
    <3> QED BY <1>1, <3>2 DEF At
  <2> QED BY <2>1
<1>3. Joined(r, k)
  BY <1>1, <1>2, NewJoined
<1>4. key[r] = k /\ pc[r] = "counting"
  BY <1>3 DEF Counted, At
<1>5. pc'[r] # "counting" \/ key'[r] # key[r]
  BY <1>1, <1>4 DEF At
<1>6. CASE RootMoves
  BY <1>4, <1>5, <1>6
  DEF RootMoves, CollectRecords, StoreChunks, PublishResult, AwaitReaders,
      Goto, caller, TypeOK
<1>7. ASSUME NEW q \in Rank, Moves(q) PROVE CountRecord(r)
  BY <1>4, <1>5, <1>7
  DEF Moves, CountRecord, MarkComplete, TakeResult, TakeChunks, Goto, caller,
      TypeOK
<1>8. ASSUME NEW q \in Rank, Enters(q) PROVE FALSE
  BY <1>4, <1>5, <1>8, EntersFrame DEF TypeOK
<1>9. ASSUME NEW q \in Rank, Leaves(q) PROVE FALSE
  <2>1. CASE Ends(q)
    BY <1>4, <1>5, <1>9, <2>1, ReturnsFrame DEF Ends, TypeOK
  <2>2. CASE ~Ends(q)
    BY <1>4, <1>5, <1>9, <2>2, ReturnsFrame DEF TypeOK
  <2> QED BY <2>1, <2>2
<1>10. CASE DeleteDirectory
  BY <1>4, <1>5, <1>10, Ranks DEF DeleteDirectory, Return, Goto, TypeOK
<1> QED BY <1>4, <1>6, <1>7, <1>8, <1>9, <1>10, NextCases

-----------------------------------------------------------------------------
(* Every verdict is the decision of its exchange *)

\* ResultsOK is preserved: only rank zero publishes, and what it holds is the decision.
LEMMA ResultsStep ==
    ASSUME IInv, Next
    PROVE  ResultsOK'
<1> USE DEF IInv
<1>1. ASSUME NEW k \in Key, result'[k] # NoVerdict
      PROVE  Decidable(k) /\ result'[k] = Decision(k)
  <2>1. CASE result'[k] = result[k]
    BY <1>1, <2>1 DEF ResultsOK
  <2>2. CASE result'[k] # result[k]
    <3>1. \/ PublishResult
          \/ DeleteDirectory
      BY <2>2, NextCases, EntersFrame, ReturnsFrame
      DEF RootMoves, Moves, CollectRecords, StoreChunks, AwaitReaders,
          CountRecord, MarkComplete, TakeResult, TakeChunks, answer, store
    <3>2. ~DeleteDirectory
      BY <1>1, <2>2 DEF DeleteDirectory, TypeOK
    <3>3. PublishResult
      BY <3>1, <3>2
    <3>4. /\ key[0] = k /\ pc[0] = "publishing"
          /\ result'[k] = envelope[0]
      BY <2>2, <3>3 DEF PublishResult, TypeOK
    <3> QED BY <3>4, Ranks DEF EnvelopesOK, At, Holding
  <2> QED BY <2>1, <2>2
<1> QED BY <1>1, Monotone DEF ResultsOK

\* EnvelopesOK is preserved: an envelope is made from all the records, or read from the result.
LEMMA EnvelopesStep ==
    ASSUME IInv, Next
    PROVE  EnvelopesOK'
<1> USE DEF IInv
<1>1. ASSUME NEW k \in Key, NEW r \in Rank, At(r, k, Holding)',
             At(r, k, Holding), envelope'[r] = envelope[r]
      PROVE  Decidable(k)' /\ envelope'[r] = Decision(k)'
  BY <1>1, Monotone DEF EnvelopesOK
<1>2. ASSUME NEW k \in Key, NEW r \in Rank, At(r, k, Holding)',
             ~(At(r, k, Holding) /\ envelope'[r] = envelope[r])
      PROVE  \/ CollectRecords /\ r = 0
             \/ TakeResult(r)
             \/ EnterRead(r) /\ r = 0
  <2>1. key'[r] = k /\ pc'[r] \in Holding
    BY <1>2 DEF At
  <2>2. CASE RootMoves
    BY <1>2, <2>1, <2>2
    DEF RootMoves, CollectRecords, StoreChunks, PublishResult, AwaitReaders,
        Goto, caller, Holding, At, TypeOK
  <2>3. ASSUME NEW q \in Rank, Moves(q) PROVE TakeResult(r)
    BY <1>2, <2>1, <2>3
    DEF Moves, CountRecord, MarkComplete, TakeResult, TakeChunks, Collecting,
        Goto, caller, Holding, At, TypeOK
  <2>4. ASSUME NEW q \in Rank, Enters(q) PROVE EnterRead(r) /\ r = 0
    <3>1. UNCHANGED envelope \/ \E v : envelope' = [envelope EXCEPT ![q] = v]
      BY <2>4 DEF Enters, EnterReduce, EnterRead
    <3>2. CASE q # r
      BY <1>2, <2>1, <2>4, <3>1, <3>2, EntersFrame DEF At, TypeOK
    <3>3. CASE q = r
      <4>1. CASE EnterReduce(r)
        <5>1. pc'[r] = "counting"
          BY <4>1 DEF EnterReduce, Goto, TypeOK
        <5> QED BY <2>1, <5>1 DEF Holding
      <4>2. CASE EnterRead(r)
        <5>1. pc'[r] = IF r = 0 THEN "chunking" ELSE "awaiting"
          BY <4>2 DEF EnterRead, Goto, TypeOK
        <5> QED BY <2>1, <4>2, <5>1 DEF Holding
      <4> QED BY <2>4, <3>3, <4>1, <4>2 DEF Enters
    <3> QED BY <3>2, <3>3
  <2>5. ASSUME NEW q \in Rank, Leaves(q) PROVE FALSE
    <3>1. CASE Ends(q)
      BY <1>2, <2>1, <2>5, <3>1, ReturnsFrame DEF Ends, At, Holding, TypeOK
    <3>2. CASE ~Ends(q)
      BY <1>2, <2>1, <2>5, <3>2, ReturnsFrame DEF At, Holding, TypeOK
    <3> QED BY <3>1, <3>2
  <2>6. CASE DeleteDirectory
    BY <1>2, <2>1, <2>6, Ranks
    DEF DeleteDirectory, Return, Goto, At, Holding, TypeOK
  <2> QED BY <2>2, <2>3, <2>4, <2>5, <2>6, NextCases
<1>3. ASSUME NEW k \in Key, At(0, k, Holding)', CollectRecords
      PROVE  Decidable(k)' /\ envelope'[0] = Decision(k)'
  <2>1. /\ pc[0] = "collecting" /\ key[0] = k /\ complete[k]
        /\ envelope'[0] = Envelope(record[k])
    BY <1>3, Ranks DEF CollectRecords, caller, At, TypeOK
  <2>2. Open(k) /\ Joined(0, k)
    BY <2>1, Positions, Ranks DEF LabelsOK, Open
  <2>3. Decidable(k)
    BY <2>1, <2>2 DEF CompleteIsFull, Decidable
  <2>4. record[k] = [r \in Rank |-> offered[r][k.occ]]
    <3>1. \A r \in Rank : record[k][r] = offered[r][k.occ]
      BY <2>2, <2>3 DEF RecordsStored, Decidable, Counted, Open
    <3> QED BY <3>1 DEF TypeOK
  <2>5. Decision(k) = Envelope(record[k])
    BY <2>2, <2>4 DEF Decision, Open
  <2> QED BY <2>1, <2>3, <2>5, Monotone
<1>4. ASSUME NEW k \in Key, NEW r \in Rank, At(r, k, Holding)', TakeResult(r)
      PROVE  Decidable(k)' /\ envelope'[r] = Decision(k)'
  <2>1. /\ key[r] = k /\ result[k] # NoVerdict
        /\ envelope'[r] = result[k]
    BY <1>4 DEF TakeResult, caller, At, TypeOK
  <2> QED BY <2>1, Monotone DEF ResultsOK
<1>5. ASSUME NEW k \in Key, At(0, k, Holding)', EnterRead(0)
      PROVE  Decidable(k)' /\ envelope'[0] = Decision(k)'
  <2>1. Enters(0) /\ call[0] \in Call /\ occurrence[0] = call[0]
        /\ key'[0] = NextKey(0)
    BY <1>5, Ranks, EntersFrame DEF Enters, TypeOK
  <2>2. k = NextKey(0) /\ k.stage \in ReadStages /\ k.occ = call[0]
        /\ program[0][k.occ] = k.stage
    BY <1>5, <2>1 DEF At, EnterRead, NextKey
  <2>3. PICK x \in Offers(0, k.stage) :
          /\ offered' = [offered EXCEPT ![0][call[0]] = x]
          /\ envelope' = [envelope EXCEPT ![0] =
                            IF 0 = 0 THEN ReadEnvelope(x) ELSE NoVerdict]
    BY <1>5, <2>2 DEF EnterRead
  <2>4. offered'[0][k.occ] = x /\ envelope'[0] = ReadEnvelope(x)
    BY <2>1, <2>2, <2>3, Ranks DEF TypeOK
  <2>5. x # NoReceipt
    BY DEF Offers, NoReceipt, Receipt
  <2>6. program' = program
    BY <1>5 DEF EnterRead
  <2> QED BY <2>2, <2>4, <2>5, <2>6 DEF Decidable, Decision, Joined
<1> QED BY <1>1, <1>2, <1>3, <1>4, <1>5 DEF EnvelopesOK

\* HeardOK is preserved: a call returns the envelope it holds.
LEMMA HeardStep ==
    ASSUME IInv, Next
    PROVE  HeardOK'
<1> USE DEF IInv
<1>1. ASSUME NEW k \in Key, NEW r \in Rank, Past(r, k)'
      PROVE  Decidable(k)' /\ heard'[r][k.occ] = Decision(k)'
  <2>1. CASE Past(r, k)
    BY <2>1, Monotone DEF HeardOK
  <2>2. CASE ~Past(r, k)
    <3>1. At(r, k, Holding) /\ heard'[r][k.occ] = envelope[r]
      BY <1>1, <2>2, NewPast DEF At, Holding
    <3> QED BY <3>1, Monotone DEF EnvelopesOK
  <2> QED BY <2>1, <2>2
<1> QED BY <1>1 DEF HeardOK

-----------------------------------------------------------------------------
(* The publishing side *)

\* A call that ends with a verdict leaves its exchange behind.
LEMMA EndsArePast ==
    ASSUME IInv, NEW k \in Key, NEW r \in Rank, key[r] = k, pc[r] \in Holding,
           Ends(r), UNCHANGED program
    PROVE  Past(r, k)'
<1> USE DEF IInv
<1>1. pc[r] # "ready" /\ Joined(r, k)
  BY Positions DEF Holding
<1>2. envelope[r] # NoVerdict
  <2>1. envelope[r] = Decision(k)
    BY DEF EnvelopesOK, At
  <2>2. Decision(k) \in Verdict
    BY VerdictTypes DEF Decision
  <2> QED BY <2>1, <2>2 DEF NoVerdict, Verdict
<1>3. call[r] \in Call /\ key[r] = [stage |-> program[r][call[r]], occ |-> call[r]]
  BY <1>1 DEF CallsOK
<1>4. k.occ = call[r]
  BY <1>3
<1>5. heard'[r][k.occ] = envelope[r]
  BY <1>3, <1>4 DEF Ends, TypeOK
<1> QED BY <1>1, <1>2, <1>5 DEF Past, Joined

\* Rank zero's delete ends its call: the exchange is past.
LEMMA DeleteEnds ==
    ASSUME IInv, NEW k \in Key, DeleteDirectory, key[0] = k
    PROVE  At(0, k, {"deleting"}) /\ Past(0, k)'
<1>1. /\ 0 \in Rank /\ pc[0] = "deleting" /\ pc[0] \in Holding
      /\ Ends(0) /\ UNCHANGED program
  BY Ranks DEF DeleteDirectory, Return, Ends, Goto, Holding
<1> QED BY <1>1, EndsArePast DEF At

\* Who writes a record, a count and a mark.
LEMMA PostedFrame ==
    ASSUME IInv, Next, NEW k \in Key
    PROVE  /\ \A r \in Rank : record'[k][r] # record[k][r] =>
                \/ EnterReduce(r) /\ k = NextKey(r)
                \/ DeleteDirectory /\ key[0] = k
           /\ arrived'[k] # arrived[k] =>
                \/ \E q \in Rank : CountRecord(q) /\ key[q] = k
                \/ DeleteDirectory /\ key[0] = k
           /\ complete'[k] # complete[k] =>
                \/ \E q \in Rank : MarkComplete(q) /\ key[q] = k
                \/ DeleteDirectory /\ key[0] = k
<1> USE DEF IInv
<1> DEFINE Fact ==
      /\ \A r \in Rank : record'[k][r] # record[k][r] =>
           \/ EnterReduce(r) /\ k = NextKey(r)
           \/ DeleteDirectory /\ key[0] = k
      /\ arrived'[k] # arrived[k] =>
           \/ \E q \in Rank : CountRecord(q) /\ key[q] = k
           \/ DeleteDirectory /\ key[0] = k
      /\ complete'[k] # complete[k] =>
           \/ \E q \in Rank : MarkComplete(q) /\ key[q] = k
           \/ DeleteDirectory /\ key[0] = k
<1>1. CASE RootMoves
  BY <1>1
  DEF RootMoves, CollectRecords, StoreChunks, PublishResult, AwaitReaders,
      posted, store
<1>2. ASSUME NEW q \in Rank, CountRecord(q) PROVE Fact
  BY <1>2 DEF CountRecord, TypeOK
<1>3. ASSUME NEW q \in Rank, MarkComplete(q) PROVE Fact
  BY <1>3 DEF MarkComplete, TypeOK
<1>4. ASSUME NEW q \in Rank, TakeResult(q) \/ TakeChunks(q) \/ EnterRead(q)
                             \/ Leaves(q)
      PROVE  Fact
  BY <1>4, ReturnsFrame DEF TakeResult, TakeChunks, EnterRead, store, posted
<1>5. ASSUME NEW q \in Rank, EnterReduce(q) PROVE Fact
  <2>1. NextKey(q) \in Key
    BY <1>5, EntersFrame DEF Enters
  <2>2. PICK x : record' = [record EXCEPT ![NextKey(q)][q] = x]
    BY <1>5 DEF EnterReduce
  <2>3. \A r \in Rank : record'[k][r] # record[k][r] => r = q /\ k = NextKey(q)
    BY <2>1, <2>2 DEF TypeOK
  <2>4. UNCHANGED <<arrived, complete>>
    BY <1>5 DEF EnterReduce
  <2> QED BY <1>5, <2>3, <2>4
<1>6. CASE DeleteDirectory
  BY <1>6 DEF DeleteDirectory, TypeOK
<1> QED BY <1>1, <1>2, <1>3, <1>4, <1>5, <1>6, NextCases DEF Moves, Enters

\* The three conjuncts on records and their counter are preserved (reduce_bytes_to_all, publishing side).
LEMMA RecordsStep ==
    ASSUME IInv, Next
    PROVE  RecordsStored' /\ RecordsCounted' /\ CompleteIsFull'
<1> USE DEF IInv
<1>1. \A k \in Key : Open(k)' => Open(k)
  BY Monotone, Ranks DEF Open
<1>2. \A k \in Key : Open(k)' => ~(DeleteDirectory /\ key[0] = k)
  BY DeleteEnds DEF Open
<1>3. ASSUME NEW k \in Key, NEW r \in Rank, Open(k)', Joined(r, k)'
      PROVE  record'[k][r] = offered'[r][k.occ]
  <2>1. CASE Joined(r, k)
    <3>1. ~(EnterReduce(r) /\ k = NextKey(r))
      BY <2>1, EntersFrame DEF Joined, Enters, NextKey
    <3>2. record'[k][r] = record[k][r]
      BY <1>2, <1>3, <3>1, PostedFrame
    <3> QED BY <1>1, <1>3, <2>1, <3>2, Monotone DEF RecordsStored
  <2>2. CASE ~Joined(r, k)
    <3>1. Enters(r) /\ k = NextKey(r) /\ k.occ = call[r]
      BY <1>3, <2>2, NewJoined
    <3>2. EnterReduce(r)
      BY <1>3, <3>1 DEF Open, Enters, EnterRead
    <3>3. PICK x : /\ offered' = [offered EXCEPT ![r][call[r]] = x]
                   /\ record' = [record EXCEPT ![k][r] = x]
      BY <3>1, <3>2 DEF EnterReduce
    <3>4. call[r] \in Call
      BY <3>1, EntersFrame
    <3> QED BY <3>1, <3>3, <3>4 DEF TypeOK
  <2> QED BY <2>1, <2>2
<1>4. ASSUME NEW k \in Key, Open(k)'
      PROVE  arrived'[k] = Cardinality(Counted(k)')
  <2>1. Counted(k) \subseteq Counted(k)'
    BY Monotone DEF Counted
  <2>2. arrived[k] = Cardinality(Counted(k))
    BY <1>1, <1>4 DEF RecordsCounted
  <2>3. \A r \in Rank : r \in Counted(k)' /\ r \notin Counted(k)
          => CountRecord(r) /\ key[r] = k
    BY <1>4, NewCounted DEF Open
  <2>4. ASSUME NEW q \in Rank, CountRecord(q), key[q] = k
        PROVE  arrived'[k] = Cardinality(Counted(k)')
    <3>1. /\ pc[q] = "counting" /\ pc'[q] # "counting"
          /\ \A r \in Rank \ {q} : pc'[r] = pc[r]
          /\ arrived'[k] = arrived[k] + 1
      BY <2>4 DEF CountRecord, Goto, Collecting, TypeOK
    <3>2. arrived[k] + 1 = Cardinality(Counted(k) \cup {q})
      BY <2>4, <3>1, CountFacts
    <3>3. q \in Counted(k)'
      <4>1. Joined(q, k)
        BY <2>4, <3>1, Positions
      <4> QED BY <3>1, <4>1, Monotone DEF Counted, At
    <3>4. \A r \in Rank : CountRecord(r) => r = q
      <4>1. \A r \in Rank : CountRecord(r) => pc[r] = "counting" /\ pc'[r] # "counting"
        BY DEF CountRecord, Goto, Collecting, TypeOK
      <4> QED BY <3>1, <4>1
    <3>5. Counted(k)' = Counted(k) \cup {q}
      <4>1. Counted(k)' \subseteq Rank
        BY DEF Counted
      <4> QED BY <2>1, <2>3, <3>3, <3>4, <4>1
    <3> QED BY <3>1, <3>2, <3>5
  <2>5. CASE ~ \E q \in Rank : CountRecord(q) /\ key[q] = k
    <3>1. Counted(k)' = Counted(k)
      <4>1. Counted(k)' \subseteq Rank
        BY DEF Counted
      <4> QED BY <2>1, <2>3, <2>5, <4>1
    <3>2. arrived'[k] = arrived[k]
      BY <1>2, <1>4, <2>5, PostedFrame
    <3> QED BY <2>2, <3>1, <3>2
  <2> QED BY <2>4, <2>5
<1>5. ASSUME NEW k \in Key, Open(k)', complete'[k], NEW q \in Rank
      PROVE  q \in Counted(k)'
  <2>1. CASE complete[k]
    BY <1>1, <1>5, <2>1, Monotone DEF CompleteIsFull
  <2>2. CASE ~complete[k]
    <3>1. PICK r \in Rank : MarkComplete(r) /\ key[r] = k
      BY <1>2, <1>5, <2>2, PostedFrame
    <3>2. At(r, k, {"marking"})
      BY <3>1 DEF MarkComplete, At
    <3> QED BY <1>1, <1>5, <3>2, Monotone DEF CompleteIsFull
  <2> QED BY <2>1, <2>2
<1>6. ASSUME NEW k \in Key, NEW r \in Rank, Open(k)', At(r, k, {"marking"})',
             NEW q \in Rank
      PROVE  q \in Counted(k)'
  <2>1. CASE At(r, k, {"marking"})
    BY <1>1, <1>6, <2>1, Monotone DEF CompleteIsFull
  <2>2. CASE ~At(r, k, {"marking"})
    <3>1. key'[r] = k /\ pc'[r] = "marking"
      BY <1>6 DEF At
    <3>2. CountRecord(r) /\ key[r] = k
      <4>1. CASE RootMoves
        BY <2>2, <3>1, <4>1
        DEF RootMoves, CollectRecords, StoreChunks, PublishResult,
            AwaitReaders, Goto, caller, At, TypeOK
      <4>2. ASSUME NEW p \in Rank, Moves(p)
            PROVE  CountRecord(r) /\ key[r] = k
        BY <2>2, <3>1, <4>2
        DEF Moves, CountRecord, MarkComplete, TakeResult, TakeChunks,
            Collecting, Goto, caller, At, TypeOK
      <4>3. ASSUME NEW p \in Rank, Enters(p) PROVE FALSE
        BY <2>2, <3>1, <4>3, EntersFrame DEF At, TypeOK
      <4>4. ASSUME NEW p \in Rank, Leaves(p) PROVE FALSE
        <5>1. CASE Ends(p)
          BY <2>2, <3>1, <4>4, <5>1, ReturnsFrame DEF Ends, At, TypeOK
        <5>2. CASE ~Ends(p)
          BY <2>2, <3>1, <4>4, <5>2, ReturnsFrame DEF At, TypeOK
        <5> QED BY <5>1, <5>2
      <4>5. CASE DeleteDirectory
        BY <2>2, <3>1, <4>5, Ranks
        DEF DeleteDirectory, Return, Goto, At, TypeOK
      <4> QED BY <4>1, <4>2, <4>3, <4>4, <4>5, NextCases
    <3>3. arrived[k] + 1 = N
      BY <3>1, <3>2 DEF CountRecord, Goto, Collecting, TypeOK
    <3>4. Counted(k) \cup {r} = Rank
      BY <3>2, <3>3, CountFacts DEF CountRecord
    <3>5. r \in Counted(k)'
      <4>1. Joined(r, k)
        BY <3>2, Positions DEF CountRecord
      <4> QED BY <3>1, <4>1, Monotone DEF Counted, At
    <3> QED BY <3>4, <3>5, Monotone
  <2> QED BY <2>1, <2>2
<1>7. ASSUME NEW k \in Key, k.stage \in ReadStages
      PROVE  ~complete'[k]
  <2>1. ~complete[k]
    BY <1>7 DEF CompleteIsFull
  <2>2. \A r \in Rank : ~(MarkComplete(r) /\ key[r] = k)
    BY <1>7 DEF MarkComplete, LabelsOK
  <2>3. DeleteDirectory /\ key[0] = k => ~complete'[k]
    BY DEF DeleteDirectory, TypeOK
  <2> QED BY <2>1, <2>2, <2>3, PostedFrame
<1> QED BY <1>3, <1>4, <1>5, <1>6, <1>7
        DEF RecordsStored, RecordsCounted, CompleteIsFull

-----------------------------------------------------------------------------
(* The reading side *)

\* Who counts a reader and who marks the readers complete.
LEMMA ReadersFrame ==
    ASSUME IInv, Next, NEW k \in Key
    PROVE  /\ readArrived'[k] # readArrived[k] =>
                \/ \E q \in Rank : CountRead(q) /\ key[q] = k
                \/ DeleteDirectory /\ key[0] = k
           /\ readComplete'[k] # readComplete[k] =>
                \/ \E q \in Rank : MarkReadComplete(q) /\ key[q] = k
                \/ DeleteDirectory /\ key[0] = k
<1> USE DEF IInv
<1> DEFINE Fact ==
      /\ readArrived'[k] # readArrived[k] =>
           \/ \E q \in Rank : CountRead(q) /\ key[q] = k
           \/ DeleteDirectory /\ key[0] = k
      /\ readComplete'[k] # readComplete[k] =>
           \/ \E q \in Rank : MarkReadComplete(q) /\ key[q] = k
           \/ DeleteDirectory /\ key[0] = k
<1>1. CASE RootMoves
  BY <1>1
  DEF RootMoves, CollectRecords, StoreChunks, PublishResult, AwaitReaders,
      readers, store
<1>2. ASSUME NEW q \in Rank, Moves(q) \/ Enters(q) PROVE Fact
  BY <1>2, EntersFrame
  DEF Moves, CountRecord, MarkComplete, TakeResult, TakeChunks, readers, store
<1>3. ASSUME NEW q \in Rank, CountRead(q) PROVE Fact
  BY <1>3 DEF CountRead, TypeOK
<1>4. ASSUME NEW q \in Rank, MarkReadComplete(q) PROVE Fact
  BY <1>4 DEF MarkReadComplete, TypeOK
<1>5. CASE DeleteDirectory
  BY <1>5 DEF DeleteDirectory, TypeOK
<1> QED BY <1>1, <1>2, <1>3, <1>4, <1>5, NextCases DEF Leaves

\* How a rank comes to mark the readers complete.
LEMMA NewMarker ==
    ASSUME IInv, Next, NEW k \in Key, NEW r \in Rank,
           At(r, k, {"ackmarking"})', ~At(r, k, {"ackmarking"})
    PROVE  /\ CountRead(r) /\ key[r] = k /\ pc[r] = "acking"
           /\ readArrived[k] + 1 = N - 1
<1> USE DEF IInv
<1>1. key'[r] = k /\ pc'[r] = "ackmarking"
  BY DEF At
<1>2. CASE RootMoves
  BY <1>1, <1>2
  DEF RootMoves, CollectRecords, StoreChunks, PublishResult, AwaitReaders,
      Goto, caller, At, TypeOK
<1>3. ASSUME NEW q \in Rank, Moves(q) PROVE FALSE
  BY <1>1, <1>3
  DEF Moves, CountRecord, MarkComplete, TakeResult, TakeChunks, Collecting,
      Goto, caller, At, TypeOK
<1>4. ASSUME NEW q \in Rank, Enters(q) PROVE FALSE
  BY <1>1, <1>4, EntersFrame DEF At, TypeOK
<1>5. ASSUME NEW q \in Rank, MarkReadComplete(q) PROVE FALSE
  <2>1. Ends(q)
    BY <1>5 DEF MarkReadComplete, Return, Ends, Goto
  <2> QED BY <1>1, <2>1 DEF Ends, At, TypeOK
<1>6. ASSUME NEW q \in Rank, CountRead(q)
      PROVE  /\ CountRead(r) /\ key[r] = k /\ pc[r] = "acking"
             /\ readArrived[k] + 1 = N - 1
  <2>1. CASE readArrived[key[q]] + 1 = N - 1
    BY <1>1, <1>6, <2>1 DEF CountRead, Goto, At, TypeOK
  <2>2. CASE readArrived[key[q]] + 1 # N - 1
    <3>1. Ends(q)
      BY <1>6, <2>2 DEF CountRead, Return, Ends, Goto
    <3> QED BY <1>1, <3>1 DEF Ends, At, TypeOK
  <2> QED BY <2>1, <2>2
<1>7. CASE DeleteDirectory
  BY <1>1, <1>7, Ranks DEF DeleteDirectory, Return, Goto, At, TypeOK
<1> QED BY <1>2, <1>3, <1>4, <1>5, <1>6, <1>7, NextCases DEF Leaves

\* A rank stays counted as a reader, and becomes one by counting itself.
LEMMA AckedSteps ==
    ASSUME IInv, Next, NEW k \in Key, NEW r \in Rank
    PROVE  /\ r \in Acked(k) => r \in Acked(k)'
           /\ r \in Acked(k)' /\ r \notin Acked(k)
                => CountRead(r) /\ key[r] = k
           /\ CountRead(r) /\ key[r] = k => r \in Acked(k)'
<1> USE DEF IInv
<1>1. ASSUME At(r, k, {"ackmarking"}), ~At(r, k, {"ackmarking"})'
      PROVE  Past(r, k)'
  <2>1. key[r] = k /\ pc[r] = "ackmarking" /\ r # 0
    BY <1>1 DEF At, LabelsOK
  <2>2. CASE RootMoves
    BY <1>1, <2>1, <2>2
    DEF RootMoves, CollectRecords, StoreChunks, PublishResult, AwaitReaders,
        Goto, caller, At, TypeOK
  <2>3. ASSUME NEW q \in Rank, Moves(q) PROVE FALSE
    BY <1>1, <2>1, <2>3
    DEF Moves, CountRecord, MarkComplete, TakeResult, TakeChunks, Goto,
        caller, At, TypeOK
  <2>4. ASSUME NEW q \in Rank, Enters(q) PROVE FALSE
    BY <1>1, <2>1, <2>4, EntersFrame DEF At, TypeOK
  <2>5. ASSUME NEW q \in Rank, Leaves(q) PROVE Past(r, k)'
    <3>1. CASE Ends(q) /\ q = r
      BY <2>1, <2>5, <3>1, EndsArePast, ReturnsFrame DEF Holding
    <3>2. CASE Ends(q) /\ q # r
      BY <1>1, <2>1, <3>2 DEF Ends, At, TypeOK
    <3>3. CASE ~Ends(q)
      BY <1>1, <2>1, <2>5, <3>3, ReturnsFrame DEF At, TypeOK
    <3> QED BY <3>1, <3>2, <3>3
  <2>6. CASE DeleteDirectory
    BY <1>1, <2>1, <2>6, Ranks DEF DeleteDirectory, Return, Goto, At, TypeOK
  <2> QED BY <2>2, <2>3, <2>4, <2>5, <2>6, NextCases
<1>2. r \in Acked(k) => r \in Acked(k)'
  BY <1>1, Monotone DEF Acked
<1>3. ASSUME r \in Acked(k)', r \notin Acked(k)
      PROVE  CountRead(r) /\ key[r] = k
  <2>1. r \in Peer /\ ~Past(r, k) /\ ~At(r, k, {"ackmarking"})
    BY <1>3 DEF Acked
  <2>2. CASE Past(r, k)'
    <3>1. key[r] = k /\ pc[r] \in {"acking", "ackmarking", "deleting"}
          /\ (Leaves(r) \/ r = 0)
      BY <2>1, <2>2, NewPast
    <3>2. pc[r] = "acking"
      BY <2>1, <3>1 DEF At, LabelsOK, Peer
    <3> QED BY <2>1, <3>1, <3>2 DEF Leaves, MarkReadComplete, Peer
  <2>3. CASE At(r, k, {"ackmarking"})'
    BY <2>1, <2>3, NewMarker
  <2> QED BY <1>3, <2>2, <2>3 DEF Acked
<1>4. ASSUME CountRead(r), key[r] = k
      PROVE  r \in Acked(k)'
  <2>1. pc[r] = "acking" /\ r \in Peer
    BY <1>4 DEF CountRead, LabelsOK, Peer
  <2>2. CASE Ends(r)
    BY <1>4, <2>1, <2>2, EndsArePast DEF CountRead, Acked, Holding
  <2>3. CASE ~Ends(r)
    <3>1. pc'[r] = "ackmarking" /\ key'[r] = k
      BY <1>4, <2>3, ReturnsFrame DEF Leaves, TypeOK
    <3> QED BY <2>1, <3>1 DEF Acked, At
  <2> QED BY <2>2, <2>3
<1> QED BY <1>2, <1>3, <1>4

\* The two conjuncts on readers are preserved (_arrive of key/read, deleting).
LEMMA ReadersStep ==
    ASSUME IInv, Next
    PROVE  ReadersCounted' /\ ReadersGone'
<1> USE DEF IInv
<1>1. \A k \in Key : ~Past(0, k)' => ~Past(0, k) /\ ~(DeleteDirectory /\ key[0] = k)
  BY Monotone, DeleteEnds, Ranks
<1>2. ASSUME NEW k \in Key, ~Past(0, k)'
      PROVE  readArrived'[k] = Cardinality(Acked(k)')
  <2>1. readArrived[k] = Cardinality(Acked(k))
    BY <1>1, <1>2 DEF ReadersCounted
  <2>2. Acked(k) \subseteq Rank /\ Acked(k)' \subseteq Rank
    BY DEF Acked, Peer
  <2>3. ASSUME NEW q \in Rank, CountRead(q), key[q] = k
        PROVE  readArrived'[k] = Cardinality(Acked(k)')
    <3>1. /\ pc[q] = "acking" /\ pc'[q] # "acking"
          /\ \A r \in Rank \ {q} : pc'[r] = pc[r]
          /\ readArrived'[k] = readArrived[k] + 1
      BY <2>3 DEF CountRead, Return, Goto, TypeOK
    <3>2. \A r \in Rank : CountRead(r) => r = q
      <4>1. \A r \in Rank : CountRead(r) => pc[r] = "acking" /\ pc'[r] # "acking"
        BY DEF CountRead, Return, Goto, TypeOK
      <4> QED BY <3>1, <4>1
    <3>3. Acked(k)' = Acked(k) \cup {q}
      BY <2>2, <2>3, <3>2, AckedSteps
    <3> QED BY <2>3, <3>1, <3>3, ReadFacts
  <2>4. CASE ~ \E q \in Rank : CountRead(q) /\ key[q] = k
    <3>1. Acked(k)' = Acked(k)
      BY <2>2, <2>4, AckedSteps
    <3>2. readArrived'[k] = readArrived[k]
      BY <1>1, <1>2, <2>4, ReadersFrame
    <3> QED BY <2>1, <3>1, <3>2
  <2> QED BY <2>3, <2>4
<1>3. ASSUME NEW k \in Key, ~Past(0, k)', readComplete'[k], NEW q \in Peer
      PROVE  Past(q, k)'
  <2>0. q \in Rank
    BY DEF Peer
  <2>1. CASE readComplete[k]
    BY <1>1, <1>3, <2>0, <2>1, Monotone DEF ReadersGone
  <2>2. CASE ~readComplete[k]
    <3>1. PICK r \in Rank : MarkReadComplete(r) /\ key[r] = k
      BY <1>1, <1>3, <2>2, ReadersFrame
    <3>2. At(r, k, {"ackmarking"}) /\ Ends(r) /\ UNCHANGED program
      BY <3>1 DEF MarkReadComplete, Return, Ends, Goto, At
    <3>3. CASE q = r
      BY <3>2, <3>3, EndsArePast DEF At, Holding
    <3>4. CASE q # r
      BY <2>0, <3>2, <3>4, Monotone DEF ReadersGone
    <3> QED BY <3>3, <3>4
  <2> QED BY <2>1, <2>2
<1>4. ASSUME NEW k \in Key, Past(0, k)' \/ At(0, k, {"deleting"})', NEW q \in Peer
      PROVE  Past(q, k)'
  <2>0. q \in Rank /\ 0 \in Rank
    BY Ranks DEF Peer
  <2>1. CASE Past(0, k) \/ At(0, k, {"deleting"})
    BY <2>0, <2>1, Monotone DEF ReadersGone
  <2>2. CASE Past(0, k)' /\ ~Past(0, k)
    <3>1. At(0, k, {"deleting"})
      BY <2>0, <2>2, NewPast DEF At, LabelsOK
    <3> QED BY <2>1, <3>1
  <2>3. CASE At(0, k, {"deleting"})' /\ ~At(0, k, {"deleting"})
    <3>1. key'[0] = k /\ pc'[0] = "deleting"
      BY <2>3 DEF At
    <3>2. AwaitReaders /\ key[0] = k
      <4>1. CASE RootMoves
        BY <2>0, <2>3, <3>1, <4>1
        DEF RootMoves, CollectRecords, StoreChunks, PublishResult,
            AwaitReaders, Goto, caller, At, TypeOK
      <4>2. ASSUME NEW p \in Rank, Moves(p) PROVE FALSE
        BY <2>0, <2>3, <3>1, <4>2
        DEF Moves, CountRecord, MarkComplete, TakeResult, TakeChunks,
            Collecting, Goto, caller, At, TypeOK
      <4>3. ASSUME NEW p \in Rank, Enters(p) PROVE FALSE
        BY <2>0, <2>3, <3>1, <4>3, EntersFrame DEF At, TypeOK
      <4>4. ASSUME NEW p \in Rank, Leaves(p) PROVE FALSE
        <5>1. CASE Ends(p)
          BY <2>0, <2>3, <3>1, <4>4, <5>1, ReturnsFrame DEF Ends, At, TypeOK
        <5>2. CASE ~Ends(p)
          BY <2>0, <2>3, <3>1, <4>4, <5>2, ReturnsFrame DEF At, TypeOK
        <5> QED BY <5>1, <5>2
      <4>5. CASE DeleteDirectory
        BY <2>0, <3>1, <4>5 DEF DeleteDirectory, Return, Goto, TypeOK
      <4> QED BY <4>1, <4>2, <4>3, <4>4, <4>5, NextCases
    <3>3. readComplete[k] /\ ~Past(0, k)
      BY <2>0, <3>2, Positions DEF AwaitReaders
    <3> QED BY <2>0, <3>3, Monotone DEF ReadersGone
  <2> QED BY <1>4, <2>1, <2>2, <2>3
<1>5. ASSUME NEW k \in Key, NEW r \in Rank, At(r, k, {"ackmarking"})',
             NEW q \in Peer \ {r}
      PROVE  Past(q, k)'
  <2>0. q \in Rank
    BY DEF Peer
  <2>1. CASE At(r, k, {"ackmarking"})
    BY <2>0, <2>1, Monotone DEF ReadersGone
  <2>2. CASE ~At(r, k, {"ackmarking"})
    <3>1. key[r] = k /\ pc[r] = "acking" /\ readArrived[k] + 1 = N - 1
      BY <1>5, <2>2, NewMarker
    <3>2. Past(q, k)
      BY <1>5, <3>1, ReadFacts
    <3> QED BY <2>0, <3>2, Monotone
  <2> QED BY <2>1, <2>2
<1> QED BY <1>2, <1>3, <1>4, <1>5 DEF ReadersCounted, ReadersGone

-----------------------------------------------------------------------------
(* The directories *)

\* Who stores the body and who sets the result.
LEMMA AnswerFrame ==
    ASSUME IInv, Next, NEW k \in Key
    PROVE  /\ chunks'[k] # chunks[k] =>
                \/ StoreChunks /\ key[0] = k /\ chunks'[k]
                \/ DeleteDirectory /\ key[0] = k
           /\ result'[k] # result[k] =>
                \/ PublishResult /\ key[0] = k /\ result'[k] = envelope[0]
                \/ DeleteDirectory /\ key[0] = k
<1> USE DEF IInv
<1>1. CASE RootMoves
  BY <1>1
  DEF RootMoves, CollectRecords, StoreChunks, PublishResult, AwaitReaders,
      answer, store, TypeOK
<1>2. ASSUME NEW q \in Rank, Moves(q) \/ Enters(q) \/ Leaves(q)
      PROVE  UNCHANGED answer
  BY <1>2, EntersFrame, ReturnsFrame
  DEF Moves, CountRecord, MarkComplete, TakeResult, TakeChunks, store
<1>3. CASE DeleteDirectory
  BY <1>3 DEF DeleteDirectory, TypeOK
<1> QED BY <1>1, <1>2, <1>3, NextCases DEF answer

\* Only a rank inside an exchange, or entering it, writes to its directory.
LEMMA StaysAbsent ==
    ASSUME IInv, Next, NEW k \in Key, Absent(k),
           \A q \in Rank : pc[q] # "ready" => key[q] # k,
           \A q \in Rank : ~(EnterReduce(q) /\ k = NextKey(q))
    PROVE  Absent(k)'
<1> USE DEF IInv
<1>1. key[0] # k \/ pc[0] = "ready"
  BY Ranks
<1>2. /\ ~(DeleteDirectory /\ key[0] = k) /\ ~(StoreChunks /\ key[0] = k)
      /\ ~(PublishResult /\ key[0] = k)
  BY <1>1 DEF DeleteDirectory, StoreChunks, PublishResult
<1>3. \A q \in Rank :
        /\ ~(CountRecord(q) /\ key[q] = k) /\ ~(MarkComplete(q) /\ key[q] = k)
        /\ ~(CountRead(q) /\ key[q] = k) /\ ~(MarkReadComplete(q) /\ key[q] = k)
  BY DEF CountRecord, MarkComplete, CountRead, MarkReadComplete
<1>4. record'[k] = record[k]
  <2>1. \A r \in Rank : record'[k][r] = record[k][r]
    BY <1>2, PostedFrame
  <2>2. record[k] \in [Rank -> Receipt \cup {NoReceipt}]
        /\ record'[k] \in [Rank -> Receipt \cup {NoReceipt}]
    BY TypeStep DEF TypeOK
  <2> QED BY <2>1, <2>2
<1>5. arrived'[k] = arrived[k] /\ complete'[k] = complete[k]
  BY <1>2, <1>3, PostedFrame
<1>6. readArrived'[k] = readArrived[k] /\ readComplete'[k] = readComplete[k]
  BY <1>2, <1>3, ReadersFrame
<1>7. chunks'[k] = chunks[k] /\ result'[k] = result[k]
  BY <1>2, AnswerFrame
<1> QED BY <1>4, <1>5, <1>6, <1>7 DEF Absent

\* Directories is preserved: keys appear with the first rank to enter and go with the delete.
LEMMA DirectoriesStep ==
    ASSUME IInv, Next
    PROVE  Directories'
<1> USE DEF IInv
<1>1. ASSUME NEW k \in Key, Past(0, k)'
      PROVE  Absent(k)'
  <2>1. CASE Past(0, k)
    <3>1. \A q \in Rank : Past(q, k)
      BY <2>1 DEF ReadersGone, Peer
    <3>2. \A q \in Rank : pc[q] # "ready" => key[q] # k
      BY <3>1, Positions
    <3>3. \A q \in Rank : ~(EnterReduce(q) /\ k = NextKey(q))
      <4>1. \A q \in Rank : Joined(q, k)
        BY <3>1, Positions
      <4> QED BY <4>1, EntersFrame DEF Joined, Enters, NextKey
    <3> QED BY <2>1, <3>2, <3>3, StaysAbsent DEF Directories
  <2>2. CASE ~Past(0, k)
    <3>1. key[0] = k /\ (Leaves(0) \/ DeleteDirectory)
      BY <1>1, <2>2, Ranks, NewPast
    <3>2. DeleteDirectory
      BY <3>1, Ranks, ReturnsFrame DEF LabelsOK
    <3> QED BY <3>1, <3>2 DEF DeleteDirectory, Absent, TypeOK
  <2> QED BY <2>1, <2>2
<1>2. ASSUME NEW k \in Key, \A r \in Rank : ~Joined(r, k)'
      PROVE  Absent(k)'
  <2>1. \A r \in Rank : ~Joined(r, k)
    BY <1>2, Monotone
  <2>2. \A q \in Rank : pc[q] # "ready" => key[q] # k
    BY <2>1, Positions
  <2>3. ASSUME NEW q \in Rank, EnterReduce(q), k = NextKey(q)
        PROVE  FALSE
    <3>1. PICK x \in Offers(q, k.stage) : offered' = [offered EXCEPT ![q][call[q]] = x]
      BY <2>3 DEF EnterReduce
    <3>2. x # NoReceipt
      BY DEF Offers, Receipt, NoReceipt
    <3>3. call[q] \in Call /\ occurrence[q] = call[q] /\ UNCHANGED program
      BY <2>3, EntersFrame DEF Enters
    <3>4. k.stage = program[q][call[q]] /\ k.occ = call[q]
      BY <2>3, <3>3 DEF NextKey
    <3> QED BY <1>2, <3>1, <3>2, <3>3, <3>4 DEF Joined, TypeOK
  <2> QED BY <2>1, <2>2, <2>3, StaysAbsent DEF Directories
<1>3. ASSUME NEW k \in Key, k.stage \in ReadStages, result'[k] # NoVerdict
      PROVE  chunks'[k]
  <2>1. ~(DeleteDirectory /\ key[0] = k)
    BY <1>3 DEF DeleteDirectory, TypeOK
  <2>2. chunks[k] \/ chunks'[k]
    BY <1>3, <2>1, AnswerFrame DEF Directories, PublishResult, At
  <2> QED BY <2>1, <2>2, AnswerFrame
<1>4. ASSUME NEW k \in Key, k.stage \in ReadStages, At(0, k, {"publishing"})'
      PROVE  chunks'[k]
  <2>1. key'[0] = k /\ pc'[0] = "publishing"
    BY <1>4 DEF At
  <2>2. ~DeleteDirectory
    BY <2>1, Ranks DEF DeleteDirectory, Return, Goto, TypeOK
  <2>3. CASE At(0, k, {"publishing"})
    BY <1>4, <2>2, <2>3, AnswerFrame DEF Directories
  <2>4. CASE ~At(0, k, {"publishing"})
    <3>1. CASE RootMoves
      <4>1. key[0] = k /\ (CollectRecords \/ StoreChunks)
        BY <2>1, <2>4, <3>1, Ranks
        DEF RootMoves, CollectRecords, StoreChunks, PublishResult,
            AwaitReaders, Goto, caller, At, TypeOK
      <4>2. ~CollectRecords
        BY <1>4, <4>1, Ranks DEF CollectRecords, LabelsOK
      <4> QED BY <4>1, <4>2 DEF StoreChunks, TypeOK
    <3>2. ASSUME NEW q \in Rank, Moves(q) PROVE FALSE
      BY <2>1, <2>4, <3>2, Ranks
      DEF Moves, CountRecord, MarkComplete, TakeResult, TakeChunks,
          Collecting, Goto, caller, At, TypeOK
    <3>3. ASSUME NEW q \in Rank, Enters(q) PROVE FALSE
      BY <2>1, <2>4, <3>3, Ranks, EntersFrame DEF At, TypeOK
    <3>4. ASSUME NEW q \in Rank, Leaves(q) PROVE FALSE
      <4>1. CASE Ends(q)
        BY <2>1, <2>4, <3>4, <4>1, Ranks, ReturnsFrame DEF Ends, At, TypeOK
      <4>2. CASE ~Ends(q)
        BY <2>1, <2>4, <3>4, <4>2, Ranks, ReturnsFrame DEF At, TypeOK
      <4> QED BY <4>1, <4>2
    <3> QED BY <2>2, <3>1, <3>2, <3>3, <3>4, NextCases
  <2> QED BY <2>3, <2>4
<1> QED BY <1>1, <1>2, <1>3, <1>4 DEF Directories

\* ResultsStay is preserved: rank zero deletes nothing a peer still needs.
LEMMA ResultsStayStep ==
    ASSUME IInv, Next
    PROVE  ResultsStay'
<1> USE DEF IInv
<1>1. ASSUME NEW k \in Key, NEW r \in Rank, At(r, k, Answered)'
      PROVE  result'[k] # NoVerdict
  <2>0. key'[r] = k /\ pc'[r] \in Answered
    BY <1>1 DEF At
  <2>1. CASE PublishResult
    <3>1. envelope[0] # NoVerdict /\ 0 \in Rank
      <4>1. envelope[0] = Decision(key[0]) /\ 0 \in Rank
        BY <2>1, Ranks, Positions
        DEF PublishResult, EnvelopesOK, At, Holding
      <4>2. Decision(key[0]) \in Verdict
        BY VerdictTypes DEF Decision
      <4> QED BY <4>1, <4>2 DEF NoVerdict, Verdict
    <3>2. CASE key[0] = k
      BY <2>1, <3>1, <3>2 DEF PublishResult, TypeOK
    <3>3. CASE key[0] # k
      <4>1. At(r, k, Answered) /\ result'[k] = result[k]
        BY <2>0, <2>1, <3>1, <3>3
        DEF PublishResult, Goto, caller, At, TypeOK
      <4> QED BY <4>1 DEF ResultsStay
    <3> QED BY <3>2, <3>3
  <2>2. CASE ~PublishResult
    <3>1. result[k] # NoVerdict /\ (r = 0 => pc'[0] # "ready")
      <4>1. At(r, k, Answered) \/ (TakeResult(r) /\ key[r] = k)
        <5>1. CASE RootMoves
          BY <2>0, <2>2, <5>1
          DEF RootMoves, CollectRecords, StoreChunks, AwaitReaders, Goto,
              caller, At, Answered, TypeOK
        <5>2. ASSUME NEW q \in Rank, Moves(q)
              PROVE  At(r, k, Answered) \/ (TakeResult(r) /\ key[r] = k)
          BY <2>0, <5>2
          DEF Moves, CountRecord, MarkComplete, TakeResult, TakeChunks,
              Collecting, Goto, caller, At, Answered, TypeOK
        <5>3. ASSUME NEW q \in Rank, Enters(q) PROVE At(r, k, Answered)
          BY <2>0, <5>3, EntersFrame DEF At, Answered, TypeOK
        <5>4. ASSUME NEW q \in Rank, Leaves(q) PROVE At(r, k, Answered)
          <6>1. CASE Ends(q)
            BY <2>0, <5>4, <6>1, ReturnsFrame DEF Ends, At, Answered, TypeOK
          <6>2. CASE ~Ends(q)
            BY <2>0, <5>4, <6>2, ReturnsFrame DEF At, Answered, TypeOK
          <6> QED BY <6>1, <6>2
        <5>5. CASE DeleteDirectory
          BY <2>0, <5>5, Ranks
          DEF DeleteDirectory, Return, Goto, At, Answered, TypeOK
        <5> QED BY <5>1, <5>2, <5>3, <5>4, <5>5, NextCases
      <4> QED BY <2>0, <4>1 DEF ResultsStay, TakeResult, Answered
    <3>2. ~(DeleteDirectory /\ key[0] = k)
      <4>1. ASSUME DeleteDirectory, key[0] = k PROVE FALSE
        <5>1. r # 0
          BY <3>1, <4>1, Ranks DEF DeleteDirectory, Return, Goto, TypeOK
        <5>2. Past(r, k) /\ Past(r, k)'
          BY <4>1, <5>1, DeleteEnds, Monotone DEF ReadersGone, Peer, DeleteDirectory
        <5>3. pc[r] # "ready" /\ key[r] = k
          BY <2>0, <4>1, <5>1
          DEF DeleteDirectory, Return, Goto, Answered, TypeOK
        <5> QED BY <5>2, <5>3, Positions
      <4> QED BY <4>1
    <3> QED BY <2>2, <3>1, <3>2, AnswerFrame
  <2> QED BY <2>1, <2>2
<1> QED BY <1>1 DEF ResultsStay

-----------------------------------------------------------------------------
(* The invariant *)

\* The inductive invariant holds initially.
LEMMA InitIInv ==
    ASSUME Init
    PROVE  IInv
<1>1. TypeOK
  <2>1. /\ 0 \in 0 .. Calls /\ 0 \in 0 .. N /\ 0 \in 0 .. N-1
    BY NAssumption, CallsAssumption
  <2>2. program \in [Rank -> [Call -> Stage]]
    BY ProgramsAssumption DEF Init
  <2> QED BY <2>1, <2>2 DEF Init, TypeOK, PC
<1>2. CallsOK /\ LabelsOK
  <2>1. \A c \in Call : ~(c < 0)
    BY CallsAssumption DEF Call
  <2> QED BY <2>1 DEF Init, CallsOK, LabelsOK
<1>3. \A k \in Key, r \in Rank : ~Joined(r, k) /\ ~Past(r, k)
  BY DEF Init, Joined, Past, Key
<1>4. \A k \in Key, r \in Rank : \A labels :
        "ready" \notin labels => ~At(r, k, labels)
  BY DEF Init, At
<1>5. RecordsStored /\ RecordsCounted /\ CompleteIsFull
  <2>1. \A k \in Key : Counted(k) = {}
    BY <1>3 DEF Counted
  <2>2. \A k \in Key : arrived[k] = 0 /\ ~complete[k]
    BY DEF Init
  <2> QED BY <1>3, <1>4, <2>1, <2>2, FS_EmptySet
          DEF RecordsStored, RecordsCounted, CompleteIsFull
<1>6. ResultsOK /\ EnvelopesOK /\ HeardOK
  BY <1>3, <1>4 DEF Init, ResultsOK, EnvelopesOK, HeardOK, Holding
<1>7. ReadersCounted /\ ReadersGone
  <2>1. \A k \in Key : Acked(k) = {}
    BY <1>3, <1>4 DEF Acked, Peer
  <2>2. \A k \in Key : readArrived[k] = 0 /\ ~readComplete[k]
    BY DEF Init
  <2> QED BY <1>3, <1>4, <2>1, <2>2, Ranks, FS_EmptySet
          DEF ReadersCounted, ReadersGone
<1>8. Directories
  <2>1. \A k \in Key : Absent(k)
    BY DEF Init, Absent
  <2> QED BY <1>4, <2>1, Ranks DEF Init, Directories
<1>9. ResultsStay
  BY <1>4 DEF ResultsStay, Answered
<1> QED BY <1>1, <1>2, <1>5, <1>6, <1>7, <1>8, <1>9 DEF IInv

\* A stuttering step preserves the inductive invariant.
LEMMA StutterIInv ==
    ASSUME IInv, UNCHANGED vars
    PROVE  IInv'
<1> USE DEF vars, caller, store, posted, answer, readers
<1>1. TypeOK' /\ CallsOK' /\ LabelsOK'
  BY DEF IInv, TypeOK, CallsOK, LabelsOK
<1>2. \A k \in Key : /\ Counted(k)' = Counted(k) /\ Acked(k)' = Acked(k)
                     /\ Open(k)' = Open(k) /\ Decidable(k)' = Decidable(k)
                     /\ Decision(k)' = Decision(k) /\ Absent(k)' = Absent(k)
  BY DEF Counted, Acked, Open, Decidable, Decision, Absent, Joined, Past, At
<1>3. RecordsStored' /\ RecordsCounted' /\ CompleteIsFull'
  BY <1>2 DEF IInv, RecordsStored, RecordsCounted, CompleteIsFull, Joined, At
<1>4. ResultsOK' /\ EnvelopesOK' /\ HeardOK'
  BY <1>2 DEF IInv, ResultsOK, EnvelopesOK, HeardOK, Past, At
<1>5. ReadersCounted' /\ ReadersGone' /\ Directories' /\ ResultsStay'
  BY <1>2 DEF IInv, ReadersCounted, ReadersGone, Directories, ResultsStay,
     Joined, Past, At
<1> QED BY <1>1, <1>3, <1>4, <1>5 DEF IInv

\* The invariant behind every other theorem: at each moment the store and the
\* ranks' histories agree on who has entered, counted in, heard and left each
\* exchange, whatever the programs are.
THEOREM Inductive == Spec => []IInv
<1>1. IInv /\ [Next]_vars => IInv'
  BY StutterIInv, TypeStep, CallsStep, LabelsStep, RecordsStep, ResultsStep,
     EnvelopesStep, HeardStep, ReadersStep, DirectoriesStep,
     ResultsStayStep DEF IInv
<1> QED BY InitIInv, <1>1, PTL DEF Spec

-----------------------------------------------------------------------------
(* What it gives *)

\* Every variable stays in its type: in particular the arrival counters never
\* pass the number of ranks that may arrive.
THEOREM TypeCorrect == Spec => []TypeOK
<1>1. IInv => TypeOK
  BY DEF IInv
<1> QED BY <1>1, Inductive, PTL

\* rank r's c-th call ended: the exchange it was, and that it was decided.
LEMMA HeardCalls ==
    ASSUME IInv, NEW r \in Rank, NEW c \in Call, heard[r][c] # NoVerdict,
           NEW k, k = [stage |-> program[r][c], occ |-> c]
    PROVE  /\ k \in Key /\ Past(r, k)
           /\ Decidable(k) /\ heard[r][c] = Decision(k)
<1>1. program[r][c] \in Stage
  BY DEF IInv, TypeOK
<1>2. k \in Key /\ k.stage = program[r][c] /\ k.occ = c
  BY <1>1 DEF Key
<1>3. Past(r, k)
  BY <1>2 DEF Past
<1> QED BY <1>2, <1>3 DEF IInv, HeardOK

\* Two ranks whose n-th calls ended made the same call and got the same
\* verdict, under any programs: agree_io_error and rank0_read never let one
\* rank believe in success and another in failure.
THEOREM VerdictsAreShared == Spec => []VerdictIsShared
<1>1. ASSUME IInv, NEW r \in Rank, NEW q \in Rank, NEW c \in Call,
             heard[r][c] # NoVerdict, heard[q][c] # NoVerdict
      PROVE  program[r][c] = program[q][c] /\ heard[r][c] = heard[q][c]
  <2> DEFINE k(p) == [stage |-> program[p][c], occ |-> c]
  <2>1. /\ Decidable(k(r)) /\ heard[r][c] = Decision(k(r))
        /\ Decidable(k(q)) /\ heard[q][c] = Decision(k(q))
    BY <1>1, HeardCalls
  <2>2. program[0][c] = program[r][c] /\ program[0][c] = program[q][c]
    BY <2>1 DEF Decidable, Joined
  <2> QED BY <2>1, <2>2
<1>2. IInv => VerdictIsShared
  BY <1>1 DEF VerdictIsShared
<1> QED BY <1>2, Inductive, PTL

\* A value or a failure that rank0_read gives any rank is rank zero's outcome
\* of that very call.
THEOREM ReadsAreRootsOwn == Spec => []ReadIsRootsOwn
<1>1. ASSUME IInv, NEW r \in Rank, NEW c \in Call, heard[r][c] # NoVerdict,
             program[r][c] \in ReadStages
      PROVE  /\ program[0][c] = program[r][c]
             /\ heard[r][c] = ReadEnvelope(offered[0][c])
  <2> DEFINE k == [stage |-> program[r][c], occ |-> c]
  <2>1. Decidable(k) /\ heard[r][c] = Decision(k)
    BY <1>1, HeardCalls
  <2> QED BY <1>1, <2>1 DEF Decidable, Decision, Joined
<1>2. IInv => ReadIsRootsOwn
  BY <1>1 DEF ReadIsRootsOwn
<1> QED BY <1>2, Inductive, PTL

\* A reduction tells the truth about the receipts of all the ranks: success
\* only if every rank succeeded, a failure names the lowest failing rank, and
\* no verdict before every rank has come to the call.
THEOREM VerdictsAreTrue == Spec => []VerdictIsTrue
<1>1. ASSUME IInv, NEW r \in Rank, NEW c \in Call, heard[r][c] # NoVerdict,
             program[r][c] \notin ReadStages
      PROVE  LET v == heard[r][c]
                 receipt(q) == offered[q][c]
             IN /\ \A q \in Rank : /\ program[q][c] = program[r][c]
                                   /\ receipt(q) # NoReceipt
                /\ v.kind = "root" <=> \E q \in Rank : receipt(q) = "misfit"
                /\ v.kind = "ok" => \A q \in Rank : receipt(q) = "ok"
                /\ v.kind = "error" =>
                     /\ receipt(v.rank) = "error"
                     /\ \A q \in Rank : q < v.rank => receipt(q) = "ok"
  <2> DEFINE k == [stage |-> program[r][c], occ |-> c]
             f == [q \in Rank |-> offered[q][c]]
             v == heard[r][c]
  <2>1. Decidable(k) /\ v = Envelope(f)
    BY <1>1, HeardCalls DEF Decision
  <2>2. ASSUME NEW q \in Rank
        PROVE  /\ program[q][c] = program[r][c]
               /\ offered[q][c] # NoReceipt
               /\ offered[q][c] \in Receipt
               /\ f[q] = offered[q][c]
    <3>1. Joined(q, k)
      BY <1>1, <2>1 DEF Decidable, Counted
    <3> QED BY <1>1, <3>1 DEF Joined, IInv, TypeOK
  <2> HIDE DEF f
  <2>3. CASE \E q \in Rank : f[q] = "misfit"
    <3>1. v = RootFailed
      BY <2>1, <2>3 DEF Envelope
    <3> QED BY <2>2, <2>3, <3>1 DEF RootFailed
  <2>4. CASE ~ \E q \in Rank : f[q] = "misfit"
    <3>1. v = FirstIoError(f)
      BY <2>1, <2>2, <2>4 DEF Envelope
    <3>2. CASE Failing(f) = {}
      <4>1. v.kind = "ok"
        BY <3>1, <3>2 DEF FirstIoError
      <4>2. \A q \in Rank : f[q] = "ok"
        BY <2>2, <2>4, <3>2 DEF Failing, Receipt
      <4> QED BY <2>2, <4>1, <4>2
    <3>3. CASE Failing(f) # {}
      <4>1. Failing(f) \in SUBSET Nat
        BY NAssumption DEF Failing, Rank
      <4>2. PICK m \in Failing(f) : \A q \in Failing(f) : m <= q
        BY <3>3, <4>1, LeastOf
      <4>3. /\ v.kind = "error" /\ v.rank \in Failing(f)
            /\ \A q \in Failing(f) : v.rank <= q
        BY <3>1, <3>3, <4>2 DEF FirstIoError
      <4>4. ASSUME NEW q \in Rank, q < v.rank PROVE offered[q][c] = "ok"
        <5>1. q \notin Failing(f)
          BY <4>1, <4>3, <4>4
        <5> QED BY <2>2, <2>4, <5>1 DEF Failing, Receipt
      <4>5. v.rank \in Rank /\ offered[v.rank][c] = "error"
        BY <2>2, <4>3 DEF Failing
      <4> QED BY <2>2, <2>4, <4>3, <4>4, <4>5
    <3> QED BY <3>2, <3>3
  <2> QED BY <2>3, <2>4
<1>2. IInv => VerdictIsTrue
  BY <1>1 DEF VerdictIsTrue
<1> QED BY <1>2, Inductive, PTL

\* The mark rank zero waits for means what it says: the one directory get of
\* collect_rank_records finds every rank's record.
THEOREM CompleteMeansFull == Spec => []CompleteMeansAllRecords
<1>1. ASSUME IInv, NEW k \in Key, complete[k], NEW r \in Rank
      PROVE  record[k][r] # NoReceipt
  <2>1. ~Past(0, k)
    BY <1>1 DEF IInv, Directories, Absent
  <2>2. CASE k.stage \in ReadStages
    BY <1>1, <2>2 DEF IInv, CompleteIsFull
  <2>3. CASE k.stage \notin ReadStages
    <3>1. Open(k) /\ r \in Counted(k)
      BY <1>1, <2>1, <2>3 DEF IInv, CompleteIsFull, Open
    <3> QED BY <1>1, <3>1 DEF IInv, RecordsStored, Counted, Joined
  <2> QED BY <2>2, <2>3
<1>2. IInv => CompleteMeansAllRecords
  BY <1>1 DEF CompleteMeansAllRecords
<1> QED BY <1>2, Inductive, PTL

\* A peer that has the head of a read never waits for a body that is not
\* there.
THEOREM ReadersFindBodies == Spec => []ReaderFindsBody
<1>1. ASSUME IInv, NEW r \in Rank, pc[r] = "body"
      PROVE  chunks[key[r]]
  <2>1. key[r] \in Key /\ key[r].stage \in ReadStages
    BY <1>1, Positions DEF IInv, LabelsOK
  <2> QED BY <1>1, <2>1 DEF IInv, Directories, ResultsStay, Answered, At
<1>2. IInv => ReaderFindsBody
  BY <1>1 DEF ReaderFindsBody
<1> QED BY <1>2, Inductive, PTL

\* When every call of a common program has ended the store is empty again.
THEOREM NothingIsRetained == Spec => []NothingRetained
<1>1. ASSUME IInv, Aligned, \A r \in Rank : call[r] = Calls, NEW k \in Key
      PROVE  Absent(k)
  <2>0. k.occ \in Call /\ k.occ < Calls
    BY CallsAssumption DEF Key, Call
  <2>1. \A r \in Rank : heard[r][k.occ] # NoVerdict
    BY <1>1, <2>0 DEF IInv, CallsOK
  <2>2. CASE program[0][k.occ] = k.stage
    <3>1. Past(0, k)
      BY <2>1, <2>2, Ranks DEF Past
    <3> QED BY <1>1, <3>1 DEF IInv, Directories
  <2>3. CASE program[0][k.occ] # k.stage
    <3>1. \A r \in Rank : ~Joined(r, k)
      BY <1>1, <2>3 DEF Joined, Aligned
    <3> QED BY <1>1, <3>1 DEF IInv, Directories
  <2> QED BY <2>2, <2>3
<1>2. IInv => NothingRetained
  BY <1>1 DEF NothingRetained
<1> QED BY <1>2, Inductive, PTL

\* Nobody is further than one exchange past the one rank zero is in: a verdict
\* takes rank zero's part.
LEMMA OneAhead ==
    ASSUME IInv, NEW r \in Rank
    PROVE  occurrence[r] <= call[0] + 2
<1>0. TypeOK /\ CallsOK /\ HeardOK /\ 0 \in Rank
  BY Ranks DEF IInv
<1>1. /\ call[r] \in 0 .. Calls /\ occurrence[r] \in 0 .. Calls
      /\ call[0] \in 0 .. Calls /\ occurrence[0] \in 0 .. Calls
  BY <1>0 DEF TypeOK
<1>2. /\ occurrence[r] = call[r] \/ occurrence[r] = call[r] + 1
      /\ occurrence[0] = call[0] \/ occurrence[0] = call[0] + 1
  BY <1>0 DEF CallsOK
<1>3. call[r] <= occurrence[0]
  <2> SUFFICES ASSUME occurrence[0] < call[r] PROVE FALSE
    BY <1>1, CallsAssumption
  <2> DEFINE c == occurrence[0]
             k == [stage |-> program[r][c], occ |-> c]
  <2>1. c \in Call /\ c < call[r]
    BY <1>1, CallsAssumption DEF Call
  <2>2. program[r][c] \in Stage
    BY <1>0, <2>1 DEF TypeOK
  <2>3. k \in Key
    BY <2>1, <2>2 DEF Key
  <2>4. Past(r, k)
    BY <1>0, <2>1 DEF CallsOK, Past
  <2>5. Joined(0, k)
    BY <1>0, <2>3, <2>4 DEF HeardOK, Decidable
  <2>6. offered[0][c] # NoReceipt
    BY <2>5 DEF Joined
  <2> HIDE DEF c
  <2>7. c < occurrence[0]
    BY <1>0, <2>1, <2>6 DEF CallsOK
  <2> QED BY <1>1, <2>7 DEF c
<1> QED BY <1>1, <1>2, <1>3, CallsAssumption

\* With every rank on the same program, the store holds at most the directory of
\* the exchange rank zero is in and that of the next one.
THEOREM StoreIsBounded == Spec => []AtMostTwoDirectories
<1>1. ASSUME IInv, Aligned
      PROVE  Cardinality({k \in Key : ~Absent(k)}) <= 2
  <2> DEFINE K(c) == [stage |-> program[0][c], occ |-> c]
             two == {K(call[0]), K(call[0] + 1)}
             present == {k \in Key : ~Absent(k)}
  <2>1. ASSUME NEW k \in Key, ~Absent(k)
        PROVE  k \in two
    <3>1. ~Past(0, k) /\ \E r \in Rank : Joined(r, k)
      BY <1>1, <2>1 DEF IInv, Directories
    <3>2. PICK r \in Rank : Joined(r, k)
      BY <3>1
    <3>3. program[0][k.occ] = k.stage /\ offered[r][k.occ] # NoReceipt
      BY <1>1, <3>2 DEF Joined, Aligned
    <3>4. k.occ \in Call /\ k = [stage |-> k.stage, occ |-> k.occ]
      BY DEF Key
    <3>5. k.occ < occurrence[r] /\ ~(k.occ < call[0])
      BY <1>1, <3>1, <3>3, <3>4, Ranks DEF IInv, CallsOK, Past
    <3>6. call[0] \in Nat /\ occurrence[r] \in Nat /\ k.occ \in Nat
      BY <1>1, <3>4, Ranks, CallsAssumption DEF IInv, TypeOK, Call
    <3>7. k.occ = call[0] \/ k.occ = call[0] + 1
      BY <1>1, <3>5, <3>6, OneAhead
    <3> QED BY <3>3, <3>4, <3>7
  <2>2. present \subseteq two
    BY <2>1
  <2>3. IsFiniteSet(two) /\ Cardinality(two) <= 2
    <3> HIDE DEF K
    <3>1. \A a, b : IsFiniteSet({a, b}) /\ Cardinality({a, b}) <= 2
      <4> TAKE a, b
      <4>1. IsFiniteSet({}) /\ Cardinality({}) = 0
        BY FS_EmptySet
      <4>2. IsFiniteSet({b}) /\ Cardinality({b}) = 1
        BY FS_Singleton
      <4>3. /\ IsFiniteSet({b} \cup {a})
            /\ Cardinality({b} \cup {a}) =
                 IF a \in {b} THEN Cardinality({b}) ELSE Cardinality({b}) + 1
        BY <4>2, FS_AddElement
      <4>4. {b} \cup {a} = {a, b}
        OBVIOUS
      <4> QED BY <4>2, <4>3, <4>4
    <3> QED BY <3>1
  <2> HIDE DEF two, present
  <2>4. Cardinality(present) <= Cardinality(two)
    BY <2>2, <2>3, FS_Subset
  <2>5. Cardinality(present) \in Nat /\ Cardinality(two) \in Nat
    BY <2>2, <2>3, FS_Subset, FS_CardinalityType
  <2> QED BY <2>3, <2>4, <2>5 DEF present
<1>2. IInv => AtMostTwoDirectories
  BY <1>1 DEF AtMostTwoDirectories
<1> QED BY <1>2, Inductive, PTL

\* Rank zero takes a directory away only when every rank has returned from
\* its exchange.
THEOREM DeletesAfterLastRead == Spec => DeleteAfterLastRead
<1>1. ASSUME IInv, Next, NEW k \in Key, ~Absent(k), Absent(k)'
      PROVE  DeleteDirectory /\ key[0] = k
  <2> SUFFICES ASSUME ~(DeleteDirectory /\ key[0] = k)
               PROVE  Absent(k)
    BY <1>1
  <2> USE <1>1
  <2>1. record[k] = record'[k]
    <3>1. ASSUME NEW r \in Rank, record'[k][r] # record[k][r]
          PROVE  FALSE
      <4>1. EnterReduce(r) /\ k = NextKey(r)
        BY <3>1, PostedFrame
      <4>2. PICK x \in Offers(r, k.stage) : record' = [record EXCEPT ![k][r] = x]
        BY <4>1 DEF EnterReduce
      <4>3. record'[k][r] = x
        BY <4>2 DEF IInv, TypeOK
      <4>4. x # NoReceipt
        BY DEF Offers, Receipt, NoReceipt
      <4> QED BY <4>3, <4>4 DEF Absent
    <3>2. /\ record[k] \in [Rank -> Receipt \cup {NoReceipt}]
          /\ record'[k] \in [Rank -> Receipt \cup {NoReceipt}]
      BY TypeStep DEF IInv, TypeOK
    <3> QED BY <3>1, <3>2
  <2>2. arrived[k] = arrived'[k]
    <3>1. ASSUME NEW q \in Rank, CountRecord(q), key[q] = k
          PROVE  FALSE
      <4>1. arrived'[k] = arrived[k] + 1 /\ arrived'[k] = 0
        BY <3>1 DEF CountRecord, Absent, IInv, TypeOK
      <4>2. arrived[k] \in Nat
        BY NAssumption DEF IInv, TypeOK
      <4> QED BY <4>1, <4>2
    <3> QED BY <3>1, PostedFrame
  <2>3. complete[k] = complete'[k]
    BY PostedFrame DEF MarkComplete, Absent, IInv, TypeOK
  <2>4. readArrived[k] = readArrived'[k]
    <3>1. ASSUME NEW q \in Rank, CountRead(q), key[q] = k
          PROVE  FALSE
      <4>1. readArrived'[k] = readArrived[k] + 1 /\ readArrived'[k] = 0
        BY <3>1 DEF CountRead, Absent, IInv, TypeOK
      <4>2. readArrived[k] \in Nat
        BY NAssumption DEF IInv, TypeOK
      <4> QED BY <4>1, <4>2
    <3> QED BY <3>1, ReadersFrame
  <2>5. readComplete[k] = readComplete'[k]
    BY ReadersFrame DEF MarkReadComplete, Absent, IInv, TypeOK
  <2>6. chunks[k] = chunks'[k]
    BY AnswerFrame DEF Absent
  <2>7. result[k] = result'[k]
    <3>1. ASSUME PublishResult, key[0] = k, result'[k] = envelope[0]
          PROVE  FALSE
      <4>1. envelope[0] = Decision(k)
        BY <3>1, Ranks DEF IInv, PublishResult, EnvelopesOK, At, Holding
      <4>2. Decision(k) \in Verdict
        BY VerdictTypes DEF Decision
      <4> QED BY <3>1, <4>1, <4>2 DEF Absent, NoVerdict, Verdict
    <3> QED BY <3>1, AnswerFrame
  <2> QED BY <2>1, <2>2, <2>3, <2>4, <2>5, <2>6, <2>7 DEF Absent
<1>2. ASSUME IInv, Next, NEW k \in Key, ~Absent(k), Absent(k)', NEW r \in Rank
      PROVE  Past(r, k)'
  <2>1. DeleteDirectory /\ key[0] = k
    BY <1>1, <1>2
  <2>2. Past(0, k)' /\ At(0, k, {"deleting"})
    BY <1>2, <2>1, DeleteEnds
  <2>3. r # 0 => Past(r, k)
    BY <1>2, <2>2 DEF IInv, ReadersGone, Peer
  <2> QED BY <1>2, <2>2, <2>3, Monotone
<1>3. IInv /\ [Next]_vars =>
        [\A k \in Key : ~Absent(k) /\ Absent(k)'
                            => \A r \in Rank : Past(r, k)']_vars
  BY <1>2
<1> QED BY <1>3, Inductive, PTL DEF Spec, DeleteAfterLastRead

-----------------------------------------------------------------------------
(* The refinement *)

DecidedNow == [k \in Key |-> DecidedOf(k)]

\* A step that touches no history and no result of an open exchange.
LEMMA SilentStep ==
    ASSUME IInv, Next, UNCHANGED <<program, offered, heard, result>>
    PROVE  UNCHANGED Abstract!vars
BY DEF Abstract!vars, DecidedOf, Past

\* Entering an exchange maps to the abstract Offer.
LEMMA OfferStep ==
    ASSUME IInv, Next, NEW r \in Rank, Enters(r)
    PROVE  Abstract!Next
<1> USE DEF IInv
<1>1. /\ call[r] \in Call /\ occurrence[r] = call[r]
      /\ offered[r][call[r]] = NoReceipt
      /\ UNCHANGED <<program, heard, answer>>
  BY EntersFrame
<1>2. UNCHANGED DecidedNow
  BY <1>1 DEF DecidedNow, DecidedOf, Past, answer
<1>3. \E x \in Offers(r, program[r][call[r]]) :
         offered' = [offered EXCEPT ![r][call[r]] = x]
  BY <1>1 DEF Enters, EnterReduce, EnterRead, NextKey
<1>4. \A d \in Call : d < call[r] => heard[r][d] # NoVerdict
  BY DEF CallsOK
<1>5. Abstract!Offer(r, call[r])
  BY <1>1, <1>2, <1>3, <1>4
  DEF Abstract!Offer, Abstract!Offers, Abstract!Call, Abstract!NoReceipt,
      Abstract!NoVerdict, Abstract!Receipt, DecidedNow, Call, NoReceipt,
      NoVerdict, Offers, Receipt
<1> QED BY <1>1, <1>5 DEF Abstract!Next, Abstract!Rank, Abstract!Call, Rank, Call

\* A published result is the decision of its exchange.
LEMMA PublishStep ==
    ASSUME IInv, Next, PublishResult
    PROVE  [Abstract!Next]_Abstract!vars
<1> DEFINE k == key[0]
<1>1. /\ k \in Key /\ 0 \in Rank /\ ~Past(0, k) /\ Decidable(k)
      /\ envelope[0] = Decision(k) /\ result' = [result EXCEPT ![k] = Decision(k)]
  BY Ranks, Positions DEF IInv, PublishResult, EnvelopesOK, At, Holding
<1>2. UNCHANGED <<program, offered, heard>>
  BY DEF PublishResult, caller
<1>3. CASE result[k] # NoVerdict
  <2>1. result[k] = Decision(k)
    BY <1>1, <1>3 DEF IInv, ResultsOK
  <2>2. result' = result
    BY <1>1, <2>1 DEF IInv, TypeOK
  <2> QED BY <1>2, <2>2, SilentStep
<1>4. CASE result[k] = NoVerdict
  <2> HIDE DEF k
  <2>1. DecidedNow[k] = NoVerdict /\ DecidedNow \in [Key -> {DecidedOf(j) : j \in Key}]
    BY <1>1, <1>4 DEF DecidedNow, DecidedOf
  <2>2. Decision(k) # NoVerdict
    BY VerdictTypes DEF Decision, NoVerdict, Verdict
  <2>3. \A j \in Key : DecidedOf(j)' = IF j = k THEN Decision(k) ELSE DecidedOf(j)
    BY <1>1, <1>2, <2>2 DEF DecidedOf, Past, IInv, TypeOK
  <2>4. DecidedNow' = [DecidedNow EXCEPT ![k] = Decision(k)]
    BY <1>1, <2>3 DEF DecidedNow
  <2>5. Abstract!Decide(k)
    <3>1. CASE k.stage \in ReadStages
      BY <1>1, <1>2, <2>1, <2>4, <3>1
      DEF Abstract!Decide, Abstract!In, Abstract!ReadEnvelope,
          Abstract!NoVerdict, Abstract!NoReceipt, DecidedNow, Decidable,
          Decision, Joined, ReadEnvelope, NoVerdict, NoReceipt, Abstract!Key
    <3>2. CASE k.stage \notin ReadStages
      <4>1. \A r \in Rank : Joined(r, k)
        BY <1>1, <3>2 DEF Decidable, Counted
      <4>2. Decision(k) = Envelope([r \in Rank |-> offered[r][k.occ]])
        BY <3>2 DEF Decision
      <4>3. \A f : Abstract!Envelope(f) = Envelope(f)
        BY DEF Abstract!Envelope, Envelope, Abstract!FirstIoError,
           FirstIoError, Abstract!Failing, Failing, Abstract!RootFailed,
           RootFailed, Abstract!Rank, Rank, Abstract!NoReceipt, NoReceipt
      <4> QED BY <1>1, <1>2, <2>1, <2>4, <3>2, <4>1, <4>2, <4>3
              DEF Abstract!Decide, Abstract!In, Abstract!NoVerdict,
                  Abstract!NoReceipt, Abstract!Rank, Rank, DecidedNow, Joined,
                  NoVerdict, NoReceipt, Abstract!Key
    <3> QED BY <3>1, <3>2
  <2> QED BY <1>1, <2>5 DEF Abstract!Next, Abstract!Key, Abstract!Call, Key, Call
<1> QED BY <1>3, <1>4

\* Whoever returns from an exchange has heard its decision.
LEMMA HearStep ==
    ASSUME IInv, Next, NEW r \in Rank, Ends(r), pc[r] \in Answered,
           UNCHANGED <<program, offered>>,
           UNCHANGED result
             \/ (r = 0 /\ result' = [result EXCEPT ![key[0]] = NoVerdict]),
           NEW k \in Key, key[r] = k
    PROVE  Abstract!Next
<1>1. Joined(r, k) /\ ~Past(r, k) /\ pc[r] # "ready" /\ 0 \in Rank
  BY Ranks, Positions DEF IInv, Answered
<1>2. /\ result[k] # NoVerdict /\ result[k] = Decision(k)
      /\ envelope[r] = Decision(k)
  BY <1>1 DEF IInv, ResultsStay, ResultsOK, EnvelopesOK, At, Answered, Holding
<1>3. call[r] \in Call /\ k = [stage |-> program[r][call[r]], occ |-> call[r]]
  BY <1>1 DEF IInv, CallsOK
<1>4. k.occ = call[r]
  BY <1>3
<1>5. heard' = [heard EXCEPT ![r][k.occ] = Decision(k)]
  BY <1>2, <1>4 DEF Ends
<1>6. ASSUME NEW j \in Key
      PROVE  DecidedOf(j)' = DecidedOf(j)
  <2>1. Past(0, j) => Past(0, j)' /\ heard'[0][j.occ] = heard[0][j.occ]
    BY <1>1, Monotone
  <2>2. Past(0, j)' /\ ~Past(0, j) => key[0] = j /\ Ends(0)
    BY <1>1, NewPast
  <2>3. CASE result' = result
    <3>1. CASE result[j] # NoVerdict
      BY <2>3, <3>1 DEF DecidedOf
    <3>2. CASE result[j] = NoVerdict
      <4>1. ~(Past(0, j)' /\ ~Past(0, j))
        <5>1. ASSUME Past(0, j)', ~Past(0, j) PROVE FALSE
          <6>1. pc[0] \in {"acking", "ackmarking", "deleting"} /\ key[0] = j
            BY <1>1, <5>1, NewPast
          <6> QED BY <1>1, <3>2, <6>1 DEF IInv, ResultsStay, At, Answered
        <5> QED BY <5>1
      <4> QED BY <2>1, <2>3, <3>2, <4>1 DEF DecidedOf
    <3> QED BY <3>1, <3>2
  <2>4. CASE r = 0 /\ result' = [result EXCEPT ![k] = NoVerdict]
    <3>1. CASE j = k
      <4>1. result'[k] = NoVerdict /\ heard'[0][k.occ] = Decision(k)
        BY <1>1, <1>3, <1>4, <1>5, <2>4 DEF IInv, TypeOK
      <4>2. Past(0, k)'
        BY <1>1, <1>2, <2>4, <4>1 DEF Past, Joined
      <4> QED BY <1>2, <3>1, <4>1, <4>2 DEF DecidedOf
    <3>2. CASE j # k
      <4>1. result'[j] = result[j]
        BY <2>4, <3>2 DEF IInv, TypeOK
      <4>2. Past(0, j)' <=> Past(0, j)
        BY <2>1, <2>2, <2>4, <3>2
      <4> QED BY <2>1, <4>1, <4>2 DEF DecidedOf
    <3> QED BY <3>1, <3>2
  <2> QED BY <2>3, <2>4
<1>7. UNCHANGED DecidedNow
  BY <1>6 DEF DecidedNow
<1>8. DecidedNow[k] = Decision(k) /\ Decision(k) # NoVerdict
  BY <1>1, <1>2 DEF DecidedNow, DecidedOf
<1>9. heard[r][k.occ] = NoVerdict
  BY <1>1 DEF Past, Joined
<1>10. Abstract!Hear(r, k)
  BY <1>1, <1>5, <1>7, <1>8, <1>9
  DEF Abstract!Hear, Abstract!In, Abstract!NoVerdict, Abstract!NoReceipt,
      DecidedNow, Joined, NoVerdict, NoReceipt, Abstract!Key
<1> QED BY <1>1, <1>10
        DEF Abstract!Next, Abstract!Key, Abstract!Rank, Abstract!Call, Key,
            Rank, Call

\* The exchanges over the store implement one decision per exchange that the
\* ranks hear: no interleaving of the RPCs shows through.
THEOREM Refines == Spec => ImplementsAgreement
<1>1. ASSUME Init PROVE Abstract!Init
  <2>1. \A k \in Key : DecidedOf(k) = NoVerdict
    BY <1>1, Ranks DEF Init, DecidedOf, Past, Key
  <2> QED BY <1>1, <2>1
          DEF Init, Abstract!Init, Abstract!NoReceipt, Abstract!NoVerdict,
              Abstract!Rank, Abstract!Call, Abstract!Key, NoReceipt,
              NoVerdict, Rank, Call, Key
<1>2. ASSUME IInv, Next PROVE [Abstract!Next]_Abstract!vars
  <2>1. CASE PublishResult
    BY <1>2, <2>1, PublishStep
  <2>2. CASE RootMoves /\ ~PublishResult
    <3>1. UNCHANGED <<program, offered, heard, result>>
      BY <2>2
      DEF RootMoves, CollectRecords, StoreChunks, AwaitReaders, caller,
          store, answer
    <3> QED BY <1>2, <3>1, SilentStep
  <2>3. ASSUME NEW r \in Rank, Moves(r)
        PROVE  [Abstract!Next]_Abstract!vars
    <3>1. UNCHANGED <<program, offered, heard, result>>
      BY <2>3
      DEF Moves, CountRecord, MarkComplete, TakeResult, TakeChunks, caller,
          store, answer
    <3> QED BY <1>2, <3>1, SilentStep
  <2>4. ASSUME NEW r \in Rank, Enters(r)
        PROVE  [Abstract!Next]_Abstract!vars
    BY <1>2, <2>4, OfferStep
  <2>5. ASSUME NEW r \in Rank, Leaves(r)
        PROVE  [Abstract!Next]_Abstract!vars
    <3>1. UNCHANGED <<program, offered, result>>
      BY <1>2, <2>5, ReturnsFrame DEF IInv, answer
    <3>2. CASE Ends(r)
      <4>1. pc[r] \in Answered
        BY <1>2, <2>5, ReturnsFrame DEF IInv, Answered
      <4>2. key[r] \in Key
        BY <1>2, <4>1, Positions DEF IInv, Answered
      <4> QED BY <1>2, <3>1, <3>2, <4>1, <4>2, HearStep
    <3>3. CASE ~Ends(r)
      <4>1. heard' = heard
        BY <1>2, <2>5, <3>3, ReturnsFrame DEF IInv
      <4> QED BY <1>2, <3>1, <4>1, SilentStep
    <3> QED BY <3>2, <3>3
  <2>6. CASE DeleteDirectory
    <3>1. /\ 0 \in Rank /\ Ends(0) /\ pc[0] \in Answered
          /\ UNCHANGED <<program, offered>>
          /\ result' = [result EXCEPT ![key[0]] = NoVerdict]
      BY <2>6, Ranks DEF DeleteDirectory, Return, Ends, Goto, Answered
    <3>2. key[0] \in Key
      BY <1>2, <3>1, Positions DEF IInv, Answered
    <3> QED BY <1>2, <3>1, <3>2, HearStep
  <2> QED BY <1>2, <2>1, <2>2, <2>3, <2>4, <2>5, <2>6, NextCases
<1>3. ASSUME UNCHANGED vars PROVE UNCHANGED Abstract!vars
  BY <1>3
  DEF vars, caller, store, answer, Abstract!vars, DecidedOf, Past
<1>4. IInv /\ [Next]_vars => [Abstract!Next]_Abstract!vars
  BY <1>2, <1>3
<1> QED BY <1>1, <1>4, Inductive, PTL
        DEF Spec, ImplementsAgreement, Abstract!Spec


-----------------------------------------------------------------------------
(* The end of a job: the inductive invariant *)

\* Rank r is past main, or has ended well.
Left(r) == place[r] \in {"returned"} \cup Exit!Finalizing \/ status[r] = "zero"

\* Where a rank is agrees with its status and with how far it came.
PlacesOK ==
    \A r \in Rank :
        /\ place[r] = "gone" <=> status[r] # "none"
        /\ place[r] \in {"main", "collective"} => entered[r] <= Work
        /\ place[r] = "reported" => entered[r] = Work + 1

\* A rank that failed in main either never came to the barrier of complete or
\* was there when it gave up.
RaisedEarly ==
    \A r \in Rank : place[r] = "raised" => entered[r] <= Work \/ "report_written" \in broken

\* The barrier of complete lets one rank go only when all have come; it does not
\* give up afterwards.
BarrierHolds ==
    \A r \in Rank : Left(r) => "report_written" \notin broken /\ \A q \in Rank : entered[q] = Work + 1

\* The report of rank zero follows where rank zero is.
ReportOK ==
    /\ entered[0] = Work + 1 => report # "open"
    /\ report = "error" => /\ place[0] \in {"raised", "gone"}
                           /\ entered[0] <= Work \/ "report_written" \in broken

\* Whoever is past the barrier of finalize_process found all there, or the barrier
\* has given up.
FinalizedTogether ==
    \A r \in Rank : place[r] \in {"shutdown", "duties"} \/ status[r] = "zero" =>
        \/ \A q \in Rank : place[q] \in {"barrier", "shutdown", "duties", "gone"}
        \/ "finalize" \in broken

ExitIInv == Exit!TypeOK /\ PlacesOK /\ RaisedEarly /\ BarrierHolds /\ ReportOK /\ FinalizedTogether

-----------------------------------------------------------------------------
(* Every step of the end of a job preserves it *)

\* Rank zero, whose process is the coordination service.
LEMMA RootIsRank == 0 \in Rank
  BY NAssumption DEF Rank

\* The initial state.
LEMMA ExitInit == Exit!Init => ExitIInv
<1> SUFFICES ASSUME Exit!Init PROVE ExitIInv
  OBVIOUS
<1> USE DEF Exit!Init
<1>1. Exit!TypeOK
  <2>1. 0 \in 0 .. Work + 1 /\ 0 \in 0 .. MaxFaults
    BY ExitAssumption
  <2>2. place \in [Rank -> Exit!InMain \cup {"raised", "returned", "gone"} \cup Exit!Finalizing]
    BY DEF Exit!InMain
  <2> QED BY <2>1, <2>2 DEF Exit!TypeOK
<1>2. PlacesOK /\ RaisedEarly
  BY ExitAssumption DEF PlacesOK, RaisedEarly
<1>3. BarrierHolds /\ FinalizedTogether
  BY DEF BarrierHolds, FinalizedTogether, Left, Exit!Finalizing
<1>4. ReportOK
  BY ExitAssumption, RootIsRank DEF ReportOK
<1> QED BY <1>1, <1>2, <1>3, <1>4 DEF ExitIInv

\* Every step.  The one that needs the barrier is Return: the rank that leaves
\* finds all entered and the barrier unbroken, and no later step breaks it.
LEMMA ExitNext == ExitIInv /\ [Exit!Next]_Exit!vars => ExitIInv'
<1> SUFFICES ASSUME ExitIInv, [Exit!Next]_Exit!vars PROVE ExitIInv'
  OBVIOUS
<1> USE RootIsRank, ExitAssumption
    DEF ExitIInv, Exit!Finalizing, Exit!InMain, Exit!Move
<1>1. ASSUME NEW r \in Rank, Exit!Enter(r) PROVE ExitIInv'
  <2>1. Exit!TypeOK'
    BY <1>1 DEF Exit!Enter, Exit!TypeOK
  <2>2. PlacesOK'
    BY <1>1 DEF Exit!Enter, Exit!TypeOK, PlacesOK
  <2>3. RaisedEarly'
    BY <1>1 DEF Exit!Enter, RaisedEarly
  <2>4. BarrierHolds'
    BY <1>1 DEF Exit!Enter, BarrierHolds, Left
  <2>5. ReportOK'
    BY <1>1 DEF Exit!Enter, Exit!TypeOK, ReportOK
  <2>6. FinalizedTogether'
    BY <1>1 DEF Exit!Enter, FinalizedTogether
  <2> QED BY <2>1, <2>2, <2>3, <2>4, <2>5, <2>6
<1>2. ASSUME NEW r \in Rank, Exit!Leave(r) PROVE ExitIInv'
  <2>1. Exit!TypeOK'
    BY <1>2 DEF Exit!Leave, Exit!TypeOK
  <2>2. PlacesOK'
    BY <1>2 DEF Exit!Leave, PlacesOK
  <2>3. RaisedEarly'
    BY <1>2 DEF Exit!Leave, RaisedEarly
  <2>4. BarrierHolds'
    BY <1>2 DEF Exit!Leave, BarrierHolds, Left
  <2>5. ReportOK'
    BY <1>2 DEF Exit!Leave, ReportOK
  <2>6. FinalizedTogether'
    BY <1>2 DEF Exit!Leave, FinalizedTogether
  <2> QED BY <2>1, <2>2, <2>3, <2>4, <2>5, <2>6
<1>3. ASSUME NEW r \in Rank, Exit!Complete(r) PROVE ExitIInv'
  <2>1. Exit!TypeOK'
    BY <1>3 DEF Exit!Complete, Exit!TypeOK, Exit!Closing
  <2>2. PlacesOK'
    BY <1>3 DEF Exit!Complete, Exit!TypeOK, PlacesOK
  <2>3. RaisedEarly'
    BY <1>3 DEF Exit!Complete, RaisedEarly
  <2>4. BarrierHolds'
    BY <1>3 DEF Exit!Complete, BarrierHolds, Left
  <2>5. ReportOK'
    BY <1>3 DEF Exit!Complete, ReportOK, Exit!Closing
  <2>6. FinalizedTogether'
    BY <1>3 DEF Exit!Complete, FinalizedTogether
  <2> QED BY <2>1, <2>2, <2>3, <2>4, <2>5, <2>6
<1>4. ASSUME NEW r \in Rank, Exit!Return(r) PROVE ExitIInv'
  <2>1. Exit!TypeOK'
    BY <1>4 DEF Exit!Return, Exit!TypeOK
  <2>2. PlacesOK'
    BY <1>4 DEF Exit!Return, PlacesOK
  <2>3. RaisedEarly'
    BY <1>4 DEF Exit!Return, RaisedEarly
  <2>4. BarrierHolds'
    BY <1>4 DEF Exit!Return, Exit!TypeOK, PlacesOK, BarrierHolds, Exit!AllEntered
  <2>5. ReportOK'
    BY <1>4 DEF Exit!Return, ReportOK
  <2>6. FinalizedTogether'
    BY <1>4 DEF Exit!Return, FinalizedTogether
  <2> QED BY <2>1, <2>2, <2>3, <2>4, <2>5, <2>6
<1>5. ASSUME NEW r \in Rank, Exit!FailFast(r) PROVE ExitIInv'
  <2>1. Exit!TypeOK'
    BY <1>5 DEF Exit!FailFast, Exit!TypeOK, Exit!End
  <2>2. PlacesOK'
    BY <1>5 DEF Exit!FailFast, Exit!TypeOK, PlacesOK, Exit!End
  <2>3. RaisedEarly'
    BY <1>5 DEF Exit!FailFast, RaisedEarly, Exit!End
  <2>4. BarrierHolds'
    BY <1>5 DEF Exit!FailFast, BarrierHolds, Left, Exit!End
  <2>5. ReportOK'
    BY <1>5 DEF Exit!FailFast, ReportOK, Exit!End
  <2>6. FinalizedTogether'
    BY <1>5 DEF Exit!FailFast, FinalizedTogether, Exit!End
  <2> QED BY <2>1, <2>2, <2>3, <2>4, <2>5, <2>6
<1>6. ASSUME NEW r \in Rank, Exit!BeginFinalize(r) PROVE ExitIInv'
  <2>1. Exit!TypeOK'
    BY <1>6 DEF Exit!BeginFinalize, Exit!TypeOK
  <2>2. PlacesOK'
    BY <1>6 DEF Exit!BeginFinalize, PlacesOK
  <2>3. RaisedEarly'
    BY <1>6 DEF Exit!BeginFinalize, RaisedEarly
  <2>4. BarrierHolds'
    BY <1>6 DEF Exit!BeginFinalize, BarrierHolds, Left
  <2>5. ReportOK'
    BY <1>6 DEF Exit!BeginFinalize, ReportOK
  <2>6. FinalizedTogether'
    BY <1>6 DEF Exit!BeginFinalize, FinalizedTogether
  <2> QED BY <2>1, <2>2, <2>3, <2>4, <2>5, <2>6
<1>7. ASSUME NEW r \in Rank, Exit!Drain(r) PROVE ExitIInv'
  <2>1. Exit!TypeOK'
    BY <1>7 DEF Exit!Drain, Exit!TypeOK
  <2>2. PlacesOK'
    BY <1>7 DEF Exit!Drain, PlacesOK
  <2>3. RaisedEarly'
    BY <1>7 DEF Exit!Drain, RaisedEarly
  <2>4. BarrierHolds'
    BY <1>7 DEF Exit!Drain, BarrierHolds, Left
  <2>5. ReportOK'
    BY <1>7 DEF Exit!Drain, ReportOK
  <2>6. FinalizedTogether'
    BY <1>7 DEF Exit!Drain, FinalizedTogether
  <2> QED BY <2>1, <2>2, <2>3, <2>4, <2>5, <2>6
<1>8. ASSUME NEW r \in Rank, Exit!FinalBarrier(r) PROVE ExitIInv'
  <2>1. Exit!TypeOK'
    BY <1>8 DEF Exit!FinalBarrier, Exit!TypeOK
  <2>2. PlacesOK'
    BY <1>8 DEF Exit!FinalBarrier, PlacesOK
  <2>3. RaisedEarly'
    BY <1>8 DEF Exit!FinalBarrier, RaisedEarly
  <2>4. BarrierHolds'
    BY <1>8 DEF Exit!FinalBarrier, BarrierHolds, Left
  <2>5. ReportOK'
    BY <1>8 DEF Exit!FinalBarrier, ReportOK
  <2>6. FinalizedTogether'
    BY <1>8 DEF Exit!FinalBarrier, Exit!AllAtBarrier, Exit!AtBarrier, PlacesOK, FinalizedTogether
  <2> QED BY <2>1, <2>2, <2>3, <2>4, <2>5, <2>6
<1>9. ASSUME NEW r \in Rank, Exit!Shutdown(r) PROVE ExitIInv'
  <2>1. Exit!TypeOK'
    BY <1>9 DEF Exit!Shutdown, Exit!TypeOK
  <2>2. PlacesOK'
    BY <1>9 DEF Exit!Shutdown, PlacesOK
  <2>3. RaisedEarly'
    BY <1>9 DEF Exit!Shutdown, RaisedEarly
  <2>4. BarrierHolds'
    BY <1>9 DEF Exit!Shutdown, BarrierHolds, Left
  <2>5. ReportOK'
    BY <1>9 DEF Exit!Shutdown, ReportOK
  <2>6. FinalizedTogether'
    BY <1>9 DEF Exit!Shutdown, FinalizedTogether
  <2> QED BY <2>1, <2>2, <2>3, <2>4, <2>5, <2>6
<1>10. ASSUME NEW r \in Rank, Exit!Duties(r) PROVE ExitIInv'
  <2>1. Exit!TypeOK'
    BY <1>10 DEF Exit!Duties, Exit!TypeOK, Exit!End
  <2>2. PlacesOK'
    BY <1>10 DEF Exit!Duties, Exit!TypeOK, PlacesOK, Exit!End
  <2>3. RaisedEarly'
    BY <1>10 DEF Exit!Duties, RaisedEarly, Exit!End
  <2>4. BarrierHolds'
    BY <1>10 DEF Exit!Duties, BarrierHolds, Left, Exit!End
  <2>5. ReportOK'
    BY <1>10 DEF Exit!Duties, ReportOK, Exit!End
  <2>6. FinalizedTogether'
    BY <1>10 DEF Exit!Duties, Exit!TypeOK, PlacesOK, FinalizedTogether, Exit!End
  <2> QED BY <2>1, <2>2, <2>3, <2>4, <2>5, <2>6
<1>11. ASSUME NEW r \in Rank, Exit!Raise(r) PROVE ExitIInv'
  <2>1. Exit!TypeOK'
    BY <1>11 DEF Exit!Raise, Exit!TypeOK, Exit!Closing
  <2>2. PlacesOK'
    BY <1>11 DEF Exit!Raise, PlacesOK
  <2>3. RaisedEarly'
    BY <1>11 DEF Exit!Raise, PlacesOK, RaisedEarly
  <2>4. BarrierHolds'
    BY <1>11 DEF Exit!Raise, BarrierHolds, Left
  <2>5. ReportOK'
    BY <1>11 DEF Exit!Raise, Exit!TypeOK, ReportOK, Exit!Closing
  <2>6. FinalizedTogether'
    BY <1>11 DEF Exit!Raise, FinalizedTogether
  <2> QED BY <2>1, <2>2, <2>3, <2>4, <2>5, <2>6
<1>12. ASSUME NEW r \in Rank, Exit!ReportBarrierFails(r) PROVE ExitIInv'
  <2>1. Exit!TypeOK'
    BY <1>12 DEF Exit!ReportBarrierFails, Exit!GivesUp, Exit!Barriers, Exit!TypeOK, Exit!Closing
  <2>2. PlacesOK'
    BY <1>12 DEF Exit!ReportBarrierFails, Exit!GivesUp, PlacesOK
  <2>3. RaisedEarly'
    BY <1>12 DEF Exit!ReportBarrierFails, Exit!GivesUp, RaisedEarly
  <2>4. BarrierHolds'
    BY <1>12 DEF Exit!ReportBarrierFails, Exit!GivesUp, BarrierHolds, Left, Exit!AllEntered
  <2>5. ReportOK'
    BY <1>12 DEF Exit!ReportBarrierFails, Exit!GivesUp, PlacesOK, ReportOK, Exit!Closing
  <2>6. FinalizedTogether'
    BY <1>12 DEF Exit!ReportBarrierFails, Exit!GivesUp, FinalizedTogether
  <2> QED BY <2>1, <2>2, <2>3, <2>4, <2>5, <2>6
<1>13. ASSUME NEW r \in Rank, Exit!FinalBarrierFails(r) PROVE ExitIInv'
  <2>1. Exit!TypeOK'
    BY <1>13 DEF Exit!FinalBarrierFails, Exit!GivesUp, Exit!TypeOK, Exit!Barriers
  <2>2. PlacesOK'
    BY <1>13 DEF Exit!FinalBarrierFails, Exit!GivesUp, PlacesOK
  <2>3. RaisedEarly'
    BY <1>13 DEF Exit!FinalBarrierFails, Exit!GivesUp, RaisedEarly
  <2>4. BarrierHolds'
    BY <1>13 DEF Exit!FinalBarrierFails, Exit!GivesUp, BarrierHolds, Left
  <2>5. ReportOK'
    BY <1>13 DEF Exit!FinalBarrierFails, Exit!GivesUp, ReportOK
  <2>6. FinalizedTogether'
    BY <1>13 DEF Exit!FinalBarrierFails, Exit!GivesUp, FinalizedTogether
  <2> QED BY <2>1, <2>2, <2>3, <2>4, <2>5, <2>6
<1>14. ASSUME NEW r \in Rank, Exit!Die(r) PROVE ExitIInv'
  <2>1. Exit!TypeOK'
    BY <1>14 DEF Exit!Die, Exit!TypeOK, Exit!End
  <2>2. PlacesOK'
    BY <1>14 DEF Exit!Die, Exit!TypeOK, PlacesOK, Exit!End
  <2>3. RaisedEarly'
    BY <1>14 DEF Exit!Die, RaisedEarly, Exit!End
  <2>4. BarrierHolds'
    BY <1>14 DEF Exit!Die, BarrierHolds, Left, Exit!End
  <2>5. ReportOK'
    BY <1>14 DEF Exit!Die, ReportOK, Exit!End
  <2>6. FinalizedTogether'
    BY <1>14 DEF Exit!Die, Exit!TypeOK, FinalizedTogether, Exit!End
  <2> QED BY <2>1, <2>2, <2>3, <2>4, <2>5, <2>6
<1>15. ASSUME NEW r \in Rank, Exit!Killed(r) PROVE ExitIInv'
  <2>1. Exit!TypeOK'
    BY <1>15 DEF Exit!Killed, Exit!TypeOK, Exit!End
  <2>2. PlacesOK'
    BY <1>15 DEF Exit!Killed, Exit!TypeOK, PlacesOK, Exit!End
  <2>3. RaisedEarly'
    BY <1>15 DEF Exit!Killed, RaisedEarly, Exit!End
  <2>4. BarrierHolds'
    BY <1>15 DEF Exit!Killed, BarrierHolds, Left, Exit!End
  <2>5. ReportOK'
    BY <1>15 DEF Exit!Killed, ReportOK, Exit!End
  <2>6. FinalizedTogether'
    BY <1>15 DEF Exit!Killed, FinalizedTogether, Exit!End
  <2> QED BY <2>1, <2>2, <2>3, <2>4, <2>5, <2>6
<1>16. CASE UNCHANGED Exit!vars
  BY <1>16
     DEF Exit!vars, Exit!TypeOK, PlacesOK, RaisedEarly, BarrierHolds, ReportOK,
         FinalizedTogether, Left
<1> QED BY <1>1, <1>2, <1>3, <1>4, <1>5, <1>6, <1>7, <1>8, <1>9, <1>10, <1>11,
           <1>12, <1>13, <1>14, <1>15, <1>16 DEF Exit!Next, Exit!Step

\* The invariant holds in every reachable state.
THEOREM ExitInductive == Exit!Spec => []ExitIInv
<1>1. Exit!Init => ExitIInv
  BY ExitInit
<1>2. ExitIInv /\ [Exit!Next]_Exit!vars => ExitIInv'
  BY ExitNext
<1> QED BY <1>1, <1>2, PTL DEF Exit!Spec

-----------------------------------------------------------------------------
(* What it says of the end of a job *)

\* A rank ends with zero only after a whole job: the report is complete, and no
\* rank raised in main; and the ranks leave main together.
THEOREM ZeroIsWhole == Exit!Spec => []ExitInv
<1>1. ExitIInv => ExitInv
  <2> SUFFICES ASSUME ExitIInv PROVE ExitInv
    OBVIOUS
  <2>1. Exit!TypeOK
    BY DEF ExitIInv
  <2>2. ASSUME NEW r \in Rank, Left(r)
        PROVE  report = "complete" /\ \A q \in Rank : entered[q] = Work + 1 /\ place[q] # "raised"
    <3>1. "report_written" \notin broken /\ \A q \in Rank : entered[q] = Work + 1
      BY <2>2 DEF ExitIInv, BarrierHolds
    <3>2. \A q \in Rank : place[q] # "raised"
      BY <3>1, ExitAssumption DEF ExitIInv, RaisedEarly
    <3>3. report # "open" /\ report # "error"
      BY <3>1, ExitAssumption, RootIsRank DEF ExitIInv, ReportOK
    <3> QED BY <3>1, <3>2, <3>3, <2>1 DEF Exit!TypeOK
  <2> QED BY <2>1, <2>2 DEF ExitInv, Exit!ExitInv, Exit!ZeroMeansWhole, Exit!LeaveTogether, Left
<1> QED BY <1>1, ExitInductive, PTL

\* The coordination service of rank zero outlives its users, unless the final
\* barrier has given up; and no user is then still short of the end of main.
THEOREM ServiceOutlivesUsers == Exit!Spec => []NoPeerStranded
<1>1. ExitIInv => NoPeerStranded
  <2> SUFFICES ASSUME ExitIInv, place[0] = "duties" \/ status[0] = "zero"
               PROVE  NoPeerStranded
    BY DEF NoPeerStranded, Exit!NoPeerStranded
  <2>1. \A q \in Rank : entered[q] = Work + 1
    BY RootIsRank DEF ExitIInv, BarrierHolds, Left, Exit!Finalizing
  <2>2. \/ \A q \in Rank : place[q] \in {"barrier", "shutdown", "duties", "gone"}
        \/ "finalize" \in broken
    BY RootIsRank DEF ExitIInv, FinalizedTogether
  <2> QED BY <2>1, <2>2 DEF NoPeerStranded, Exit!NoPeerStranded
<1> QED BY <1>1, ExitInductive, PTL
=============================================================================
