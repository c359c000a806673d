---------------------------- MODULE NativeProofs ----------------------------
(***************************************************************************)
(* What the native side holds for its handles: the contexts and claims of  *)
(* the SlabIO backends, for any number of ranks, handles, h5py users,      *)
(* paths and addresses, and the read buffers of any number of files under  *)
(* any budget.                                                             *)
(***************************************************************************)
EXTENDS MCNative, Sequences, FiniteSetTheorems, TLAPS

-----------------------------------------------------------------------------
(* The inductive invariant *)

Entries == [context : Context \cup {NoContext}, mode : Mode,
            owners : 0 .. Cardinality(Handle) + 1, left : BOOLEAN]
Handles == [stage : Stage, path : Path \cup {"none"}, mode : Mode,
            context : Context \cup {NoContext}]
Scopes == [path : Path \cup {"none"}, mode : Mode]
Places == [Context -> Address \cup {"none"}]
Memos == [Address -> Context \cup {NoContext}]

Passing == {"idle", "open"}
Holding == {"native", "open", "released"}
OpenOn(p) == {h \in Handle : handle[h].stage = "open" /\ handle[h].path = p}
Left(p) == IF table[p].left THEN 1 ELSE 0

\* A handle that is not in use is as it was at first; only one handle at a time is on
\* its way in or out.
HandleOK(h) ==
    /\ handle[h].stage = "idle" => handle[h] = Idle
    /\ handle[h].stage # "idle" => handle[h].path \in Path
    /\ handle[h].stage \in {"preflight", "claimed", "native"} => handle[h].context = NoContext
    /\ handle[h].stage = "publishing" => handle[h].mode # "r"
    /\ handle[h].context <= opened
HandlesOK ==
    /\ \A h \in Handle : HandleOK(h)
    /\ \A h, g \in Handle :
         handle[h].stage \notin Passing /\ handle[g].stage \notin Passing => h = g

\* What a claim stands for.
OfScope(c) ==
    /\ c.owner \in Scope /\ scope[c.owner] # Closed
    /\ c.path = scope[c.owner].path /\ c.stack = "h5py" /\ c.mode = scope[c.owner].mode
OfHandle(c) ==
    /\ c.owner \in Handle /\ c.path = handle[c.owner].path
    /\ \/ /\ handle[c.owner].stage = "preflight"
          /\ c.stack = "h5py" /\ c.mode = handle[c.owner].mode
       \/ /\ handle[c.owner].stage \in Holding
          /\ c.stack = "ffi" /\ c.mode = handle[c.owner].mode
       \/ handle[c.owner].stage = "publishing" /\ c.stack = "h5py" /\ c.mode = "a"
Compatible(c, d) == c.path = d.path /\ c.stack # d.stack => c.mode = "r" /\ d.mode = "r"
Claimed(o) == \E c \in live : c.owner = o

\* The claims are those of the users there are, and no two of them clash.
ClaimsOK ==
    /\ \A c \in live : OfScope(c) \/ OfHandle(c)
    /\ \A c, d \in live : Compatible(c, d)
    /\ \A s \in Scope : scope[s] # Closed => Claimed(s)
    /\ \A h \in Handle : handle[h].stage \in Holding => Claimed(h)

\* An entry of the table counts the handles that are open on its path, and the open
\* that left its context behind.
EntryOK(p) ==
    IF IsOpen(p)
      THEN /\ table[p].context <= opened /\ table[p].owners >= 1
           /\ table[p].owners = Cardinality(OpenOn(p)) + Left(p)
      ELSE table[p] = NoEntry
EntriesOK == \A p \in Path : EntryOK(p)

\* The context of a handle is that of its path, and a writer has it to itself: when
\* the writer has let it go nobody is left on the path.
OpenOK(h) ==
    handle[h].stage = "open" =>
      /\ IsOpen(handle[h].path) /\ table[handle[h].path].context = handle[h].context
      /\ handle[h].mode # "r" =>
           table[handle[h].path].owners = 1 /\ ~table[handle[h].path].left
ContextOK(h, p) ==
    IsOpen(p) /\ handle[h].context = table[p].context =>
      /\ handle[h].path = p /\ handle[h].mode = table[p].mode
      /\ handle[h].stage \in {"open", "released"}
WriterGone(h) ==
    handle[h].stage \in {"released", "publishing"} /\ handle[h].mode # "r" =>
      /\ \A p \in Path : IsOpen(p) => table[p].context # handle[h].context
      /\ \A g \in Handle : ~(handle[g].stage = "open" /\ handle[g].path = handle[h].path)
ContextsOK ==
    \A h \in Handle : OpenOK(h) /\ WriterGone(h) /\ \A p \in Path : ContextOK(h, p)

\* Contexts that are open are at different addresses of a rank; what is remembered at
\* an address is of the context there, on all ranks or on none.
Place(r, p) == address[r][table[p].context]
PlacesOK(r) ==
    /\ \A p \in Path : IsOpen(p) => Place(r, p) \in Address
    /\ \A p, q \in Path : IsOpen(p) /\ IsOpen(q) /\ Place(r, p) = Place(r, q) => p = q
RememberedOK(r) ==
    \A a \in Address : memo[r][a] # NoContext =>
      \E p \in Path : IsOpen(p) /\ table[p].context = memo[r][a] /\ Place(r, p) = a
Knows(r, p) == memo[r][Place(r, p)] # NoContext
Agreed(p) == IsOpen(p) => \A r, q \in Rank : Knows(r, p) <=> Knows(q, p)
MemoOK ==
    /\ \A r \in Rank : PlacesOK(r) /\ RememberedOK(r)
    /\ \A p \in Path : Agreed(p)

IInv ==
    /\ TablesOK /\ HandlesOK /\ ClaimsOK /\ EntriesOK /\ ContextsOK /\ MemoOK
    /\ CollectivesTogether

-----------------------------------------------------------------------------
(* Types *)

\* The type invariant, by the names of the sets the records are from.
LEMMA Types ==
    TablesOK <=>
      /\ live \subseteq Claims /\ table \in [Path -> Entries] /\ opened \in 0 .. MaxOpens
      /\ address \in [Rank -> Places] /\ memo \in [Rank -> Memos]
      /\ handle \in [Handle -> Handles] /\ scope \in [Scope -> Scopes] /\ entered \subseteq Rank
BY DEF TablesOK, Entries, Handles, Scopes, Places, Memos

\* The type invariant of the next state, likewise.
LEMMA NextTypes ==
    TablesOK' <=>
      /\ live' \subseteq Claims /\ table' \in [Path -> Entries] /\ opened' \in 0 .. MaxOpens
      /\ address' \in [Rank -> Places] /\ memo' \in [Rank -> Memos]
      /\ handle' \in [Handle -> Handles] /\ scope' \in [Scope -> Scopes] /\ entered' \subseteq Rank
BY DEF TablesOK, Entries, Handles, Scopes, Places, Memos

\* The numbers are numbers.
LEMMA Numbers ==
    ASSUME TablesOK
    PROVE  /\ opened \in Nat
           /\ \A p \in Path : /\ table[p].context \in Nat /\ table[p].owners \in Nat
                              /\ table[p].left \in BOOLEAN /\ table[p].mode \in Mode
           /\ \A h \in Handle : /\ handle[h].context \in Nat /\ handle[h].mode \in Mode
                                /\ handle[h].stage \in Stage
                                /\ handle[h].path \in Path \cup {"none"}
                                /\ handle[h].context \in Context \cup {NoContext}
           /\ \A p \in Path : table[p].context \in Context \cup {NoContext}
<1>1. table \in [Path -> Entries] /\ opened \in 0 .. MaxOpens /\ handle \in [Handle -> Handles]
  BY Types
<1>2. \A x \in Context \cup {NoContext} : x \in Nat
  BY MaxOpensAssumption DEF Context, NoContext
<1>3. Cardinality(Handle) \in Nat
  BY HandleAssumption, FS_CardinalityType
<1>4. \A p \in Path : table[p] \in Entries
  BY <1>1
<1>5. \A h \in Handle : handle[h] \in Handles
  BY <1>1
<1>6. \A p \in Path : /\ table[p].context \in Nat /\ table[p].owners \in Nat
                      /\ table[p].left \in BOOLEAN /\ table[p].mode \in Mode
                      /\ table[p].context \in Context \cup {NoContext}
  BY <1>2, <1>3, <1>4 DEF Entries
<1>7. \A h \in Handle : /\ handle[h].context \in Nat /\ handle[h].mode \in Mode
                        /\ handle[h].stage \in Stage
                        /\ handle[h].path \in Path \cup {"none"}
                        /\ handle[h].context \in Context \cup {NoContext}
  BY <1>2, <1>5 DEF Handles
<1> QED
  BY <1>1, <1>6, <1>7, MaxOpensAssumption

\* The handles open on a path are finitely many.
LEMMA OpenOnCount ==
    ASSUME NEW p
    PROVE  /\ IsFiniteSet(OpenOn(p)) /\ Cardinality(OpenOn(p)) \in Nat
           /\ Cardinality(OpenOn(p)) <= Cardinality(Handle) /\ Cardinality(Handle) \in Nat
BY HandleAssumption, FS_Subset, FS_CardinalityType DEF OpenOn

\* Users of the two kinds are not confused.
LEMMA Owners ==
    /\ \A h \in Handle : h \in Owner /\ h \notin Scope
    /\ \A s \in Scope : s \in Owner /\ s \notin Handle
BY OwnerAssumption

-----------------------------------------------------------------------------
(* What a step does to the handles *)

\* Only h is touched.
Only(h) ==
    /\ \A g \in Handle \ {h} : handle'[g] = handle[g]
    /\ handle' \in [Handle -> Handles]
Moves(h, s) ==
    /\ Only(h)
    /\ handle'[h].stage = s /\ handle'[h].path = handle[h].path
    /\ handle'[h].mode = handle[h].mode /\ handle'[h].context = handle[h].context
Rests(h) == Only(h) /\ handle'[h] = Idle

\* Idle is a state of a handle.
LEMMA IdleType ==
    /\ Idle \in Handles /\ Idle.stage = "idle" /\ Idle.path = "none" /\ Idle.mode = "r"
    /\ Idle.context = NoContext
BY DEF Idle, Handles, Stage, Mode, NoContext

\* Enter moves one handle and leaves the rest of it.
LEMMA EnterMoves ==
    ASSUME TablesOK, NEW h \in Handle, NEW s \in Stage, Enter(h, s)
    PROVE  Moves(h, s)
<1>1. handle \in [Handle -> Handles]
  BY Types
<1>2. handle'[h] = [handle[h] EXCEPT !.stage = s] /\ \A g \in Handle \ {h} : handle'[g] = handle[g]
  BY <1>1 DEF Enter
<1>3. handle[h] \in Handles
  BY <1>1
<1>4. /\ handle'[h] \in Handles /\ handle'[h].stage = s /\ handle'[h].path = handle[h].path
      /\ handle'[h].mode = handle[h].mode /\ handle'[h].context = handle[h].context
  BY <1>2, <1>3 DEF Handles
<1>5. handle' \in [Handle -> Handles]
  BY <1>1, <1>2, <1>4 DEF Enter
<1> QED
  BY <1>2, <1>4, <1>5 DEF Moves, Only

\* Abandon makes one handle idle.
LEMMA AbandonRests ==
    ASSUME TablesOK, NEW h \in Handle, Abandon(h)
    PROVE  Rests(h)
<1>1. handle \in [Handle -> Handles]
  BY Types
<1> QED
  BY <1>1, IdleType DEF Rests, Only, Abandon

-----------------------------------------------------------------------------
(* What a step has to keep of each part of the invariant *)

\* One handle goes on, and no other is on its way.
LEMMA HandlesKept ==
    ASSUME TablesOK, HandlesOK, NEW h \in Handle, Only(h), opened' \in Nat, opened' >= opened,
           HandleOK(h)',
           \/ handle'[h].stage \in Passing
           \/ \A g \in Handle : handle[g].stage \in Passing
           \/ handle[h].stage \notin Passing
    PROVE  HandlesOK'
<1>1. \A g \in Handle : g # h => handle'[g] = handle[g]
  BY DEF Only
<1>2. ASSUME NEW g \in Handle, g # h PROVE HandleOK(g)'
  <2>1. HandleOK(g) /\ handle'[g] = handle[g]
    BY <1>1, <1>2 DEF HandlesOK
  <2>2. opened \in Nat /\ handle[g].context \in Nat
    BY Numbers
  <2> QED
    BY <2>1, <2>2 DEF HandleOK
<1>3. ASSUME NEW g \in Handle, NEW f \in Handle,
             handle'[g].stage \notin Passing, handle'[f].stage \notin Passing
      PROVE  g = f
  BY <1>1, <1>3 DEF HandlesOK
<1> QED
  BY <1>2, <1>3 DEF HandlesOK

\* The handles have not moved.
LEMMA HandlesSame ==
    ASSUME HandlesOK, handle' = handle, opened' = opened
    PROVE  HandlesOK'
BY DEF HandlesOK, HandleOK

\* A claim of somebody else stands for what it stood for.
LEMMA OthersStand ==
    ASSUME ClaimsOK, NEW h \in Handle, Only(h), scope' = scope,
           NEW c \in live, c.owner # h
    PROVE  (OfScope(c) \/ OfHandle(c))'
<1>1. OfScope(c) \/ OfHandle(c)
  BY DEF ClaimsOK
<1>2. c.owner \in Handle => handle'[c.owner] = handle[c.owner]
  BY DEF Only
<1> QED
  BY <1>1, <1>2 DEF OfScope, OfHandle

\* A handle gives up its claim.
LEMMA ClaimsDropped ==
    ASSUME TablesOK, ClaimsOK, NEW h \in Handle, Only(h), scope' = scope, live' = Release(h),
           handle'[h].stage \notin Holding
    PROVE  ClaimsOK' /\ live' \subseteq Claims
<1>1. live' \subseteq live /\ \A c \in live : c.owner # h <=> c \in live'
  BY DEF Release
<1>2. \A c \in live' : (OfScope(c) \/ OfHandle(c))'
  BY <1>1, OthersStand
<1>3. \A c, d \in live' : Compatible(c, d)
  BY <1>1 DEF ClaimsOK
<1>4. \A s \in Scope : scope'[s] # Closed => Claimed(s)'
  BY <1>1, Owners DEF ClaimsOK, Claimed
<1>5. \A g \in Handle : handle'[g].stage \in Holding => Claimed(g)'
  BY <1>1 DEF ClaimsOK, Claimed, Only
<1>6. live' \subseteq Claims
  BY <1>1, Types
<1> QED
  BY <1>2, <1>3, <1>4, <1>5, <1>6 DEF ClaimsOK, Compatible

\* A handle that had none makes a claim that is not refused.
LEMMA ClaimMade ==
    ASSUME TablesOK, ClaimsOK, NEW h \in Handle, Only(h), scope' = scope,
           NEW p \in Path, NEW k \in Stack, NEW m \in Mode,
           live' = Claim(p, k, m, h), ~Refused(p, k, m), ~Claimed(h),
           handle'[h].path = p,
           \/ handle'[h].stage = "preflight" /\ k = "h5py" /\ m = handle'[h].mode
           \/ handle'[h].stage \in Holding /\ k = "ffi" /\ m = handle'[h].mode
           \/ handle'[h].stage = "publishing" /\ k = "h5py" /\ m = "a"
    PROVE  ClaimsOK' /\ live' \subseteq Claims
<1> DEFINE new == [path |-> p, stack |-> k, mode |-> m, owner |-> h]
<1>1. live' = live \cup {new}
  BY DEF Claim
<1>2. /\ new \in Claims /\ new.path = p /\ new.stack = k /\ new.mode = m /\ new.owner = h
  BY Owners DEF Claims
<1>3. OfHandle(new)'
  BY <1>2 DEF OfHandle
<1>4. \A c \in live : c.owner # h
  BY DEF Claimed
<1> HIDE DEF new
<1>5. \A c \in live' : (OfScope(c) \/ OfHandle(c))'
  BY <1>1, <1>3, <1>4, OthersStand
<1>6. \A c \in live : c.path = p /\ c.stack # k => c.mode = "r" /\ m = "r"
  BY DEF Refused
<1>7. \A c \in live : Compatible(c, new) /\ Compatible(new, c)
  BY <1>2, <1>6 DEF Compatible
<1>8. \A c, d \in live' : Compatible(c, d)
  BY <1>1, <1>7 DEF ClaimsOK, Compatible
<1>9. \A s \in Scope : scope'[s] # Closed => Claimed(s)'
  BY <1>1 DEF ClaimsOK, Claimed
<1>10. \A g \in Handle : handle'[g].stage \in Holding => Claimed(g)'
  BY <1>1, <1>2 DEF ClaimsOK, Claimed, Only
<1>11. live' \subseteq Claims
  BY <1>1, <1>2, Types
<1> QED
  BY <1>5, <1>8, <1>9, <1>10, <1>11 DEF ClaimsOK, Compatible

\* No claim comes or goes, and that of the handle that moves still stands.
LEMMA ClaimsSame ==
    ASSUME TablesOK, ClaimsOK, NEW h \in Handle, Only(h), scope' = scope, live' = live,
           \/ ~Claimed(h) /\ handle'[h].stage \notin Holding
           \/ /\ handle[h].stage \in Holding /\ handle'[h].stage \in Holding
              /\ handle'[h].path = handle[h].path /\ handle'[h].mode = handle[h].mode
    PROVE  ClaimsOK' /\ live' \subseteq Claims
<1>1. ASSUME NEW c \in live, c.owner = h PROVE OfHandle(c)'
  <2>1. Claimed(h)
    BY <1>1 DEF Claimed
  <2>2. OfHandle(c)
    BY <1>1, Owners DEF ClaimsOK, OfScope
  <2> QED
    BY <1>1, <2>1, <2>2 DEF OfHandle, Holding
<1>2. \A c \in live' : (OfScope(c) \/ OfHandle(c))'
  BY <1>1, OthersStand
<1>3. \A g \in Handle : handle'[g].stage \in Holding => Claimed(g)'
  BY DEF ClaimsOK, Claimed, Only
<1>4. \A s \in Scope : scope'[s] # Closed => Claimed(s)'
  BY DEF ClaimsOK, Claimed
<1>5. \A c, d \in live' : Compatible(c, d)
  BY DEF ClaimsOK
<1> QED
  BY <1>2, <1>3, <1>4, <1>5, Types DEF ClaimsOK, Compatible

\* No handle opens or is let go: the entries count what they counted.
LEMMA EntriesSame ==
    ASSUME EntriesOK, table' = table, opened' = opened, NEW h \in Handle, Only(h),
           handle[h].stage # "open", handle'[h].stage # "open"
    PROVE  EntriesOK'
<1>1. \A p : OpenOn(p)' = OpenOn(p)
  BY DEF OpenOn, Only
<1> QED
  BY <1>1 DEF EntriesOK, EntryOK, IsOpen, Left

\* A handle that is not open moves on, with its context or without.
LEMMA ContextsSame ==
    ASSUME ContextsOK, table' = table, NEW h \in Handle, Only(h),
           handle[h].stage # "open", handle'[h].stage # "open",
           \/ /\ handle'[h].context = NoContext
              /\ handle'[h].stage \notin {"released", "publishing"}
           \/ /\ handle[h].stage \in {"released", "publishing"} /\ handle'[h].stage = "publishing"
              /\ handle[h].mode # "r" /\ handle'[h].path = handle[h].path
              /\ handle'[h].mode = handle[h].mode /\ handle'[h].context = handle[h].context
    PROVE  ContextsOK'
<1>1. \A g \in Handle : g # h => handle'[g] = handle[g]
  BY DEF Only
<1>2. ASSUME NEW g \in Handle PROVE OpenOK(g)'
  BY <1>1 DEF ContextsOK, OpenOK, IsOpen
<1>3. ASSUME NEW g \in Handle, NEW p \in Path PROVE ContextOK(g, p)'
  <2>1. ContextOK(g, p) /\ WriterGone(g)
    BY DEF ContextsOK
  <2> QED
    BY <1>1, <2>1 DEF ContextOK, WriterGone, IsOpen
<1>4. ASSUME NEW g \in Handle PROVE WriterGone(g)'
  <2>1. WriterGone(g)
    BY DEF ContextsOK
  <2>2. \A f \in Handle : handle'[f].stage = "open" => handle'[f] = handle[f]
    BY <1>1
  <2> QED
    BY <1>1, <2>1, <2>2 DEF WriterGone, IsOpen
<1> QED
  BY <1>2, <1>3, <1>4 DEF ContextsOK

\* The table, the addresses and what is remembered by them stay.
LEMMA MemoSame ==
    ASSUME MemoOK, UNCHANGED <<table, address, memo>>
    PROVE  MemoOK'
BY DEF MemoOK, PlacesOK, RememberedOK, Agreed, Knows, Place, IsOpen

-----------------------------------------------------------------------------
(* The steps of the h5py users *)

\* A handle has a claim only while it looks at its file, holds it or publishes.
LEMMA NoClaim ==
    ASSUME ClaimsOK, NEW h \in Handle,
           handle[h].stage \notin Holding \cup {"preflight", "publishing"}
    PROVE  ~Claimed(h)
BY Owners DEF ClaimsOK, Claimed, OfScope, OfHandle

\* An h5py user takes a path, or gives it back: the registry follows.
LEMMA ScopeStep ==
    ASSUME IInv, NEW s \in Scope,
           (\E p \in Path, m \in Mode : OpenScope(s, p, m)) \/ CloseScope(s)
    PROVE  IInv'
<1> USE DEF IInv
<1>1. UNCHANGED <<table, opened, address, memo, handle>> /\ entered' = {}
  BY DEF OpenScope, CloseScope
<1>2. scope \in [Scope -> Scopes] /\ live \subseteq Claims
  BY Types
<1>3. Closed \in Scopes
  BY DEF Closed, Scopes, Mode
<1>4. \A c \in live : c.owner # s => (OfScope(c) \/ OfHandle(c))'
  <2>1. \A t \in Scope : t # s => scope'[t] = scope[t]
    BY <1>2 DEF OpenScope, CloseScope
  <2> QED
    BY <1>1, <2>1 DEF ClaimsOK, OfScope, OfHandle
<1>5. ClaimsOK' /\ live' \subseteq Claims /\ scope' \in [Scope -> Scopes]
  <2>1. ASSUME CloseScope(s) PROVE ClaimsOK' /\ live' \subseteq Claims /\ scope' \in [Scope -> Scopes]
    <3>1. scope' = [scope EXCEPT ![s] = Closed] /\ live' = Release(s)
      BY <2>1 DEF CloseScope
    <3>2. \A c \in live' : (OfScope(c) \/ OfHandle(c))'
      BY <1>4, <3>1 DEF Release
    <3>3. \A c, d \in live' : Compatible(c, d)'
      BY <3>1 DEF ClaimsOK, Compatible, Release
    <3>4. \A t \in Scope : scope'[t] # Closed => Claimed(t)'
      BY <1>2, <3>1 DEF ClaimsOK, Claimed, Release
    <3>5. \A h \in Handle : handle'[h].stage \in Holding => Claimed(h)'
      BY <1>1, <3>1, Owners DEF ClaimsOK, Claimed, Release
    <3> QED
      BY <1>2, <1>3, <3>1, <3>2, <3>3, <3>4, <3>5 DEF ClaimsOK, Release
  <2>2. ASSUME NEW p \in Path, NEW m \in Mode, OpenScope(s, p, m)
        PROVE  ClaimsOK' /\ live' \subseteq Claims /\ scope' \in [Scope -> Scopes]
    <3> DEFINE x == [path |-> p, mode |-> m]
               new == [path |-> p, stack |-> "h5py", mode |-> m, owner |-> s]
    <3>1. /\ scope' = [scope EXCEPT ![s] = x] /\ live' = live \cup {new}
          /\ scope[s] = Closed /\ ~Refused(p, "h5py", m)
      BY <2>2 DEF OpenScope, Claim
    <3>2. x \in Scopes /\ x.path = p /\ x.mode = m /\ x # Closed
      BY PathAssumption DEF Scopes, Closed
    <3>3. /\ new \in Claims /\ new.path = p /\ new.stack = "h5py" /\ new.mode = m /\ new.owner = s
      BY Owners DEF Claims, Stack
    <3> HIDE DEF new, x
    <3>4. scope'[s] = x /\ \A t \in Scope : t # s => scope'[t] = scope[t]
      BY <1>2, <3>1
    <3>5. \A c \in live : c.owner # s
      BY <3>1, Owners DEF ClaimsOK, OfScope, OfHandle
    <3>6. OfScope(new)'
      BY <3>2, <3>3, <3>4 DEF OfScope, Closed
    <3>7. \A c \in live' : (OfScope(c) \/ OfHandle(c))'
      BY <1>4, <3>1, <3>5, <3>6
    <3>8. \A c \in live : Compatible(c, new) /\ Compatible(new, c)
      BY <3>1, <3>3 DEF Compatible, Refused
    <3>9. \A c, d \in live' : Compatible(c, d)'
      BY <3>1, <3>8 DEF ClaimsOK, Compatible
    <3>10. \A t \in Scope : scope'[t] # Closed => Claimed(t)'
      BY <3>1, <3>3, <3>4 DEF ClaimsOK, Claimed
    <3>11. \A h \in Handle : handle'[h].stage \in Holding => Claimed(h)'
      BY <1>1, <3>1 DEF ClaimsOK, Claimed
    <3> QED
      BY <1>2, <3>1, <3>2, <3>3, <3>7, <3>9, <3>10, <3>11 DEF ClaimsOK
  <2> QED
    BY <2>1, <2>2
<1>6. TablesOK'
  BY <1>1, <1>5, Types, NextTypes
<1>7. HandlesOK'
  BY <1>1, HandlesSame
<1>8. EntriesOK' /\ ContextsOK'
  BY <1>1 DEF EntriesOK, EntryOK, IsOpen, Left, OpenOn, ContextsOK, OpenOK, ContextOK, WriterGone
<1>9. MemoOK'
  BY <1>1, MemoSame
<1> QED
  BY <1>1, <1>5, <1>6, <1>7, <1>8, <1>9 DEF CollectivesTogether

-----------------------------------------------------------------------------
(* The steps of a handle on its way in or out that leave the tables alone *)

\* Such a step keeps the invariant when it keeps the registry's part of it and leaves
\* the handle in a state it may be in.
LEMMA PassingStep ==
    ASSUME IInv, NEW h \in Handle, Only(h), SameFiles, entered' \in {{}, Rank},
           ClaimsOK', live' \subseteq Claims, HandleOK(h)',
           handle[h].stage # "open", handle'[h].stage # "open",
           handle[h].stage \notin Passing \/ \A g \in Handle : handle[g].stage \in Passing,
           \/ /\ handle'[h].context = NoContext
              /\ handle'[h].stage \notin {"released", "publishing"}
           \/ /\ handle[h].stage \in {"released", "publishing"} /\ handle'[h].stage = "publishing"
              /\ handle[h].mode # "r" /\ handle'[h].path = handle[h].path
              /\ handle'[h].mode = handle[h].mode /\ handle'[h].context = handle[h].context
    PROVE  IInv'
<1> USE DEF IInv
<1>1. UNCHANGED <<table, opened, address, memo, scope>>
  BY DEF SameFiles
<1>2. handle' \in [Handle -> Handles]
  BY DEF Only
<1>3. TablesOK'
  BY <1>1, <1>2, Types, NextTypes
<1>4. HandlesOK'
  BY <1>1, HandlesKept, Numbers
<1>5. EntriesOK' /\ ContextsOK' /\ MemoOK'
  BY <1>1, EntriesSame, ContextsSame, MemoSame
<1> QED
  BY <1>3, <1>4, <1>5 DEF CollectivesTogether

\* A handle that has come to rest is in a state it may be in.
LEMMA RestOK ==
    ASSUME TablesOK, NEW h \in Handle, Rests(h), opened' \in Nat
    PROVE  HandleOK(h)'
BY IdleType DEF Rests, HandleOK, NoContext

\* A handle starts on its way in.
LEMMA OpenStep ==
    ASSUME IInv, NEW h \in Handle, NEW p \in Path, NEW m \in Mode, Open(h, p, m)
    PROVE  IInv'
<1> USE DEF IInv
<1> DEFINE x == [Idle EXCEPT !.stage = "preflight", !.path = p, !.mode = m]
<1>1. /\ handle' = [handle EXCEPT ![h] = x] /\ handle[h] = Idle /\ SameFiles /\ entered' = {}
      /\ \A g \in Handle : handle[g].stage \in Passing
  BY DEF Open, Busy, Passing
<1>2. /\ x \in Handles /\ x.stage = "preflight" /\ x.path = p /\ x.mode = m
      /\ x.context = NoContext
  BY DEF Idle, Handles, Stage, Mode, NoContext
<1> HIDE DEF x
<1>3. handle \in [Handle -> Handles]
  BY Types
<1>4. Only(h) /\ handle'[h] = x
  BY <1>1, <1>2, <1>3 DEF Only
<1>5. handle[h].stage = "idle"
  BY <1>1, IdleType
<1>6. opened' = opened /\ scope' = scope /\ opened \in Nat
  BY <1>1, Numbers DEF SameFiles
<1>7. ~Claimed(h)
  BY <1>5, NoClaim DEF Holding
<1>8. ClaimsOK' /\ live' \subseteq Claims
  <2>1. CASE live' = live
    BY <1>2, <1>4, <1>6, <1>7, <2>1, ClaimsSame DEF Holding
  <2>2. CASE live' = Claim(p, "h5py", m, h) /\ ~Refused(p, "h5py", m)
    BY <1>2, <1>4, <1>6, <1>7, <2>2, ClaimMade DEF Stack
  <2> QED
    BY <2>1, <2>2 DEF Open
<1>9. HandleOK(h)'
  BY <1>2, <1>4, <1>6 DEF HandleOK, NoContext
<1> QED
  BY <1>1, <1>2, <1>4, <1>5, <1>8, <1>9, PassingStep

\* The look ends, well or not.
LEMMA PreflightedStep ==
    ASSUME IInv, NEW h \in Handle, Preflighted(h)
    PROVE  IInv'
<1> USE DEF IInv
<1>1. /\ handle[h].stage = "preflight" /\ live' = Release(h) /\ SameFiles /\ entered' = {}
      /\ scope' = scope /\ opened' = opened /\ opened \in Nat
  BY Numbers DEF Preflighted, SameFiles
<1>2. HandleOK(h)
  BY DEF HandlesOK
<1>3. Moves(h, "claimed") \/ Rests(h)
  BY EnterMoves, AbandonRests DEF Preflighted, Stage
<1>4. /\ Only(h) /\ handle'[h].stage \in {"claimed", "idle"} /\ handle'[h].context = NoContext
  BY <1>1, <1>2, <1>3, IdleType DEF Moves, Rests, HandleOK
<1>5. HandleOK(h)'
  <2>1. CASE Moves(h, "claimed")
    BY <1>1, <1>2, <2>1 DEF Moves, HandleOK
  <2>2. CASE Rests(h)
    BY <1>1, <2>2, RestOK
  <2> QED
    BY <1>3, <2>1, <2>2
<1>6. ClaimsOK' /\ live' \subseteq Claims
  BY <1>1, <1>4, ClaimsDropped DEF Holding
<1> QED
  BY <1>1, <1>4, <1>5, <1>6, PassingStep DEF Passing

\* The claim of the FFI is refused, or granted.
LEMMA ClaimFileStep ==
    ASSUME IInv, NEW h \in Handle, ClaimFile(h)
    PROVE  IInv'
<1> USE DEF IInv
<1> DEFINE p == handle[h].path  m == handle[h].mode
<1>1. /\ handle[h].stage = "claimed" /\ SameFiles /\ entered' = {}
      /\ scope' = scope /\ opened' = opened /\ opened \in Nat
  BY Numbers DEF ClaimFile, SameFiles
<1>2. HandleOK(h)
  BY DEF HandlesOK
<1>3. p \in Path /\ m \in Mode /\ handle[h].context = NoContext
  BY <1>1, <1>2, Numbers DEF HandleOK
<1>4. ~Claimed(h)
  BY <1>1, NoClaim DEF Holding
<1>5. CASE live' = live /\ Abandon(h)
  <2>1. Rests(h)
    BY <1>5, AbandonRests
  <2>2. Only(h) /\ handle'[h].stage = "idle" /\ handle'[h].context = NoContext
    BY <2>1, IdleType DEF Rests
  <2>3. HandleOK(h)'
    BY <1>1, <2>1, RestOK
  <2>4. ClaimsOK' /\ live' \subseteq Claims
    BY <1>1, <1>4, <1>5, <2>2, ClaimsSame DEF Holding
  <2> QED
    BY <1>1, <2>2, <2>3, <2>4, PassingStep DEF Passing
<1>6. CASE ~Refused(p, "ffi", m) /\ live' = Claim(p, "ffi", m, h) /\ Enter(h, "native")
  <2>1. Moves(h, "native")
    BY <1>6, EnterMoves DEF Stage
  <2>2. /\ Only(h) /\ handle'[h].stage = "native" /\ handle'[h].context = NoContext
        /\ handle'[h].path = p /\ handle'[h].mode = m
    BY <1>3, <2>1 DEF Moves
  <2>3. HandleOK(h)'
    BY <1>1, <1>3, <2>2 DEF HandleOK, NoContext
  <2>4. ClaimsOK' /\ live' \subseteq Claims
    BY <1>1, <1>3, <1>4, <1>6, <2>2, ClaimMade DEF Holding, Stack
  <2> QED
    BY <1>1, <2>2, <2>3, <2>4, PassingStep DEF Passing
<1> QED
  BY <1>5, <1>6 DEF ClaimFile

\* The native open raises.
LEMMA OpenFailsStep ==
    ASSUME IInv, NEW h \in Handle, OpenFails(h)
    PROVE  IInv'
<1> USE DEF IInv
<1>1. /\ handle[h].stage = "native" /\ live' = Release(h) /\ SameFiles /\ entered' = Rank
      /\ scope' = scope /\ opened' = opened /\ opened \in Nat
  BY Numbers DEF OpenFails, Unclaim, SameFiles
<1>2. Rests(h)
  BY AbandonRests DEF OpenFails
<1>3. Only(h) /\ handle'[h].stage = "idle" /\ handle'[h].context = NoContext
  BY <1>2, IdleType DEF Rests
<1>4. HandleOK(h)'
  BY <1>1, <1>2, RestOK
<1>5. ClaimsOK' /\ live' \subseteq Claims
  BY <1>1, <1>3, ClaimsDropped DEF Holding
<1> QED
  BY <1>1, <1>3, <1>4, <1>5, PassingStep DEF Passing

\* The claim of the FFI goes; a writer goes on to publish.
LEMMA ReleaseFileStep ==
    ASSUME IInv, NEW h \in Handle, ReleaseFile(h)
    PROVE  IInv'
<1> USE DEF IInv
<1>1. /\ handle[h].stage = "released" /\ live' = Release(h) /\ SameFiles /\ entered' = {}
      /\ scope' = scope /\ opened' = opened /\ opened \in Nat
  BY Numbers DEF ReleaseFile, Unclaim, SameFiles
<1>2. HandleOK(h)
  BY DEF HandlesOK
<1>3. CASE handle[h].mode = "r" /\ Abandon(h)
  <2>1. Rests(h)
    BY <1>3, AbandonRests
  <2>2. Only(h) /\ handle'[h].stage = "idle" /\ handle'[h].context = NoContext
    BY <2>1, IdleType DEF Rests
  <2>3. HandleOK(h)'
    BY <1>1, <2>1, RestOK
  <2>4. ClaimsOK' /\ live' \subseteq Claims
    BY <1>1, <2>2, ClaimsDropped DEF Holding
  <2> QED
    BY <1>1, <2>2, <2>3, <2>4, PassingStep DEF Passing
<1>4. CASE handle[h].mode # "r" /\ Enter(h, "publishing")
  <2>1. Moves(h, "publishing")
    BY <1>4, EnterMoves DEF Stage
  <2>2. Only(h) /\ handle'[h].stage = "publishing"
    BY <2>1 DEF Moves
  <2>3. HandleOK(h)'
    BY <1>1, <1>2, <1>4, <2>1 DEF HandleOK, Moves
  <2>4. ClaimsOK' /\ live' \subseteq Claims
    BY <1>1, <2>2, ClaimsDropped DEF Holding
  <2> QED
    BY <1>1, <1>4, <2>1, <2>2, <2>3, <2>4, PassingStep DEF Passing, Moves
<1> QED
  BY <1>3, <1>4 DEF ReleaseFile

\* The publication claims the path.
LEMMA PublishStep ==
    ASSUME IInv, NEW h \in Handle, Publish(h)
    PROVE  IInv'
<1> USE DEF IInv
<1> DEFINE p == handle[h].path
<1>1. /\ handle[h].stage = "publishing" /\ ~HoldsPublication(h) /\ SameFiles /\ entered' = {}
      /\ scope' = scope /\ opened' = opened /\ opened \in Nat
  BY Numbers DEF Publish, SameFiles
<1>2. HandleOK(h)
  BY DEF HandlesOK
<1>3. p \in Path /\ "a" \in Mode /\ "h5py" \in Stack /\ handle[h].mode # "r"
  BY <1>1, <1>2 DEF HandleOK, Mode, Stack
<1>4. ~Claimed(h)
  BY <1>1, Owners DEF HoldsPublication, Claimed, ClaimsOK, OfScope, OfHandle, Holding
<1>5. CASE live' = live /\ Abandon(h)
  <2>1. Rests(h)
    BY <1>5, AbandonRests
  <2>2. Only(h) /\ handle'[h].stage = "idle" /\ handle'[h].context = NoContext
    BY <2>1, IdleType DEF Rests
  <2>3. HandleOK(h)'
    BY <1>1, <2>1, RestOK
  <2>4. ClaimsOK' /\ live' \subseteq Claims
    BY <1>1, <1>4, <1>5, <2>2, ClaimsSame DEF Holding
  <2> QED
    BY <1>1, <2>2, <2>3, <2>4, PassingStep DEF Passing
<1>6. CASE ~Refused(p, "h5py", "a") /\ live' = Claim(p, "h5py", "a", h) /\ UNCHANGED handle
  <2>1. Only(h) /\ handle'[h] = handle[h]
    BY <1>6, Types DEF Only
  <2>2. HandleOK(h)'
    BY <1>1, <1>2, <2>1 DEF HandleOK
  <2>3. ClaimsOK' /\ live' \subseteq Claims
    BY <1>1, <1>3, <1>4, <1>6, <2>1, ClaimMade
  <2> QED
    BY <1>1, <1>3, <2>1, <2>2, <2>3, PassingStep DEF Passing
<1> QED
  BY <1>5, <1>6 DEF Publish

\* The publication lets the path go.
LEMMA PublishedStep ==
    ASSUME IInv, NEW h \in Handle, Published(h)
    PROVE  IInv'
<1> USE DEF IInv
<1>1. /\ handle[h].stage = "publishing" /\ live' = Release(h) /\ SameFiles /\ entered' = {}
      /\ scope' = scope /\ opened' = opened /\ opened \in Nat
  BY Numbers DEF Published, SameFiles
<1>2. Rests(h)
  BY AbandonRests DEF Published
<1>3. Only(h) /\ handle'[h].stage = "idle" /\ handle'[h].context = NoContext
  BY <1>2, IdleType DEF Rests
<1>4. HandleOK(h)'
  BY <1>1, <1>2, RestOK
<1>5. ClaimsOK' /\ live' \subseteq Claims
  BY <1>1, <1>3, ClaimsDropped DEF Holding
<1> QED
  BY <1>1, <1>3, <1>4, <1>5, PassingStep DEF Passing

-----------------------------------------------------------------------------
(* The steps on the tables *)

\* The effect of a change to one entry of the table.
LEMMA OneEntry ==
    ASSUME TablesOK, NEW p \in Path, NEW e \in Entries, table' = [table EXCEPT ![p] = e]
    PROVE  /\ table' \in [Path -> Entries] /\ table'[p] = e
           /\ \A q \in Path : q # p => table'[q] = table[q]
BY Types

\* The entries of the other paths count the same handles, opened ones being more or
\* less on this path only.
LEMMA OtherEntries ==
    ASSUME EntriesOK, TablesOK, NEW h \in Handle, Only(h), NEW p \in Path,
           handle[h].stage = "open" => handle[h].path = p,
           handle'[h].stage = "open" => handle'[h].path = p,
           opened' \in Nat, opened' >= opened,
           NEW q \in Path, q # p, table'[q] = table[q]
    PROVE  EntryOK(q)'
<1>1. OpenOn(q)' = OpenOn(q)
  BY DEF OpenOn, Only
<1>2. EntryOK(q) /\ opened \in Nat /\ table[q].context \in Nat
  BY Numbers DEF EntriesOK
<1> QED
  BY <1>1, <1>2 DEF EntryOK, IsOpen, Left

\* Two open paths have two contexts.
LEMMA ContextsDiffer ==
    ASSUME MemoOK, NEW p \in Path, NEW q \in Path, IsOpen(p), IsOpen(q),
           table[p].context = table[q].context
    PROVE  p = q
<1>1. 0 \in Rank
  BY NAssumption DEF Rank
<1> QED
  BY <1>1 DEF MemoOK, PlacesOK, Place

\* A reader joins the readers of a context, or is refused.
LEMMA ShareContextStep ==
    ASSUME IInv, NEW h \in Handle, ShareContext(h)
    PROVE  IInv'
<1> USE DEF IInv
<1>0. PICK p \in Path : p = handle[h].path
  BY DEF ShareContext, HandlesOK, HandleOK
<1>1. /\ handle[h].stage = "native" /\ IsOpen(p) /\ entered' = {}
      /\ UNCHANGED <<opened, address, memo, scope>> /\ opened \in Nat
  BY <1>0, Numbers DEF ShareContext
<1>2. HandleOK(h) /\ EntryOK(p) /\ p \in Path /\ p = handle[h].path
  BY <1>0, <1>1 DEF HandlesOK, EntriesOK, HandleOK
<1>3. CASE ~MayShare(h)
  <2>1. live' = Release(h) /\ Abandon(h) /\ SameFiles
    BY <1>1, <1>3 DEF ShareContext, Unclaim, SameFiles
  <2>2. Rests(h)
    BY <2>1, AbandonRests
  <2>3. Only(h) /\ handle'[h].stage = "idle" /\ handle'[h].context = NoContext
    BY <2>2, IdleType DEF Rests
  <2>4. HandleOK(h)'
    BY <1>1, <2>2, RestOK
  <2>5. ClaimsOK' /\ live' \subseteq Claims
    BY <1>1, <2>1, <2>3, ClaimsDropped DEF Holding
  <2> QED
    BY <1>1, <2>1, <2>3, <2>4, <2>5, PassingStep DEF Passing
<1>4. CASE MayShare(h)
  <2> DEFINE e == [table[p] EXCEPT !.owners = @ + 1]
             x == [handle[h] EXCEPT !.stage = "open", !.context = table[p].context]
             c == table[p].context
  <2>1. handle \in [Handle -> Handles] /\ table \in [Path -> Entries] /\ handle[h] \in Handles
        /\ table[p] \in Entries
    BY <1>2, Types
  <2>2. handle[h].mode = "r" /\ table[p].mode = "r" /\ live' = live
        /\ table' = [table EXCEPT ![p] = e]
    BY <1>2, <1>4 DEF ShareContext, MayShare
  <2>3. handle'[h] = x /\ \A g \in Handle \ {h} : handle'[g] = handle[g]
    BY <1>2, <1>4, <2>1 DEF ShareContext
  <2>4. /\ x \in Handles /\ x.stage = "open" /\ x.path = p /\ x.mode = "r" /\ x.context = c
        /\ c \in Nat /\ c # NoContext /\ c <= opened
    BY <1>1, <1>2, <2>1, <2>2, Numbers DEF Handles, Stage, IsOpen, EntryOK
  <2>5. handle' \in [Handle -> Handles]
    BY <1>2, <1>4, <2>1, <2>3, <2>4 DEF ShareContext
  <2>6. Only(h)
    BY <2>3, <2>5 DEF Only
  <2>7. /\ handle'[h].stage = "open" /\ handle'[h].path = p /\ handle'[h].mode = "r"
        /\ handle'[h].context = c
    BY <2>3, <2>4
  <2>8. /\ table[p].owners \in Nat /\ table[p].owners >= 1 /\ table[p].left \in BOOLEAN
        /\ table[p].owners = Cardinality(OpenOn(p)) + Left(p)
    BY <1>1, <1>2, Numbers DEF EntryOK
  <2>9. h \notin OpenOn(p) /\ OpenOn(p)' = OpenOn(p) \cup {h}
    BY <1>1, <2>6, <2>7 DEF OpenOn, Only
  <2>10. /\ Cardinality(OpenOn(p)') = Cardinality(OpenOn(p)) + 1
         /\ Cardinality(OpenOn(p)') <= Cardinality(Handle) /\ Cardinality(Handle) \in Nat
         /\ Cardinality(OpenOn(p)) \in Nat
    <3>1. Cardinality(OpenOn(p)') <= Cardinality(Handle)
      <4>1. OpenOn(p)' \in SUBSET Handle
        BY DEF OpenOn
      <4> QED
        BY <4>1, HandleAssumption, FS_Subset
    <3> QED
      BY <2>9, <3>1, OpenOnCount, FS_AddElement
  <2>11. table[p].owners + 1 \in 0 .. Cardinality(Handle) + 1
    BY <2>8, <2>10 DEF Left
  <2>12. /\ e \in Entries /\ e.context = c /\ e.mode = "r" /\ e.owners = table[p].owners + 1
         /\ e.left = table[p].left
    BY <2>1, <2>2, <2>11 DEF Entries
  <2> HIDE DEF e, x
  <2>13. /\ table' \in [Path -> Entries] /\ table'[p] = e
         /\ \A q \in Path : q # p => table'[q] = table[q]
    BY <1>2, <2>2, <2>12, OneEntry
  <2>14. \A q \in Path : table'[q].context = table[q].context /\ table'[q].mode = table[q].mode
                         /\ table'[q].left = table[q].left
    BY <2>2, <2>12, <2>13
  <2>15. ClaimsOK' /\ live' \subseteq Claims
    BY <1>1, <1>2, <2>2, <2>6, <2>7, ClaimsSame DEF Holding
  <2>16. TablesOK'
    BY <1>1, <2>5, <2>13, <2>15, Types, NextTypes
  <2>17. HandleOK(h)'
    BY <1>1, <1>2, <2>4, <2>7 DEF HandleOK
  <2>18. HandlesOK'
    BY <1>1, <2>6, <2>7, <2>17, HandlesKept DEF Passing
  <2>19. EntryOK(p)'
    <3>1. IsOpen(p)' /\ Left(p)' = Left(p) /\ Left(p) \in Nat
      BY <2>4, <2>12, <2>13 DEF IsOpen, Left
    <3>2. /\ table'[p].owners = table[p].owners + 1 /\ table'[p].context = c
          /\ opened' = opened
      BY <1>1, <2>12, <2>13
    <3>3. table'[p].owners = Cardinality(OpenOn(p)') + Left(p)' /\ table'[p].owners >= 1
      BY <2>8, <2>10, <3>1, <3>2
    <3> QED
      BY <2>4, <3>1, <3>2, <3>3 DEF EntryOK
  <2>20. EntriesOK'
    BY <1>1, <1>2, <2>6, <2>7, <2>13, <2>19, OtherEntries DEF EntriesOK
  <2>21. ASSUME NEW g \in Handle PROVE OpenOK(g)'
    <3>1. CASE g = h
      BY <2>4, <2>7, <2>12, <2>13, <3>1 DEF OpenOK, IsOpen
    <3>2. CASE g # h
      <4>1. handle'[g] = handle[g] /\ OpenOK(g) /\ HandleOK(g)
        BY <2>3, <3>2 DEF ContextsOK, HandlesOK
      <4>2. handle[g].stage = "open" => handle[g].path \in Path
        BY <4>1 DEF HandleOK
      <4>3. handle[g].stage = "open" /\ handle[g].path = p => handle[g].mode = "r"
        BY <1>2, <2>2, <4>1 DEF ContextsOK, OpenOK, ContextOK
      <4> QED
        BY <2>13, <2>14, <4>1, <4>2, <4>3 DEF OpenOK, IsOpen
    <3> QED
      BY <3>1, <3>2
  <2>22. ASSUME NEW g \in Handle, NEW q \in Path PROVE ContextOK(g, q)'
    <3>1. CASE g = h
      <4>1. CASE q = p
        BY <2>2, <2>7, <2>14, <3>1, <4>1 DEF ContextOK
      <4>2. CASE q # p
        <5>1. ~(IsOpen(q) /\ table[q].context = c)
          BY <1>1, <1>2, <4>2, ContextsDiffer
        <5> QED
          BY <2>7, <2>14, <3>1, <5>1 DEF ContextOK, IsOpen
      <4> QED
        BY <4>1, <4>2
    <3>2. CASE g # h
      BY <2>3, <2>14, <3>2 DEF ContextsOK, ContextOK, IsOpen
    <3> QED
      BY <3>1, <3>2
  <2>23. ASSUME NEW g \in Handle PROVE WriterGone(g)'
    <3>1. g # h => handle[g].stage \in Passing
      BY <1>1 DEF HandlesOK, Passing
    <3> QED
      BY <2>3, <2>7, <3>1 DEF WriterGone, Passing
  <2>24. MemoOK'
    BY <1>1, <2>14 DEF MemoOK, PlacesOK, RememberedOK, Agreed, Knows, Place, IsOpen
  <2> QED
    BY <1>1, <2>15, <2>16, <2>18, <2>20, <2>21, <2>22, <2>23, <2>24 DEF ContextsOK, CollectivesTogether
<1> QED
  BY <1>3, <1>4

\* A path without a context has no open handle.
LEMMA NobodyOpen ==
    ASSUME ContextsOK, NEW p \in Path, ~IsOpen(p)
    PROVE  \A h \in Handle : ~(handle[h].stage = "open" /\ handle[h].path = p)
BY DEF ContextsOK, OpenOK

\* The tables after a native open of the context c on a path without one, in a mode and
\* at one free address of each rank.
Opened(p, c, m, l) ==
    /\ c = opened + 1 /\ opened' = c
    /\ table' = [table EXCEPT ![p] = [context |-> c, mode |-> m, owners |-> 1, left |-> l]]
    /\ \E at \in [Rank -> Address] :
         /\ \A r \in Rank : at[r] \notin InUse(r)
         /\ address' = [r \in Rank |-> [address[r] EXCEPT ![c] = at[r]]]

\* What a native open makes of the tables.
LEMMA OpenedTables ==
    ASSUME IInv, NEW p \in Path, ~IsOpen(p), NEW m \in Mode, NEW l \in BOOLEAN,
           opened < MaxOpens, NEW c, Opened(p, c, m, l), memo' = memo
    PROVE  /\ c \in Context /\ c \in Nat \ {0} /\ opened \in Nat /\ opened' = c /\ opened < c
           /\ c \in 0 .. MaxOpens
           /\ table' \in [Path -> Entries] /\ table'[p].context = c /\ table'[p].mode = m
           /\ table'[p].owners = 1 /\ table'[p].left = l
           /\ \A q \in Path : q # p => table'[q] = table[q]
           /\ address' \in [Rank -> Places]
           /\ MemoOK'
<1> USE DEF IInv
<1>1. /\ opened \in Nat /\ c = opened + 1 /\ opened' = c /\ MaxOpens \in Nat
  BY Numbers, MaxOpensAssumption DEF Opened
<1>2. c \in Context /\ c \in Nat \ {0} /\ opened < c /\ c \in 0 .. MaxOpens
  BY <1>1 DEF Context
<1> DEFINE e == [context |-> c, mode |-> m, owners |-> 1, left |-> l]
<1>3. Cardinality(Handle) \in Nat
  BY HandleAssumption, FS_CardinalityType
<1>4. e \in Entries /\ e.context = c /\ e.mode = m /\ e.owners = 1 /\ e.left = l
  BY <1>2, <1>3 DEF Entries
<1>5. table' = [table EXCEPT ![p] = e]
  BY DEF Opened
<1> HIDE DEF e
<1>6. /\ table' \in [Path -> Entries] /\ table'[p] = e
      /\ \A q \in Path : q # p => table'[q] = table[q]
  BY <1>4, <1>5, OneEntry
<1>7. PICK at \in [Rank -> Address] :
         /\ \A r \in Rank : at[r] \notin InUse(r)
         /\ address' = [r \in Rank |-> [address[r] EXCEPT ![c] = at[r]]]
  BY DEF Opened
<1>8. address \in [Rank -> Places] /\ \A r \in Rank : address[r] \in Places
  BY Types
<1>9. ASSUME NEW r \in Rank
      PROVE  /\ address'[r] \in Places /\ address'[r][c] = at[r] /\ at[r] \in Address
             /\ \A d \in Context : d # c => address'[r][d] = address[r][d]
  BY <1>2, <1>7, <1>8 DEF Places
<1>10. address' \in [Rank -> Places]
  BY <1>7, <1>9
<1>11. \A q \in Path : IsOpen(q) => table[q].context \in Context /\ table[q].context # c
  BY <1>1, <1>2, Numbers DEF EntriesOK, EntryOK, IsOpen
<1>12. ASSUME NEW q \in Path, IsOpen(q)
       PROVE  q # p /\ IsOpen(q)' /\ \A r \in Rank : Place(r, q)' = Place(r, q)
  BY <1>6, <1>9, <1>11, <1>12 DEF IsOpen, Place
<1>13. \A q \in Path : q # p => (IsOpen(q)' <=> IsOpen(q))
  BY <1>6 DEF IsOpen
<1>14. IsOpen(p)' /\ \A r \in Rank : Place(r, p)' = at[r]
  BY <1>2, <1>4, <1>6, <1>9 DEF IsOpen, Place, NoContext
<1>15. \A r \in Rank, q \in Path : IsOpen(q) => Place(r, q) # at[r]
  BY <1>7 DEF InUse, Place
<1>16. ASSUME NEW r \in Rank PROVE PlacesOK(r)'
  <2>1. PlacesOK(r)
    BY DEF MemoOK
  <2>2. \A q \in Path : IsOpen(q)' => q = p \/ IsOpen(q)
    BY <1>13
  <2>3. \A q \in Path : IsOpen(q)' => Place(r, q)' \in Address
    BY <1>9, <1>12, <1>14, <2>1, <2>2 DEF PlacesOK
  <2>4. \A q, s \in Path : IsOpen(q)' /\ IsOpen(s)' /\ Place(r, q)' = Place(r, s)' => q = s
    BY <1>12, <1>14, <1>15, <2>1, <2>2 DEF PlacesOK
  <2> QED
    BY <2>3, <2>4 DEF PlacesOK
<1>17. ASSUME NEW r \in Rank PROVE RememberedOK(r)'
  <2>1. RememberedOK(r)
    BY DEF MemoOK
  <2>2. ASSUME NEW a \in Address, memo'[r][a] # NoContext
        PROVE  \E q \in Path : IsOpen(q)' /\ table'[q].context = memo'[r][a] /\ Place(r, q)' = a
    <3>1. PICK q \in Path : IsOpen(q) /\ table[q].context = memo[r][a] /\ Place(r, q) = a
      BY <2>1, <2>2 DEF RememberedOK
    <3> QED
      BY <1>6, <1>12, <3>1
  <2> QED
    BY <2>2 DEF RememberedOK
<1>18. ASSUME NEW q \in Path PROVE Agreed(q)'
  <2>1. CASE q = p
    <3>1. \A r \in Rank : memo[r][at[r]] = NoContext
      BY <1>9, <1>15 DEF MemoOK, RememberedOK
    <3> QED
      BY <1>14, <2>1, <3>1 DEF Agreed, Knows
  <2>2. CASE q # p
    BY <1>12, <1>13, <2>2 DEF MemoOK, Agreed, Knows
  <2> QED
    BY <2>1, <2>2
<1>19. MemoOK'
  BY <1>16, <1>17, <1>18 DEF MemoOK
<1> QED
  BY <1>1, <1>2, <1>4, <1>6, <1>10, <1>19

\* A handle opens a context of its own.
LEMMA OpenNativelyStep ==
    ASSUME IInv, NEW h \in Handle, OpenNatively(h)
    PROVE  IInv'
<1> USE DEF IInv
<1>0. PICK p \in Path : p = handle[h].path
  BY DEF OpenNatively, HandlesOK, HandleOK
<1>1. PICK m \in Mode : m = handle[h].mode
  BY Numbers
<1>2. PICK c : c = opened + 1
  OBVIOUS
<1>3. /\ handle[h].stage = "native" /\ ~IsOpen(p) /\ opened < MaxOpens /\ entered' = Rank
      /\ UNCHANGED <<live, memo, scope>> /\ Opened(p, c, m, FALSE)
  BY <1>0, <1>1, <1>2 DEF OpenNatively, Opened
<1>4. /\ c \in Context /\ c \in Nat \ {0} /\ opened \in Nat /\ opened' = c /\ opened < c
      /\ c \in 0 .. MaxOpens
      /\ table' \in [Path -> Entries] /\ table'[p].context = c /\ table'[p].mode = m
      /\ table'[p].owners = 1 /\ table'[p].left = FALSE
      /\ \A q \in Path : q # p => table'[q] = table[q]
      /\ address' \in [Rank -> Places]
      /\ MemoOK'
  BY <1>3, OpenedTables
<1> DEFINE x == [handle[h] EXCEPT !.stage = "open", !.context = c]
<1>5. handle \in [Handle -> Handles] /\ handle[h] \in Handles
  BY Types
<1>6. handle'[h] = x /\ \A g \in Handle \ {h} : handle'[g] = handle[g]
  BY <1>2, <1>5 DEF OpenNatively
<1>7. /\ x \in Handles /\ x.stage = "open" /\ x.path = p /\ x.mode = m /\ x.context = c
  BY <1>0, <1>1, <1>4, <1>5 DEF Handles, Stage
<1>8. handle' \in [Handle -> Handles]
  BY <1>2, <1>5, <1>6, <1>7 DEF OpenNatively
<1>9. Only(h)
  BY <1>6, <1>8 DEF Only
<1> HIDE DEF x
<1>10. /\ handle'[h].stage = "open" /\ handle'[h].path = p /\ handle'[h].mode = m
       /\ handle'[h].context = c
  BY <1>6, <1>7
<1>11. ClaimsOK' /\ live' \subseteq Claims
  BY <1>0, <1>1, <1>3, <1>9, <1>10, ClaimsSame DEF Holding
<1>12. TablesOK'
  BY <1>3, <1>4, <1>8, <1>11, Types, NextTypes
<1>13. HandleOK(h)'
  BY <1>4, <1>10 DEF HandleOK
<1>14. HandlesOK'
  BY <1>4, <1>9, <1>10, <1>13, HandlesKept DEF Passing
<1>15. \A g \in Handle : ~(handle[g].stage = "open" /\ handle[g].path = p)
  BY <1>3, NobodyOpen
<1>16. EntryOK(p)'
  <2>1. OpenOn(p)' = {h}
    BY <1>9, <1>10, <1>15 DEF OpenOn, Only
  <2>2. Cardinality(OpenOn(p)') = 1
    BY <2>1, FS_Singleton
  <2>3. IsOpen(p)' /\ Left(p)' = 0
    BY <1>4 DEF IsOpen, NoContext, Left
  <2> QED
    BY <1>4, <2>2, <2>3 DEF EntryOK
<1>17. EntriesOK'
  BY <1>3, <1>4, <1>9, <1>10, <1>16, OtherEntries DEF EntriesOK
<1>18. ASSUME NEW g \in Handle, g # h
       PROVE  handle'[g] = handle[g] /\ handle[g].stage \in Passing
              /\ handle[g].context \in Nat /\ handle[g].context < c
  BY <1>3, <1>4, <1>6, <1>18, Numbers DEF HandlesOK, HandleOK, Passing
<1>19. ASSUME NEW g \in Handle PROVE OpenOK(g)'
  <2>1. CASE g = h
    BY <1>4, <1>10, <2>1 DEF OpenOK, IsOpen, NoContext
  <2>2. CASE g # h
    BY <1>4, <1>15, <1>18, <2>2 DEF ContextsOK, OpenOK, IsOpen, HandlesOK, HandleOK
  <2> QED
    BY <2>1, <2>2
<1>20. ASSUME NEW g \in Handle, NEW q \in Path PROVE ContextOK(g, q)'
  <2>1. q # p => table[q].context \in Nat /\ (IsOpen(q) => table[q].context <= opened)
    BY Numbers DEF EntriesOK, EntryOK
  <2>2. CASE g = h
    BY <1>4, <1>10, <2>1, <2>2 DEF ContextOK, IsOpen
  <2>3. CASE g # h
    BY <1>4, <1>18, <2>3 DEF ContextsOK, ContextOK, IsOpen
  <2> QED
    BY <2>2, <2>3
<1>21. ASSUME NEW g \in Handle PROVE WriterGone(g)'
  BY <1>10, <1>18 DEF WriterGone, Passing
<1> QED
  BY <1>3, <1>4, <1>12, <1>14, <1>11, <1>17, <1>19, <1>20, <1>21 DEF ContextsOK, CollectivesTogether

\* A check after the native open raises: the context stays, without a handle.
LEMMA CheckFailsStep ==
    ASSUME IInv, NEW h \in Handle, CheckFails(h)
    PROVE  IInv'
<1> USE DEF IInv
<1>0. PICK p \in Path : p = handle[h].path
  BY DEF CheckFails, HandlesOK, HandleOK
<1>1. PICK m \in Mode : m = handle[h].mode
  BY Numbers
<1>2. PICK c : c = opened + 1
  OBVIOUS
<1>3. PICK a \in Address :
         /\ \A r \in Rank : a \notin InUse(r)
         /\ address' = [r \in Rank |-> [address[r] EXCEPT ![c] = a]]
  BY <1>2 DEF CheckFails
<1>4. \E at \in [Rank -> Address] :
         /\ \A r \in Rank : at[r] \notin InUse(r)
         /\ address' = [r \in Rank |-> [address[r] EXCEPT ![c] = at[r]]]
  <2>1. [r \in Rank |-> a] \in [Rank -> Address]
    OBVIOUS
  <2> QED
    BY <1>3, <2>1
<1>5. /\ handle[h].stage = "native" /\ ~IsOpen(p) /\ opened < MaxOpens /\ entered' = Rank
      /\ UNCHANGED <<memo, scope>> /\ Opened(p, c, m, TRUE) /\ live' = Release(h) /\ Abandon(h)
  BY <1>0, <1>1, <1>2, <1>4 DEF CheckFails, Opened, Unclaim
<1>6. /\ c \in Context /\ c \in Nat \ {0} /\ opened \in Nat /\ opened' = c /\ opened < c
      /\ c \in 0 .. MaxOpens
      /\ table' \in [Path -> Entries] /\ table'[p].context = c /\ table'[p].mode = m
      /\ table'[p].owners = 1 /\ table'[p].left = TRUE
      /\ \A q \in Path : q # p => table'[q] = table[q]
      /\ address' \in [Rank -> Places]
      /\ MemoOK'
  BY <1>5, OpenedTables
<1>7. Rests(h)
  BY <1>5, AbandonRests
<1>8. /\ Only(h) /\ handle'[h] = Idle /\ handle'[h].stage = "idle" /\ handle'[h].context = NoContext
      /\ handle' \in [Handle -> Handles] /\ \A g \in Handle : g # h => handle'[g] = handle[g]
  BY <1>7, IdleType DEF Rests, Only
<1>9. ClaimsOK' /\ live' \subseteq Claims
  BY <1>5, <1>8, ClaimsDropped DEF Holding
<1>10. TablesOK'
  BY <1>5, <1>6, <1>8, <1>9, Types, NextTypes
<1>11. HandleOK(h)'
  BY <1>6, <1>7, RestOK
<1>12. HandlesOK'
  BY <1>6, <1>8, <1>11, HandlesKept DEF Passing
<1>13. \A g \in Handle : ~(handle[g].stage = "open" /\ handle[g].path = p)
  BY <1>5, NobodyOpen
<1>14. EntryOK(p)'
  <2>1. OpenOn(p)' = {}
    BY <1>8, <1>13 DEF OpenOn
  <2>2. Cardinality(OpenOn(p)') = 0
    BY <2>1, FS_EmptySet
  <2>3. IsOpen(p)' /\ Left(p)' = 1
    BY <1>6 DEF IsOpen, NoContext, Left
  <2> QED
    BY <1>6, <2>2, <2>3 DEF EntryOK
<1>15. EntriesOK'
  BY <1>5, <1>6, <1>8, <1>14, OtherEntries DEF EntriesOK
<1>16. ASSUME NEW g \in Handle, g # h
       PROVE  handle'[g] = handle[g] /\ handle[g].stage \in Passing
              /\ handle[g].context \in Nat /\ handle[g].context < c
  BY <1>5, <1>6, <1>8, <1>16, Numbers DEF HandlesOK, HandleOK, Passing
<1>17. ASSUME NEW g \in Handle PROVE OpenOK(g)'
  <2>1. CASE g = h
    BY <1>8, <2>1 DEF OpenOK
  <2>2. CASE g # h
    BY <1>6, <1>13, <1>16, <2>2 DEF ContextsOK, OpenOK, IsOpen, HandlesOK, HandleOK
  <2> QED
    BY <2>1, <2>2
<1>18. ASSUME NEW g \in Handle, NEW q \in Path PROVE ContextOK(g, q)'
  <2>1. CASE g = h
    BY <1>8, <2>1 DEF ContextOK, IsOpen, NoContext
  <2>2. CASE g # h
    BY <1>6, <1>16, <2>2 DEF ContextsOK, ContextOK, IsOpen
  <2> QED
    BY <2>1, <2>2
<1>19. ASSUME NEW g \in Handle PROVE WriterGone(g)'
  BY <1>8, <1>16 DEF WriterGone, Passing
<1> QED
  BY <1>5, <1>6, <1>9, <1>10, <1>12, <1>15, <1>17, <1>18, <1>19 DEF ContextsOK, CollectivesTogether

-----------------------------------------------------------------------------
(* Reading, and closing *)

\* The address of an open handle's context is the place of its path.
LEMMA OpenPlace ==
    ASSUME IInv, NEW h \in Handle, handle[h].stage = "open", NEW p \in Path, p = handle[h].path
    PROVE  /\ IsOpen(p) /\ table[p].context = handle[h].context
           /\ \A r \in Rank : At(r, h) = Place(r, p) /\ Place(r, p) \in Address
<1>1. IsOpen(p) /\ table[p].context = handle[h].context
  BY DEF IInv, ContextsOK, OpenOK
<1> QED
  BY <1>1 DEF IInv, MemoOK, PlacesOK, Place, At

\* A dataset is opened, by all ranks or by none.
LEMMA OpenDatasetStep ==
    ASSUME IInv, NEW h \in Handle, OpenDataset(h)
    PROVE  IInv'
<1> USE DEF IInv
<1> DEFINE missing == {r \in Rank : memo[r][At(r, h)] = NoContext}
<1>1. /\ UNCHANGED <<live, table, opened, address, handle, scope>> /\ entered' = missing
      /\ handle[h].stage = "open"
  BY DEF OpenDataset
<1>2. PICK p \in Path : p = handle[h].path
  BY <1>1 DEF HandlesOK, HandleOK
<1>3. /\ IsOpen(p) /\ table[p].context = handle[h].context
      /\ \A r \in Rank : At(r, h) = Place(r, p) /\ Place(r, p) \in Address
  BY <1>1, <1>2, OpenPlace
<1>4. PICK c : c = handle[h].context
  OBVIOUS
<1>5. c \in Context \cup {NoContext} /\ c # NoContext /\ table[p].context = c
  BY <1>3, <1>4, Numbers DEF IsOpen
<1>6. memo \in [Rank -> Memos]
  BY Types
<1>7. memo' = [r \in Rank |-> IF r \in missing THEN [memo[r] EXCEPT ![At(r, h)] = c] ELSE memo[r]]
  BY <1>4 DEF OpenDataset
<1>8. ASSUME NEW r \in Rank
      PROVE  /\ memo'[r] \in Memos
             /\ \A a \in Address : memo'[r][a] =
                  IF a = Place(r, p) /\ memo[r][a] = NoContext THEN c ELSE memo[r][a]
  <2>1. memo[r] \in Memos
    BY <1>6
  <2>2. memo'[r] = IF r \in missing THEN [memo[r] EXCEPT ![Place(r, p)] = c] ELSE memo[r]
    BY <1>3, <1>7
  <2> QED
    BY <1>3, <1>5, <2>1, <2>2 DEF Memos
<1>9. memo' \in [Rank -> Memos]
  BY <1>7, <1>8
<1>10. missing \in {{}, Rank}
  <2>1. Agreed(p)
    BY DEF MemoOK
  <2> QED
    BY <1>3, <2>1 DEF Agreed, Knows
<1>11. TablesOK'
  BY <1>1, <1>9, <1>10, Types, NextTypes
<1>12. HandlesOK'
  BY <1>1, HandlesSame
<1>13. ClaimsOK'
  BY <1>1 DEF ClaimsOK, OfScope, OfHandle, Compatible, Claimed
<1>14. EntriesOK' /\ ContextsOK'
  <2>1. \A q : OpenOn(q)' = OpenOn(q)
    BY <1>1 DEF OpenOn
  <2>2. EntriesOK'
    BY <1>1, <2>1 DEF EntriesOK, EntryOK, IsOpen, Left
  <2>3. ContextsOK'
    BY <1>1 DEF ContextsOK, OpenOK, ContextOK, WriterGone, IsOpen
  <2> QED
    BY <2>2, <2>3
<1>15. \A r \in Rank, q \in Path : Place(r, q)' = Place(r, q) /\ (IsOpen(q)' <=> IsOpen(q))
  BY <1>1 DEF Place, IsOpen
<1>16. ASSUME NEW r \in Rank PROVE PlacesOK(r)' /\ RememberedOK(r)'
  <2>1. PlacesOK(r)'
    BY <1>15 DEF MemoOK, PlacesOK
  <2>2. ASSUME NEW a \in Address, memo'[r][a] # NoContext
        PROVE  \E q \in Path : IsOpen(q)' /\ table'[q].context = memo'[r][a] /\ Place(r, q)' = a
    <3>1. CASE a = Place(r, p) /\ memo[r][a] = NoContext
      BY <1>1, <1>3, <1>5, <1>8, <1>15, <3>1
    <3>2. CASE ~(a = Place(r, p) /\ memo[r][a] = NoContext)
      <4>1. memo'[r][a] = memo[r][a]
        BY <1>8, <3>2
      <4> QED
        BY <1>1, <1>15, <2>2, <4>1 DEF MemoOK, RememberedOK
    <3> QED
      BY <3>1, <3>2
  <2> QED
    BY <2>1, <2>2 DEF RememberedOK
<1>17. ASSUME NEW q \in Path PROVE Agreed(q)'
  <2>1. CASE q = p
    <3>1. \A r \in Rank : memo'[r][Place(r, p)] # NoContext
      BY <1>3, <1>5, <1>8
    <3> QED
      BY <1>15, <2>1, <3>1 DEF Agreed, Knows
  <2>2. CASE q # p
    <3>1. ASSUME NEW r \in Rank, IsOpen(q)
          PROVE  Place(r, q) \in Address /\ Place(r, q) # Place(r, p)
      BY <1>3, <2>2, <3>1 DEF MemoOK, PlacesOK
    <3>2. \A r \in Rank : IsOpen(q) => memo'[r][Place(r, q)] = memo[r][Place(r, q)]
      BY <1>8, <3>1
    <3> QED
      BY <1>15, <3>2 DEF MemoOK, Agreed, Knows
  <2> QED
    BY <2>1, <2>2
<1>18. MemoOK'
  BY <1>16, <1>17 DEF MemoOK
<1> QED
  BY <1>1, <1>10, <1>11, <1>12, <1>13, <1>14, <1>18 DEF CollectivesTogether

\* The entry of a path loses one of its owners, and a handle lets the path go.
LEMMA CloseContextStep ==
    ASSUME IInv, NEW h \in Handle, CloseContext(h)
    PROVE  IInv'
<1> USE DEF IInv
<1>1. /\ UNCHANGED <<live, opened, address, scope>> /\ handle[h].stage = "open"
      /\ \A g \in Handle : handle[g].stage \in Passing
      /\ Enter(h, "released") /\ opened \in Nat
  BY Numbers DEF CloseContext, Busy, Passing
<1>2. PICK p \in Path : p = handle[h].path
  BY <1>1 DEF HandlesOK, HandleOK
<1>3. /\ IsOpen(p) /\ table[p].context = handle[h].context
      /\ \A r \in Rank : At(r, h) = Place(r, p) /\ Place(r, p) \in Address
  BY <1>1, <1>2, OpenPlace
<1>4. Moves(h, "released")
  BY <1>1, EnterMoves DEF Stage
<1>5. /\ Only(h) /\ handle'[h].stage = "released" /\ handle'[h].path = p
      /\ handle'[h].mode = handle[h].mode /\ handle'[h].context = handle[h].context
      /\ handle' \in [Handle -> Handles] /\ \A g \in Handle : g # h => handle'[g] = handle[g]
  BY <1>2, <1>4 DEF Moves, Only
<1>6. HandleOK(h) /\ OpenOK(h) /\ EntryOK(p)
  BY DEF HandlesOK, ContextsOK, EntriesOK
<1>7. HandleOK(h)'
  BY <1>1, <1>2, <1>5, <1>6 DEF HandleOK
<1>8. HandlesOK'
  BY <1>1, <1>5, <1>7, HandlesKept
<1>9. ClaimsOK' /\ live' \subseteq Claims
  BY <1>1, <1>2, <1>5, ClaimsSame DEF Holding
<1> DEFINE e == Leaves(p)
<1>10. table' = [table EXCEPT ![p] = e] /\ table \in [Path -> Entries] /\ table[p] \in Entries
  BY <1>2, Types DEF CloseContext
<1>11. /\ table[p].owners \in Nat /\ table[p].owners >= 1 /\ table[p].left \in BOOLEAN
       /\ table[p].owners = Cardinality(OpenOn(p)) + Left(p) /\ table[p].context <= opened
       /\ Left(p) \in {0, 1}
  BY <1>3, <1>6, Numbers DEF EntryOK, Left
<1>12. h \in OpenOn(p) /\ OpenOn(p)' = OpenOn(p) \ {h}
  BY <1>1, <1>2, <1>5 DEF OpenOn
<1>13. /\ Cardinality(OpenOn(p)) \in Nat /\ Cardinality(OpenOn(p)) >= 1
       /\ Cardinality(OpenOn(p)') = Cardinality(OpenOn(p)) - 1
       /\ IsFiniteSet(OpenOn(p)') /\ Cardinality(OpenOn(p)') \in Nat
  <2>1. Cardinality(OpenOn(p)') = Cardinality(OpenOn(p)) - 1 /\ IsFiniteSet(OpenOn(p)')
    BY <1>12, OpenOnCount, FS_RemoveElement
  <2> QED
    BY <2>1, OpenOnCount, FS_CardinalityType
<1>14. Cardinality(Handle) \in Nat /\ Cardinality(OpenOn(p)) <= Cardinality(Handle)
  BY OpenOnCount
\* Either others are left on the path, or h was the last.
<1>15. \/ /\ table[p].owners > 1 /\ e \in Entries /\ e # NoEntry
          /\ e.context = table[p].context /\ e.mode = table[p].mode /\ e.left = table[p].left
          /\ e.owners = table[p].owners - 1
       \/ table[p].owners = 1 /\ e = NoEntry /\ e \in Entries /\ e.context = NoContext
  <2>1. CASE table[p].owners > 1
    <3>1. e = [table[p] EXCEPT !.owners = @ - 1]
      BY <2>1 DEF Leaves
    <3>2. table[p].owners - 1 \in 0 .. Cardinality(Handle) + 1
      BY <1>11, <1>13, <1>14, <2>1
    <3>3. /\ e \in Entries /\ e.context = table[p].context /\ e.mode = table[p].mode
          /\ e.left = table[p].left /\ e.owners = table[p].owners - 1
      BY <1>10, <3>1, <3>2 DEF Entries
    <3>4. e # NoEntry
      BY <1>3, <3>3 DEF IsOpen, NoEntry
    <3> QED
      BY <2>1, <3>3, <3>4
  <2>2. CASE ~(table[p].owners > 1)
    <3>1. table[p].owners = 1 /\ e = NoEntry
      BY <1>11, <2>2 DEF Leaves
    <3>2. NoEntry \in Entries /\ NoEntry.context = NoContext
      BY <1>14 DEF NoEntry, Entries, Mode, NoContext
    <3> QED
      BY <3>1, <3>2
  <2> QED
    BY <2>1, <2>2
<1> HIDE DEF e
<1>16. /\ table' \in [Path -> Entries] /\ table'[p] = e
       /\ \A q \in Path : q # p => table'[q] = table[q]
  BY <1>10, <1>15, OneEntry
<1>17. table[p].owners = 1 => Left(p) = 0 /\ OpenOn(p)' = {}
  <2>1. table[p].owners = 1 => Cardinality(OpenOn(p)') = 0 /\ Left(p) = 0
    BY <1>11, <1>13
  <2> QED
    BY <1>13, <2>1, FS_EmptySet
<1>18. EntryOK(p)'
  <2>1. CASE table[p].owners > 1
    <3>1. IsOpen(p)' /\ Left(p)' = Left(p)
      BY <1>3, <1>11, <1>15, <1>16, <2>1 DEF IsOpen, Left
    <3>2. table'[p].owners = table[p].owners - 1 /\ table'[p].context = table[p].context
      BY <1>11, <1>15, <1>16, <2>1
    <3> QED
      BY <1>1, <1>11, <1>13, <2>1, <3>1, <3>2 DEF EntryOK
  <2>2. CASE table[p].owners = 1
    BY <1>15, <1>16, <2>2 DEF EntryOK, IsOpen
  <2> QED
    BY <1>11, <2>1, <2>2
<1>19. EntriesOK'
  BY <1>1, <1>2, <1>5, <1>16, <1>18, OtherEntries DEF EntriesOK
\* An entry is there with its context, or gone with the last owner.
<1>20. \A q \in Path : IsOpen(q)' =>
           /\ IsOpen(q) /\ table'[q].context = table[q].context /\ table'[q].mode = table[q].mode
           /\ table'[q].left = table[q].left
           /\ q = p => table[p].owners > 1
  BY <1>11, <1>15, <1>16 DEF IsOpen
<1>21. \A q \in Path : IsOpen(q) /\ ~IsOpen(q)' => q = p /\ table[p].owners = 1
  BY <1>3, <1>11, <1>15, <1>16 DEF IsOpen
<1>22. ASSUME NEW g \in Handle PROVE OpenOK(g)'
  <2>1. CASE g = h
    BY <1>5, <2>1 DEF OpenOK
  <2>2. CASE g # h
    <3>1. handle'[g] = handle[g] /\ OpenOK(g) /\ HandleOK(g)
      BY <1>5, <2>2 DEF ContextsOK, HandlesOK
    <3>2. CASE handle[g].stage = "open" /\ handle[g].path = p
      <4>1. g \in OpenOn(p)'
        BY <1>5, <2>2, <3>1, <3>2 DEF OpenOn
      <4>2. table[p].owners # 1
        BY <1>17, <4>1
      <4> QED
        BY <1>16, <1>20, <1>21, <3>1, <3>2, <4>2 DEF OpenOK
    <3>3. CASE handle[g].stage = "open" /\ handle[g].path # p
      BY <1>16, <3>1, <3>3 DEF OpenOK, IsOpen, HandleOK
    <3> QED
      BY <3>1, <3>2, <3>3 DEF OpenOK
  <2> QED
    BY <2>1, <2>2
<1>23. ASSUME NEW g \in Handle, NEW q \in Path PROVE ContextOK(g, q)'
  <2>1. ContextOK(g, q)
    BY DEF ContextsOK
  <2> QED
    BY <1>2, <1>5, <1>20, <2>1 DEF ContextOK
<1>24. ASSUME NEW g \in Handle PROVE WriterGone(g)'
  <2>1. CASE g = h /\ handle[h].mode # "r"
    <3>1. table[p].owners = 1
      BY <1>1, <1>2, <1>6, <2>1 DEF OpenOK
    <3>2. \A q \in Path : IsOpen(q)' => table'[q].context # handle[h].context
      BY <1>3, <1>20, <3>1, ContextsDiffer
    <3>3. \A f \in Handle : ~(handle'[f].stage = "open" /\ handle'[f].path = p)
      BY <1>17, <3>1 DEF OpenOn
    <3> QED
      BY <1>5, <2>1, <3>2, <3>3 DEF WriterGone
  <2>2. CASE g # h
    <3>1. handle'[g].stage \in Passing
      BY <1>1, <1>5, <2>2
    <3> QED
      BY <3>1 DEF WriterGone, Passing
  <2>3. CASE g = h /\ handle[h].mode = "r"
    BY <1>5, <2>3 DEF WriterGone
  <2> QED
    BY <2>1, <2>2, <2>3
<1>25. ContextsOK'
  BY <1>22, <1>23, <1>24 DEF ContextsOK
\* The memo forgets what it knew of a context that is closed, and that alone.
<1>26. memo \in [Rank -> Memos]
  BY Types
<1>27. /\ memo' \in [Rank -> Memos] /\ entered' \in {{}, Rank}
       /\ \/ table[p].owners > 1 /\ memo' = memo
          \/ /\ table[p].owners = 1
             /\ \A r \in Rank, a \in Address :
                  memo'[r][a] = IF a = Place(r, p) THEN NoContext ELSE memo[r][a]
  <2>1. CASE table[p].owners > 1
    BY <1>2, <1>11, <1>15, <1>26, <2>1 DEF CloseContext, e
  <2>2. CASE table[p].owners = 1
    <3>1. memo' = Forget(h) /\ entered' = Rank
      BY <1>2, <1>15, <2>2 DEF CloseContext, e
    <3>2. ASSUME NEW r \in Rank
          PROVE  /\ memo'[r] \in Memos
                 /\ \A a \in Address :
                      memo'[r][a] = IF a = Place(r, p) THEN NoContext ELSE memo[r][a]
      BY <1>3, <1>26, <3>1 DEF Forget, Memos
    <3> QED
      BY <2>2, <3>1, <3>2 DEF Forget
  <2> QED
    BY <1>11, <2>1, <2>2
<1>28. TablesOK'
  BY <1>1, <1>5, <1>9, <1>16, <1>27, Types, NextTypes
<1>29. \A r \in Rank, q \in Path : IsOpen(q)' => Place(r, q)' = Place(r, q)
  BY <1>1, <1>20 DEF Place
<1>30. \A r \in Rank, q \in Path : IsOpen(q) /\ q # p =>
           Place(r, q) # Place(r, p) /\ Place(r, q) \in Address
  BY <1>3 DEF MemoOK, PlacesOK
<1>31. ASSUME NEW r \in Rank PROVE PlacesOK(r)'
  BY <1>20, <1>29 DEF MemoOK, PlacesOK
<1>32. ASSUME NEW r \in Rank PROVE RememberedOK(r)'
  <2>1. ASSUME NEW a \in Address, memo'[r][a] # NoContext
        PROVE  \E q \in Path : IsOpen(q)' /\ table'[q].context = memo'[r][a] /\ Place(r, q)' = a
    <3>1. /\ memo'[r][a] = memo[r][a]
          /\ table[p].owners = 1 => a # Place(r, p)
      BY <1>11, <1>27, <2>1
    <3>2. PICK q \in Path : IsOpen(q) /\ table[q].context = memo[r][a] /\ Place(r, q) = a
      BY <2>1, <3>1 DEF MemoOK, RememberedOK
    <3>3. IsOpen(q)'
      BY <1>21, <3>1, <3>2
    <3> QED
      BY <1>20, <1>29, <3>1, <3>2, <3>3
  <2> QED
    BY <2>1 DEF RememberedOK
<1>33. ASSUME NEW q \in Path, IsOpen(q)' PROVE Agreed(q)'
  <2>1. \A r \in Rank : memo'[r][Place(r, q)] = memo[r][Place(r, q)]
    BY <1>11, <1>20, <1>27, <1>30, <1>33
  <2> QED
    BY <1>20, <1>29, <1>33, <2>1 DEF MemoOK, Agreed, Knows
<1>34. MemoOK'
  BY <1>31, <1>32, <1>33 DEF MemoOK, Agreed
<1> QED
  BY <1>8, <1>9, <1>19, <1>25, <1>27, <1>28, <1>34 DEF CollectivesTogether

-----------------------------------------------------------------------------
(* The invariant, and what follows from it *)

\* Nothing is open at first.
LEMMA InitInv == Init => IInv
<1> SUFFICES ASSUME Init PROVE IInv
  OBVIOUS
<1>1. /\ live = {} /\ table = [p \in Path |-> NoEntry] /\ opened = 0
      /\ address = [r \in Rank |-> [c \in Context |-> "none"]]
      /\ memo = [r \in Rank |-> [a \in Address |-> NoContext]]
      /\ handle = [h \in Handle |-> Idle] /\ scope = [s \in Scope |-> Closed] /\ entered = {}
  BY DEF Init
<1>2. Cardinality(Handle) \in Nat
  BY HandleAssumption, FS_CardinalityType
<1>3. /\ NoEntry \in Entries /\ NoEntry.context = NoContext /\ Closed \in Scopes
  BY <1>2 DEF NoEntry, Entries, Mode, NoContext, Closed, Scopes
<1>4. [c \in Context |-> "none"] \in Places /\ [a \in Address |-> NoContext] \in Memos
  BY DEF Places, Memos
<1>5. TablesOK
  <2>1. 0 \in 0 .. MaxOpens
    BY MaxOpensAssumption
  <2> QED
    BY <1>1, <1>3, <1>4, <2>1, IdleType, Types
<1>6. HandlesOK
  BY <1>1, IdleType DEF HandlesOK, HandleOK, Passing, NoContext
<1>7. ClaimsOK
  BY <1>1, IdleType DEF ClaimsOK, Holding
<1>8. \A p \in Path : ~IsOpen(p) /\ table[p] = NoEntry
  BY <1>1, <1>3 DEF IsOpen
<1>9. EntriesOK
  BY <1>8 DEF EntriesOK, EntryOK
<1>10. ContextsOK
  BY <1>1, <1>8, IdleType DEF ContextsOK, OpenOK, ContextOK, WriterGone
<1>11. MemoOK
  BY <1>1, <1>8 DEF MemoOK, PlacesOK, RememberedOK, Agreed
<1> QED
  BY <1>1, <1>5, <1>6, <1>7, <1>9, <1>10, <1>11 DEF IInv, CollectivesTogether

\* Every step keeps the invariant.
LEMMA NextInv == IInv /\ [Next]_vars => IInv'
<1> SUFFICES ASSUME IInv, [Next]_vars PROVE IInv'
  OBVIOUS
<1>1. ASSUME NEW s \in Scope, NEW p \in Path, NEW m \in Mode, OpenScope(s, p, m) PROVE IInv'
  BY <1>1, ScopeStep
<1>2. ASSUME NEW s \in Scope, CloseScope(s) PROVE IInv'
  BY <1>2, ScopeStep
<1>3. ASSUME NEW h \in Handle, NEW p \in Path, NEW m \in Mode, Open(h, p, m) PROVE IInv'
  BY <1>3, OpenStep
<1>4. ASSUME NEW h \in Handle, Preflighted(h) PROVE IInv'
  BY <1>4, PreflightedStep
<1>5. ASSUME NEW h \in Handle, ClaimFile(h) PROVE IInv'
  BY <1>5, ClaimFileStep
<1>6. ASSUME NEW h \in Handle, ShareContext(h) PROVE IInv'
  BY <1>6, ShareContextStep
<1>7. ASSUME NEW h \in Handle, OpenContext(h) \/ InitFails(h) PROVE IInv'
  BY <1>7, OpenNativelyStep DEF OpenContext, InitFails
<1>8. ASSUME NEW h \in Handle, OpenFails(h) PROVE IInv'
  BY <1>8, OpenFailsStep
<1>9. ASSUME NEW h \in Handle, CheckFails(h) PROVE IInv'
  BY <1>9, CheckFailsStep
<1>10. ASSUME NEW h \in Handle, OpenDataset(h) PROVE IInv'
  BY <1>10, OpenDatasetStep
<1>11. ASSUME NEW h \in Handle, CloseContext(h) PROVE IInv'
  BY <1>11, CloseContextStep
<1>12. ASSUME NEW h \in Handle, ReleaseFile(h) PROVE IInv'
  BY <1>12, ReleaseFileStep
<1>13. ASSUME NEW h \in Handle, Publish(h) PROVE IInv'
  BY <1>13, PublishStep
<1>14. ASSUME NEW h \in Handle, Published(h) PROVE IInv'
  BY <1>14, PublishedStep
<1>15. CASE UNCHANGED vars
  <2>1. UNCHANGED <<live, table, opened, address, memo, handle, scope, entered>>
    BY <1>15 DEF vars
  <2>2. TablesOK' /\ HandlesOK' /\ MemoOK' /\ CollectivesTogether'
    BY <2>1, Types, NextTypes, HandlesSame, MemoSame DEF IInv, CollectivesTogether
  <2>3. ClaimsOK'
    BY <2>1 DEF IInv, ClaimsOK, OfScope, OfHandle, Compatible, Claimed
  <2>4. EntriesOK'
    <3>1. \A q : OpenOn(q)' = OpenOn(q)
      BY <2>1 DEF OpenOn
    <3> QED
      BY <2>1, <3>1 DEF IInv, EntriesOK, EntryOK, IsOpen, Left
  <2>5. ContextsOK'
    BY <2>1 DEF IInv, ContextsOK, OpenOK, ContextOK, WriterGone, IsOpen
  <2> QED
    BY <2>2, <2>3, <2>4, <2>5 DEF IInv
<1> QED
  BY <1>1, <1>2, <1>3, <1>4, <1>5, <1>6, <1>7, <1>8, <1>9, <1>10, <1>11, <1>12, <1>13, <1>14, <1>15
     DEF Next

\* The invariant holds, whatever the ranks, handles, h5py users, paths and addresses.
THEOREM Inductive == Spec => []IInv
<1>1. Init => IInv
  BY InitInv
<1>2. IInv /\ [Next]_vars => IInv'
  BY NextInv
<1> QED
  BY <1>1, <1>2, PTL DEF Spec

\* A context that counts as open has a handle with a claim of the FFI on its path.
LEMMA ContextIsClaimed ==
    ASSUME IInv, NEW p \in Path, NEW m \in NativeModes(p)
    PROVE  \E c \in live : c.path = p /\ c.stack = "ffi" /\ c.mode = m
<1> USE DEF IInv
<1>1. IsOpen(p) /\ m = table[p].mode /\ (Used(p) \/ ~table[p].left)
  BY DEF NativeModes
<1>2. PICK h \in Handle : handle[h].context = table[p].context
  <2>1. CASE Used(p)
    BY <2>1 DEF Used
  <2>2. CASE ~table[p].left
    <3>1. table[p].owners \in Nat /\ table[p].owners >= 1
          /\ table[p].owners = Cardinality(OpenOn(p)) + 0
      BY <1>1, <2>2, Numbers DEF EntriesOK, EntryOK, Left
    <3>2. Cardinality(OpenOn(p)) # 0
      BY <3>1, OpenOnCount
    <3>3. OpenOn(p) # {}
      BY <3>2, FS_EmptySet
    <3>4. PICK h \in Handle : handle[h].stage = "open" /\ handle[h].path = p
      BY <3>3 DEF OpenOn
    <3> QED
      BY <3>4 DEF ContextsOK, OpenOK
  <2> QED
    BY <1>1, <2>1, <2>2
<1>3. handle[h].path = p /\ handle[h].mode = m /\ handle[h].stage \in {"open", "released"}
  BY <1>1, <1>2 DEF ContextsOK, ContextOK
<1>4. PICK c \in live : c.owner = h
  BY <1>3 DEF ClaimsOK, Claimed, Holding
<1>5. OfHandle(c)
  BY <1>4, Owners DEF ClaimsOK, OfScope
<1> QED
  BY <1>3, <1>4, <1>5 DEF OfHandle

\* What h5py has open has a claim of h5py.
LEMMA H5pyIsClaimed ==
    ASSUME IInv, NEW p \in Path, NEW k \in H5pyModes(p)
    PROVE  \E c \in live : c.path = p /\ c.stack = "h5py" /\ c.mode = k
<1> USE DEF IInv
<1>1. CASE \E s \in Scope : scope[s].path = p /\ k = scope[s].mode
  <2>1. PICK s \in Scope : scope[s].path = p /\ k = scope[s].mode
    BY <1>1
  <2>2. scope[s] # Closed
    BY <2>1, PathAssumption DEF Closed
  <2>3. PICK c \in live : c.owner = s
    BY <2>2 DEF ClaimsOK, Claimed
  <2>4. OfScope(c)
    BY <2>3, Owners DEF ClaimsOK, OfHandle
  <2> QED
    BY <2>1, <2>3, <2>4 DEF OfScope
<1>2. CASE \E h \in Handle : /\ handle[h].path = p /\ handle[h].stage = "preflight"
                            /\ \E c \in live : c.owner = h
                            /\ k = handle[h].mode
  <2>1. PICK h \in Handle : /\ handle[h].path = p /\ handle[h].stage = "preflight"
                            /\ \E c \in live : c.owner = h
                            /\ k = handle[h].mode
    BY <1>2
  <2>2. PICK c \in live : c.owner = h
    BY <2>1
  <2>3. OfHandle(c)
    BY <2>2, Owners DEF ClaimsOK, OfScope
  <2> QED
    BY <2>1, <2>2, <2>3 DEF OfHandle, Holding
<1>3. CASE \E h \in Handle : handle[h].path = p /\ handle[h].stage = "publishing"
                            /\ HoldsPublication(h) /\ k = "a"
  <2>1. PICK h \in Handle : handle[h].path = p /\ handle[h].stage = "publishing"
                            /\ HoldsPublication(h) /\ k = "a"
    BY <1>3
  <2>2. PICK c \in live : c.owner = h /\ c.stack = "h5py"
    BY <2>1 DEF HoldsPublication
  <2>3. OfHandle(c)
    BY <2>2, Owners DEF ClaimsOK, OfScope
  <2> QED
    BY <2>1, <2>2, <2>3 DEF OfHandle, Holding
<1> QED
  BY <1>1, <1>2, <1>3 DEF H5pyModes

\* What is lost are handles.
LostOK == lost \subseteq Handle

LEMMA Losses == Spec => []LostOK
<1>1. Init => LostOK
  BY DEF Init, LostOK
<1>2. LostOK /\ [Next]_vars => LostOK'
  BY DEF LostOK, Next, vars, SameFiles, OpenScope, CloseScope, Open, Preflighted, ClaimFile,
         ShareContext, OpenContext, InitFails, OpenFails, CheckFails, OpenDataset,
         CloseContext, ReleaseFile, Publish, Published
<1> QED
  BY <1>1, <1>2, PTL DEF Spec

\* What every handle in use is promised: one library at a time on a file that is
\* written, an admitted publication, a context that stays open, datasets of its file.
THEOREM HandlesKeepTheirFile == Spec => []HandlesInv
<1>1. IInv /\ LostOK => HandlesInv
  <2> SUFFICES ASSUME IInv, LostOK PROVE HandlesInv
    OBVIOUS
  <2>1. OneLibraryWhenWriting
    <3> SUFFICES ASSUME NEW p \in Path, NEW m \in NativeModes(p), NEW k \in H5pyModes(p)
                 PROVE  m = "r" /\ k = "r"
      BY DEF OneLibraryWhenWriting
    <3>1. PICK c \in live : c.path = p /\ c.stack = "ffi" /\ c.mode = m
      BY ContextIsClaimed
    <3>2. PICK d \in live : d.path = p /\ d.stack = "h5py" /\ d.mode = k
      BY H5pyIsClaimed
    <3> QED
      BY <3>1, <3>2 DEF IInv, ClaimsOK, Compatible
  <2>2. PublicationAdmitted
    <3> SUFFICES ASSUME NEW h \in Handle, handle[h].stage = "publishing",
                        NEW c \in live, c.path = handle[h].path, c.stack # "h5py"
                 PROVE  FALSE
      BY DEF PublicationAdmitted, Refused
    <3>1. OfHandle(c)
      BY DEF IInv, ClaimsOK, OfScope
    <3>2. PICK g \in Handle : g = c.owner
      BY <3>1 DEF OfHandle
    <3>3. handle[g].stage \in Holding /\ handle[g].path = handle[h].path
      BY <3>1, <3>2 DEF OfHandle
    <3>4. handle[g].stage = "open"
      BY <3>3 DEF IInv, HandlesOK, Holding, Passing
    <3>5. handle[h].mode # "r"
      BY DEF IInv, HandlesOK, HandleOK
    <3> QED
      BY <3>3, <3>4, <3>5 DEF IInv, ContextsOK, WriterGone
  <2>3. HandlesStayOpen
    BY DEF IInv, ContextsOK, OpenOK, HandlesStayOpen
  <2>4. DatasetsAreOfTheFile
    <3> SUFFICES ASSUME NEW h \in Handle, NEW r \in Rank, handle[h].stage = "open",
                        memo[r][At(r, h)] # NoContext
                 PROVE  memo[r][At(r, h)] = handle[h].context
      BY DEF DatasetsAreOfTheFile
    <3>1. PICK p \in Path : p = handle[h].path
      BY DEF IInv, HandlesOK, HandleOK
    <3>2. /\ IsOpen(p) /\ table[p].context = handle[h].context
          /\ At(r, h) = Place(r, p) /\ Place(r, p) \in Address
      BY <3>1, OpenPlace
    <3>3. PICK q \in Path : /\ IsOpen(q) /\ table[q].context = memo[r][At(r, h)]
                            /\ Place(r, q) = At(r, h)
      BY <3>2 DEF IInv, MemoOK, RememberedOK
    <3>4. q = p
      BY <3>2, <3>3 DEF IInv, MemoOK, PlacesOK
    <3> QED
      BY <3>2, <3>3, <3>4
  <2> QED
    BY <2>1, <2>2, <2>3, <2>4 DEF HandlesInv, IInv, TypeOK, LostOK
<1> QED
  BY <1>1, Inductive, Losses, PTL

\* When no handle is in use nothing of one is left, opens that failed included.
THEOREM FailuresHoldNothing == Spec => []FailedOpenHoldsNothing
<1>1. IInv => FailedOpenHoldsNothing
  <2> SUFFICES ASSUME IInv, \A h \in Handle : handle[h] = Idle \/ h \in lost
               PROVE  /\ \A p \in Path :
                            IsOpen(p) => table[p].left \/ \E h \in lost : handle[h].path = p
                      /\ \A r \in Rank, a \in Address :
                            memo[r][a] # NoContext => \E p \in Path : table[p].context = memo[r][a]
                      /\ \A c \in live : c.owner \in Scope \cup lost
    BY DEF FailedOpenHoldsNothing
  <2>1. \A h \in Handle : handle[h].stage = "idle" \/ h \in lost
    BY IdleType
  <2>2. ASSUME NEW p \in Path, IsOpen(p), ~\E h \in lost : handle[h].path = p
        PROVE  table[p].left
    <3>1. OpenOn(p) = {}
      BY <2>1, <2>2 DEF OpenOn
    <3>2. Cardinality(OpenOn(p)) = 0
      BY <3>1, FS_EmptySet
    <3>3. /\ table[p].owners \in Nat /\ table[p].owners >= 1
          /\ table[p].owners = 0 + Left(p)
      BY <2>2, <3>2, Numbers DEF IInv, EntriesOK, EntryOK
    <3> QED
      BY <3>3 DEF Left
  <2>3. \A r \in Rank, a \in Address :
            memo[r][a] # NoContext => \E p \in Path : table[p].context = memo[r][a]
    BY DEF IInv, MemoOK, RememberedOK
  <2>4. \A c \in live : c.owner \in Scope \cup lost
    BY <2>1 DEF IInv, ClaimsOK, OfScope, OfHandle, Holding
  <2> QED
    BY <2>2, <2>3, <2>4
<1> QED
  BY <1>1, Inductive, PTL

\* No rank makes a collective HDF5 call that another does not make.
THEOREM CollectivesMeet == Spec => []CollectivesTogether
<1>1. IInv => CollectivesTogether
  BY DEF IInv
<1> QED
  BY <1>1, Inductive, PTL

-----------------------------------------------------------------------------
(* ReadStaging: the inductive invariant *)

\* What a file's buffer, its reservation and the place of its handler are to each
\* other: an idle buffer above Keep has its share of the budget, and one whose
\* share is still to be taken has none.
SizesOK ==
    \A f \in File :
        /\ capacity[f] > 0 <=> buffer[f] # "none"
        /\ reserved[f] = 0 \/ reserved[f] = capacity[f]
        /\ reader[f] = "idle" /\ capacity[f] > Keep => reserved[f] = capacity[f]
        /\ reader[f] = "looping" => reserved[f] = 0
        /\ reader[f] \in {"reading", "settling", "looping"} => capacity[f] > 0

Held == Staging!Units(reserved, File)
CountOK == used = Cardinality(Held)

StInv == Staging!TypeOK /\ SizesOK /\ CountOK /\ Staging!BuffersArePrivate

\* The cardinality of one module is that of the other.
LEMMA SameCardinality == \A S : Staging!Cardinality(S) = Cardinality(S)
BY Zenon DEF Cardinality, Staging!Cardinality

\* What files of bounded sizes hold is finite, and more files hold more.
LEMMA UnitsAreFinite ==
    ASSUME NEW size \in [File -> 0 .. MaxSize], NEW F \in SUBSET File
    PROVE  /\ IsFiniteSet(Staging!Units(size, F))
           /\ Cardinality(Staging!Units(size, F)) \in Nat
           /\ Cardinality(Staging!Units(size, F)) <= Cardinality(Staging!Units(size, File))
<1>1. IsFiniteSet(File \X (1 .. MaxSize))
  <2>1. IsFiniteSet(File) /\ IsFiniteSet(1 .. MaxSize)
    BY StagingAssumption, FS_Interval
  <2> QED BY <2>1, FS_Product
<1>2. /\ Staging!Units(size, F) \subseteq Staging!Units(size, File)
      /\ Staging!Units(size, File) \subseteq File \X (1 .. MaxSize)
  <2>1. \A f \in File : 1 .. size[f] \subseteq 1 .. MaxSize
    BY StagingAssumption
  <2> QED BY <2>1 DEF Staging!Units
<1>3. IsFiniteSet(Staging!Units(size, File))
  BY <1>1, <1>2, FS_Subset
<1>4. /\ IsFiniteSet(Staging!Units(size, F))
      /\ Cardinality(Staging!Units(size, F)) <= Cardinality(Staging!Units(size, File))
  BY <1>2, <1>3, FS_Subset
<1> QED BY <1>4, FS_CardinalityType

\* What a file holds comes on top of what the others hold.
LEMMA Shares ==
    ASSUME NEW size \in [File -> 0 .. MaxSize], NEW f \in File
    PROVE  Cardinality(Staging!Units(size, File)) =
             Cardinality(Staging!Units([size EXCEPT ![f] = 0], File)) + size[f]
<1> DEFINE rest == [size EXCEPT ![f] = 0]
           others == Staging!Units(rest, File)
           own == {f} \X (1 .. size[f])
<1>1. rest \in [File -> 0 .. MaxSize]
  BY StagingAssumption
<1>2. IsFiniteSet(others) /\ Cardinality(others) \in Nat
  BY <1>1, UnitsAreFinite
<1>3. IsFiniteSet(own) /\ Cardinality(own) = size[f]
  <2>1. IsFiniteSet({f}) /\ Cardinality({f}) = 1
    BY FS_Singleton
  <2>2. PICK n \in Nat : n = size[f]
    BY StagingAssumption
  <2>3. IsFiniteSet(1 .. n) /\ Cardinality(1 .. n) = n
    BY FS_Interval
  <2>4. IsFiniteSet({f} \X (1 .. n)) /\ Cardinality({f} \X (1 .. n)) = 1 * n
    <3> DEFINE S == {f}
               T == 1 .. n
    <3>1. IsFiniteSet(S) /\ IsFiniteSet(T) /\ Cardinality(S) = 1 /\ Cardinality(T) = n
      BY <2>1, <2>3
    <3> HIDE DEF S, T
    <3>2. IsFiniteSet(S \X T) /\ Cardinality(S \X T) = Cardinality(S) * Cardinality(T)
      BY <3>1, FS_Product
    <3>3. IsFiniteSet(S \X T) /\ Cardinality(S \X T) = 1 * n
      BY <3>1, <3>2
    <3> QED BY <3>3 DEF S, T
  <2> QED BY <2>2, <2>4
<1>4. Staging!Units(size, File) = others \cup own
  <2>1. \A g \in File : {g} \X (1 .. size[g]) =
          IF g = f THEN own ELSE {g} \X (1 .. rest[g])
    OBVIOUS
  <2>2. {f} \X (1 .. rest[f]) = {}
    OBVIOUS
  <2> QED BY <2>1, <2>2 DEF Staging!Units
<1>5. others \cap own = {}
  <2>1. \A x \in others : \E g \in File : x \in {g} \X (1 .. rest[g])
    BY DEF Staging!Units
  <2>2. \A x \in others : x[1] # f
    BY <2>1
  <2>3. \A x \in own : x[1] = f
    OBVIOUS
  <2> QED BY <2>2, <2>3
<1>6. Cardinality(others \cup own) = Cardinality(others) + size[f]
  <2> HIDE DEF others, own
  <2>1. Cardinality(others \cap own) = 0
    BY <1>5, FS_EmptySet
  <2>2. Cardinality(others \cup own) = Cardinality(others) + Cardinality(own) - Cardinality(others \cap own)
    BY <1>2, <1>3, FS_Union
  <2> QED BY <1>2, <1>3, <2>1, <2>2
<1> QED BY <1>4, <1>6

\* A share given back is counted down.
LEMMA Released ==
    ASSUME StInv, NEW f \in File, Staging!ReleaseReservation(f)
    PROVE  /\ used' \in 0 .. Budget /\ CountOK'
           /\ reserved' \in [File -> 0 .. MaxSize] /\ reserved'[f] = 0
           /\ \A g \in File : g # f => reserved'[g] = reserved[g]
<1>1. /\ reserved \in [File -> 0 .. MaxSize] /\ used \in 0 .. Budget
      /\ reserved' = [reserved EXCEPT ![f] = 0] /\ used' = used - reserved[f]
      /\ used = Cardinality(Held)
  BY DEF StInv, Staging!TypeOK, Staging!ReleaseReservation, CountOK
<1>2. reserved' \in [File -> 0 .. MaxSize]
  BY <1>1, StagingAssumption
<1>3. Held' = Staging!Units(reserved', File)
  BY DEF Held, Staging!Units
<1>4. Cardinality(Held) = Cardinality(Held') + reserved[f] /\ Cardinality(Held') \in Nat
  BY <1>1, <1>2, <1>3, Shares, UnitsAreFinite DEF Held
<1>5. used' = Cardinality(Held')
  BY <1>1, <1>4
<1>6. used' \in 0 .. Budget
  BY <1>1, <1>4, <1>5, StagingAssumption
<1> QED BY <1>1, <1>2, <1>5, <1>6 DEF CountOK

\* At first nothing is allocated.
LEMMA StagingStarts == Staging!Init => StInv
<1> SUFFICES ASSUME Staging!Init PROVE StInv
  OBVIOUS
<1> USE StagingAssumption DEF Staging!Init, Staging!NoBuffer
<1>1. Staging!TypeOK
  <2>1. \A f \in File : retired[f] \in Seq(Buffer)
    OBVIOUS
  <2> QED BY <2>1 DEF Staging!TypeOK, Staging!Reader
<1>2. SizesOK
  BY DEF SizesOK
<1>3. CountOK
  <2>1. Held = {}
    BY DEF Held, Staging!Units
  <2> QED BY <2>1, FS_EmptySet DEF CountOK
<1>4. Staging!BuffersArePrivate
  BY DEF Staging!BuffersArePrivate
<1> QED BY <1>1, <1>2, <1>3, <1>4 DEF StInv

\* What is held depends on the reservations alone.
LEMMA CountStays == ASSUME CountOK, UNCHANGED <<used, reserved>> PROVE CountOK'
BY DEF CountOK, Held, Staging!Units

\* The buffers somebody has: a file, or its worker.
LEMMA AllocatedMeans ==
    \A b : b \in Staging!Allocated <=>
        \E f \in File : b = buffer[f] \/ \E i \in DOMAIN retired[f] : b = retired[f][i]
BY DEF Staging!Allocated, Staging!Range

\* Every step of the handlers, of the workers and of the device keeps the invariant.
LEMMA StagingNext == StInv /\ [Staging!Next]_(Staging!vars) => StInv'
<1> SUFFICES ASSUME StInv, [Staging!Next]_(Staging!vars) PROVE StInv'
  OBVIOUS
<1> USE StagingAssumption
<1>0. /\ Staging!TypeOK /\ SizesOK /\ CountOK /\ Staging!BuffersArePrivate
  BY DEF StInv
<1>1. ASSUME NEW f \in File, NEW need \in 1 .. MaxSize, Staging!Reuse(f, need) PROVE StInv'
  <2>1. Staging!TypeOK'
    BY <1>0, <1>1 DEF Staging!Reuse, Staging!At, Staging!TypeOK, Staging!Reader
  <2>2. SizesOK'
    BY <1>0, <1>1 DEF Staging!Reuse, Staging!At, Staging!TypeOK, SizesOK
  <2>3. CountOK'
    BY <1>0, <1>1, CountStays DEF Staging!Reuse
  <2>4. Staging!BuffersArePrivate'
    BY <1>0, <1>1 DEF Staging!Reuse, Staging!At, Staging!CopyIsOver, Staging!TypeOK,
                      Staging!BuffersArePrivate, Staging!Allocated
  <2> QED BY <2>1, <2>2, <2>3, <2>4 DEF StInv
<1>2. ASSUME NEW f \in File, NEW need \in 1 .. MaxSize, Staging!Grow(f, need) PROVE StInv'
  <2>0. /\ used' \in 0 .. Budget /\ CountOK'
        /\ reserved' \in [File -> 0 .. MaxSize] /\ reserved'[f] = 0
        /\ \A g \in File : g # f => reserved'[g] = reserved[g]
    BY <1>2, Released DEF Staging!Grow
  <2>1. /\ reader[f] \in {"idle", "failed"} /\ capacity[f] < need /\ buffer[f] \notin copying
        /\ UNCHANGED <<seen, copying, retired>>
    BY <1>2 DEF Staging!Grow, Staging!CopyIsOver
  <2>2. PICK b \in Buffer \cup {"none"}, c \in 0 .. MaxSize, place \in {"reading", "failed"} :
          /\ buffer' = [buffer EXCEPT ![f] = b]
          /\ capacity' = [capacity EXCEPT ![f] = c]
          /\ reader' = [reader EXCEPT ![f] = place]
          /\ \/ b \in Staging!Free /\ c = need /\ place = "reading"
             \/ b = "none" /\ c = 0 /\ place = "failed"
    BY <1>2 DEF Staging!Grow, Staging!At, Staging!NoBuffer, Staging!Free
  <2>3. Staging!TypeOK'
    BY <1>0, <2>0, <2>1, <2>2 DEF Staging!TypeOK, Staging!Reader, Staging!NoBuffer
  <2>4. SizesOK'
    BY <1>0, <2>0, <2>1, <2>2 DEF Staging!TypeOK, SizesOK, Staging!Free
  <2>5. Staging!BuffersArePrivate'
    <3>1. b # "none" => b \notin Staging!Allocated /\ b \notin copying
      BY <1>0, <2>2 DEF Staging!Free, Staging!BuffersArePrivate
    <3>2. \A g \in File : g # f => buffer'[g] = buffer[g] /\ reader'[g] = reader[g]
      BY <1>0, <2>2 DEF Staging!TypeOK
    <3>3. buffer'[f] = b /\ reader'[f] = place
      BY <1>0, <2>2 DEF Staging!TypeOK
    <3>4. \A g \in File : reader'[g] = "reading" => buffer'[g] \notin copying
      BY <1>0, <2>2, <3>1, <3>2, <3>3 DEF Staging!BuffersArePrivate, Staging!Free
    <3>5. \A g \in File : g # f /\ buffer[g] # "none" => buffer[g] # b
      BY <2>2, <3>1, AllocatedMeans
    <3>6. \A g, h \in File : g # h /\ buffer'[g] # "none" => buffer'[g] # buffer'[h]
      BY <1>0, <3>2, <3>3, <3>5 DEF Staging!BuffersArePrivate, Staging!NoBuffer
    <3>7. \A x \in copying : \E g \in File : x = buffer'[g] \/ \E i \in DOMAIN retired[g] : x = retired[g][i]
      BY <1>0, <2>1, <3>2, AllocatedMeans DEF Staging!BuffersArePrivate
    <3>8. copying' \subseteq Staging!Allocated'
      BY <2>1, <3>7 DEF Staging!Allocated, Staging!Range
    <3> QED BY <2>1, <3>4, <3>6, <3>8 DEF Staging!BuffersArePrivate, Staging!NoBuffer
  <2> QED BY <2>0, <2>3, <2>4, <2>5 DEF StInv
<1>3. ASSUME NEW f \in File, Staging!Copy(f) PROVE StInv'
  <2>1. Staging!TypeOK'
    BY <1>0, <1>3 DEF Staging!Copy, Staging!At, Staging!TypeOK, Staging!Reader, SizesOK,
                      Staging!NoBuffer
  <2>2. SizesOK'
    BY <1>0, <1>3 DEF Staging!Copy, Staging!At, Staging!TypeOK, SizesOK
  <2>3. CountOK'
    BY <1>0, <1>3, CountStays DEF Staging!Copy
  <2>4. Staging!BuffersArePrivate'
    <3>1. /\ copying' = copying \cup {buffer[f]} /\ buffer[f] # "none"
          /\ UNCHANGED <<buffer, retired>>
      BY <1>0, <1>3 DEF Staging!Copy, SizesOK
    <3>2. \A g \in File : reader'[g] = "reading" => g # f /\ reader[g] = "reading"
      BY <1>0, <1>3 DEF Staging!Copy, Staging!At, Staging!TypeOK
    <3>3. copying' \subseteq Staging!Allocated /\ Staging!Allocated' = Staging!Allocated
      BY <1>0, <3>1 DEF Staging!BuffersArePrivate, Staging!Allocated
    <3> QED BY <1>0, <3>1, <3>2, <3>3 DEF Staging!BuffersArePrivate, Staging!NoBuffer
  <2> QED BY <2>1, <2>2, <2>3, <2>4 DEF StInv
<1>4. ASSUME NEW f \in File, Staging!Settle(f) PROVE StInv'
  <2>1. CASE capacity[f] <= Keep \/ reserved[f] = capacity[f]
    <3>1. /\ reader[f] = "settling" /\ reader' = [reader EXCEPT ![f] = "idle"]
          /\ UNCHANGED <<used, reserved, seen, buffer, capacity, copying, retired>>
      BY <1>4, <2>1 DEF Staging!Settle, Staging!At
    <3>2. Staging!TypeOK'
      BY <1>0, <3>1 DEF Staging!TypeOK, Staging!Reader
    <3>3. SizesOK'
      BY <1>0, <2>1, <3>1 DEF Staging!TypeOK, SizesOK
    <3>4. Staging!BuffersArePrivate'
      BY <1>0, <3>1 DEF Staging!TypeOK, Staging!BuffersArePrivate, Staging!Allocated
    <3> QED BY <1>0, <3>1, <3>2, <3>3, <3>4, CountStays DEF StInv
  <2>2. CASE ~(capacity[f] <= Keep \/ reserved[f] = capacity[f])
    <3>0. /\ used' \in 0 .. Budget /\ CountOK'
          /\ reserved' \in [File -> 0 .. MaxSize] /\ reserved'[f] = 0
          /\ \A g \in File : g # f => reserved'[g] = reserved[g]
      BY <1>4, <2>2, Released DEF Staging!Settle
    <3>1. /\ reader[f] = "settling" /\ reader' = [reader EXCEPT ![f] = "looping"]
          /\ seen' = [seen EXCEPT ![f] = used']
          /\ UNCHANGED <<buffer, capacity, copying, retired>>
      BY <1>4, <2>2 DEF Staging!Settle, Staging!At
    <3>2. Staging!TypeOK'
      BY <1>0, <3>0, <3>1 DEF Staging!TypeOK, Staging!Reader
    <3>3. SizesOK'
      BY <1>0, <3>0, <3>1 DEF Staging!TypeOK, SizesOK
    <3>4. Staging!BuffersArePrivate'
      BY <1>0, <3>1 DEF Staging!TypeOK, Staging!BuffersArePrivate, Staging!Allocated
    <3> QED BY <3>0, <3>2, <3>3, <3>4 DEF StInv
  <2> QED BY <2>1, <2>2
<1>5. ASSUME NEW f \in File, Staging!Reserve(f) PROVE StInv'
  <2>1. CASE used # seen[f]
    <3>1. /\ seen' = [seen EXCEPT ![f] = used]
          /\ UNCHANGED <<used, reserved, reader, buffer, capacity, copying, retired>>
      BY <1>5, <2>1 DEF Staging!Reserve
    <3>2. Staging!TypeOK'
      BY <1>0, <3>1 DEF Staging!TypeOK
    <3>3. SizesOK' /\ Staging!BuffersArePrivate'
      BY <1>0, <3>1 DEF SizesOK, Staging!BuffersArePrivate, Staging!Allocated
    <3> QED BY <1>0, <3>1, <3>2, <3>3, CountStays DEF StInv
  <2>2. CASE used = seen[f]
    <3>1. /\ reader[f] = "looping" /\ seen[f] + capacity[f] <= Budget
          /\ used' = used + capacity[f] /\ reserved' = [reserved EXCEPT ![f] = capacity[f]]
          /\ reader' = [reader EXCEPT ![f] = "idle"]
          /\ UNCHANGED <<seen, buffer, capacity, copying, retired>>
      BY <1>5, <2>2 DEF Staging!Reserve, Staging!Fits, Staging!At
    <3>2. /\ reserved' \in [File -> 0 .. MaxSize] /\ reserved'[f] = capacity[f]
          /\ reserved = [reserved' EXCEPT ![f] = 0]
      BY <1>0, <3>1 DEF Staging!TypeOK, SizesOK
    <3>3. CountOK'
      <4>1. Held' = Staging!Units(reserved', File)
        BY DEF Held, Staging!Units
      <4>2. Cardinality(Held') = Cardinality(Held) + capacity[f]
        BY <3>2, <4>1, Shares DEF Held
      <4> QED BY <1>0, <3>1, <4>2 DEF CountOK
    <3>4. used' \in 0 .. Budget
      BY <1>0, <2>2, <3>1 DEF Staging!TypeOK
    <3>5. Staging!TypeOK'
      BY <1>0, <3>1, <3>2, <3>4 DEF Staging!TypeOK, Staging!Reader
    <3>6. SizesOK'
      BY <1>0, <3>1, <3>2 DEF Staging!TypeOK, SizesOK
    <3>7. Staging!BuffersArePrivate'
      BY <1>0, <3>1 DEF Staging!TypeOK, Staging!BuffersArePrivate, Staging!Allocated
    <3> QED BY <3>3, <3>5, <3>6, <3>7 DEF StInv
  <2> QED BY <2>1, <2>2
<1>6. ASSUME NEW f \in File, Staging!Retire(f) PROVE StInv'
  <2>0. /\ used' \in 0 .. Budget /\ CountOK'
        /\ reserved' \in [File -> 0 .. MaxSize] /\ reserved'[f] = 0
        /\ \A g \in File : g # f => reserved'[g] = reserved[g]
    BY <1>6, Released DEF Staging!Retire
  <2>1. /\ reader[f] = "looping" /\ retired' = [retired EXCEPT ![f] = Append(@, buffer[f])]
        /\ buffer' = [buffer EXCEPT ![f] = "none"] /\ capacity' = [capacity EXCEPT ![f] = 0]
        /\ reader' = [reader EXCEPT ![f] = "idle"] /\ UNCHANGED <<seen, copying>>
    BY <1>6 DEF Staging!Retire, Staging!At, Staging!NoBuffer
  <2>2. buffer[f] \in Buffer
    BY <1>0, <2>1 DEF Staging!TypeOK, SizesOK, Staging!NoBuffer
  <2>3. /\ \A g \in File : retired[g] \in Seq(Buffer)
        /\ \A g \in File : g # f => retired'[g] = retired[g]
        /\ retired'[f] = Append(retired[f], buffer[f])
        /\ retired' \in [File -> Seq(Buffer)]
    BY <1>0, <2>1, <2>2 DEF Staging!TypeOK
  <2>4. Staging!TypeOK'
    BY <1>0, <2>0, <2>1, <2>3 DEF Staging!TypeOK, Staging!Reader, Staging!NoBuffer
  <2>5. SizesOK'
    BY <1>0, <2>0, <2>1 DEF Staging!TypeOK, SizesOK
  <2>6. Staging!BuffersArePrivate'
    <3>1. \A g \in File : buffer'[g] = IF g = f THEN "none" ELSE buffer[g]
      BY <1>0, <2>1 DEF Staging!TypeOK
    <3>2. \A g \in File : /\ reader'[g] = "reading" => g # f /\ reader[g] = "reading"
      BY <1>0, <2>1 DEF Staging!TypeOK
    <3>3. \A g \in File : \A i \in DOMAIN retired[g] :
            i \in DOMAIN retired'[g] /\ retired'[g][i] = retired[g][i]
      <4>1. \A i \in DOMAIN retired[f] :
              i \in DOMAIN retired'[f] /\ retired'[f][i] = retired[f][i]
        <5>1. retired[f] \in Seq(Buffer)
          BY <2>3
        <5> QED BY <5>1, <2>2, <2>3
      <4> QED BY <4>1, <2>3
    <3>4. \E i \in DOMAIN retired'[f] : retired'[f][i] = buffer[f]
      <4>1. /\ Len(retired[f]) + 1 \in DOMAIN retired'[f]
            /\ retired'[f][Len(retired[f]) + 1] = buffer[f]
        BY <2>2, <2>3
      <4> QED BY <4>1
    <3>5. \A x \in copying : \E g \in File :
            x = buffer'[g] \/ \E i \in DOMAIN retired'[g] : x = retired'[g][i]
      <4> SUFFICES ASSUME NEW x \in copying
                   PROVE  \E g \in File : x = buffer'[g] \/ \E i \in DOMAIN retired'[g] : x = retired'[g][i]
        OBVIOUS
      <4>1. PICK g \in File : x = buffer[g] \/ \E i \in DOMAIN retired[g] : x = retired[g][i]
        BY <1>0, AllocatedMeans DEF Staging!BuffersArePrivate
      <4>2. CASE \E i \in DOMAIN retired[g] : x = retired[g][i]
        BY <4>2, <3>3
      <4>3. CASE x = buffer[g] /\ g # f
        BY <4>3, <3>1
      <4>4. CASE x = buffer[g] /\ g = f
        BY <4>4, <3>4
      <4> QED BY <4>1, <4>2, <4>3, <4>4
    <3>6. copying' \subseteq Staging!Allocated'
      BY <2>1, <3>5 DEF Staging!Allocated, Staging!Range
    <3> QED BY <1>0, <2>1, <3>1, <3>2, <3>6 DEF Staging!BuffersArePrivate, Staging!NoBuffer
  <2> QED BY <2>0, <2>4, <2>5, <2>6 DEF StInv
<1>7. ASSUME NEW f \in File, Staging!Closed(f) PROVE StInv'
  <2>0. /\ used' \in 0 .. Budget /\ CountOK'
        /\ reserved' \in [File -> 0 .. MaxSize] /\ reserved'[f] = 0
        /\ \A g \in File : g # f => reserved'[g] = reserved[g]
    BY <1>7, Released DEF Staging!Closed
  <2>1. /\ buffer[f] \notin copying
        /\ buffer' = [buffer EXCEPT ![f] = "none"] /\ capacity' = [capacity EXCEPT ![f] = 0]
        /\ reader' = [reader EXCEPT ![f] = "closed"] /\ UNCHANGED <<seen, copying, retired>>
    BY <1>7 DEF Staging!Closed, Staging!At, Staging!NoBuffer, Staging!CopyIsOver
  <2>2. Staging!TypeOK'
    BY <1>0, <2>0, <2>1 DEF Staging!TypeOK, Staging!Reader, Staging!NoBuffer
  <2>3. SizesOK'
    BY <1>0, <2>0, <2>1 DEF Staging!TypeOK, SizesOK
  <2>4. Staging!BuffersArePrivate'
    <3>1. \A g \in File : buffer'[g] = IF g = f THEN "none" ELSE buffer[g]
      BY <1>0, <2>1 DEF Staging!TypeOK
    <3>2. \A g \in File : /\ reader'[g] = "reading" => g # f /\ reader[g] = "reading"
      BY <1>0, <2>1 DEF Staging!TypeOK
    <3>3. \A x \in copying : \E g \in File : x = buffer'[g] \/ \E i \in DOMAIN retired[g] : x = retired[g][i]
      BY <1>0, <2>1, <3>1, AllocatedMeans DEF Staging!BuffersArePrivate
    <3>4. copying' \subseteq Staging!Allocated'
      BY <2>1, <3>3 DEF Staging!Allocated, Staging!Range
    <3> QED BY <1>0, <2>1, <3>1, <3>2, <3>4 DEF Staging!BuffersArePrivate, Staging!NoBuffer
  <2> QED BY <2>0, <2>2, <2>3, <2>4 DEF StInv
<1>8. ASSUME NEW f \in File, Staging!ReadFails(f) \/ Staging!Close(f) PROVE StInv'
  <2>1. PICK place \in {"failed", "closing"} :
          /\ reader' = [reader EXCEPT ![f] = place]
          /\ UNCHANGED <<buffer, capacity, reserved, used, seen, copying, retired>>
    BY <1>8 DEF Staging!ReadFails, Staging!Close, Staging!At
  <2>2. Staging!TypeOK'
    BY <1>0, <2>1 DEF Staging!TypeOK, Staging!Reader
  <2>3. SizesOK'
    BY <1>0, <2>1 DEF Staging!TypeOK, SizesOK
  <2>4. Staging!BuffersArePrivate'
    <3>1. \A g \in File : reader'[g] = "reading" => reader[g] = "reading"
      BY <1>0, <2>1 DEF Staging!TypeOK
    <3> QED BY <1>0, <2>1, <3>1 DEF Staging!BuffersArePrivate, Staging!Allocated
  <2> QED BY <1>0, <2>1, <2>2, <2>3, <2>4, CountStays DEF StInv
<1>9. ASSUME NEW f \in File, Staging!FreeRetired(f) PROVE StInv'
  <2>1. /\ retired[f] # <<>> /\ Head(retired[f]) \notin copying
        /\ retired' = [retired EXCEPT ![f] = Tail(@)]
        /\ UNCHANGED <<buffer, capacity, reserved, used, reader, seen, copying>>
    BY <1>9 DEF Staging!FreeRetired
  <2>2. /\ retired[f] \in Seq(Buffer) /\ Tail(retired[f]) \in Seq(Buffer)
        /\ retired' \in [File -> Seq(Buffer)] /\ retired'[f] = Tail(retired[f])
        /\ \A g \in File : g # f => retired'[g] = retired[g]
    BY <1>0, <2>1 DEF Staging!TypeOK
  <2>3. Staging!TypeOK' /\ SizesOK'
    BY <1>0, <2>1, <2>2 DEF Staging!TypeOK, SizesOK
  <2>4. \A i \in DOMAIN retired[f] : retired[f][i] \in copying =>
          \E k \in DOMAIN retired'[f] : retired'[f][k] = retired[f][i]
    <3> SUFFICES ASSUME NEW i \in DOMAIN retired[f], retired[f][i] \in copying
                 PROVE  \E k \in DOMAIN retired'[f] : retired'[f][k] = retired[f][i]
      OBVIOUS
    <3>1. i \in 1 .. Len(retired[f]) /\ i # 1
      BY <2>1, <2>2
    <3>2. i - 1 \in DOMAIN Tail(retired[f]) /\ Tail(retired[f])[i - 1] = retired[f][i]
      BY <2>1, <2>2, <3>1
    <3> QED BY <2>2, <3>2
  <2>5. \A x \in copying : \E g \in File : x = buffer[g] \/ \E i \in DOMAIN retired'[g] : x = retired'[g][i]
    <3> SUFFICES ASSUME NEW x \in copying
                 PROVE  \E g \in File : x = buffer[g] \/ \E i \in DOMAIN retired'[g] : x = retired'[g][i]
      OBVIOUS
    <3>1. PICK g \in File : x = buffer[g] \/ \E i \in DOMAIN retired[g] : x = retired[g][i]
      BY <1>0, AllocatedMeans DEF Staging!BuffersArePrivate
    <3>2. CASE g = f
      BY <3>1, <3>2, <2>4
    <3>3. CASE g # f
      BY <3>1, <3>3, <2>2
    <3> QED BY <3>2, <3>3
  <2>6. copying' \subseteq Staging!Allocated'
    BY <2>1, <2>5 DEF Staging!Allocated, Staging!Range
  <2>7. Staging!BuffersArePrivate'
    BY <1>0, <2>1, <2>6 DEF Staging!BuffersArePrivate
  <2> QED BY <1>0, <2>1, <2>3, <2>7, CountStays DEF StInv
<1>10. ASSUME NEW b \in Buffer, Staging!CopyEnds(b) PROVE StInv'
  <2>1. /\ copying' = copying \ {b}
        /\ UNCHANGED <<buffer, capacity, reserved, used, reader, seen, retired>>
    BY <1>10 DEF Staging!CopyEnds
  <2>2. Staging!TypeOK' /\ SizesOK'
    BY <1>0, <2>1 DEF Staging!TypeOK, SizesOK
  <2>3. Staging!BuffersArePrivate'
    BY <1>0, <2>1 DEF Staging!BuffersArePrivate, Staging!Allocated
  <2> QED BY <1>0, <2>1, <2>2, <2>3, CountStays DEF StInv
<1>11. CASE UNCHANGED Staging!vars
  <2>1. UNCHANGED <<buffer, capacity, reserved, used, reader, seen, copying, retired>>
    BY <1>11 DEF Staging!vars
  <2>2. Staging!TypeOK' /\ SizesOK'
    BY <1>0, <2>1 DEF Staging!TypeOK, SizesOK
  <2>3. Staging!BuffersArePrivate'
    BY <1>0, <2>1 DEF Staging!BuffersArePrivate, Staging!Allocated
  <2> QED BY <1>0, <2>1, <2>2, <2>3, CountStays DEF StInv
<1> QED
  BY <1>1, <1>2, <1>3, <1>4, <1>5, <1>6, <1>7, <1>8, <1>9, <1>10, <1>11
     DEF Staging!Next, Staging!Step

\* The budget of the process is what its files hold, to the unit; the idle buffers
\* above Keep of the files whose last read went well fit into it; and no buffer is
\* written under a copy or belongs to two files.
THEOREM StagingIsCounted == Staging!Spec => []StagingInv
<1>1. Staging!Init => StInv
  BY StagingStarts
<1>2. StInv /\ [Staging!Next]_(Staging!vars) => StInv'
  BY StagingNext
<1>3. StInv => StagingInv
  <2> SUFFICES ASSUME StInv PROVE StagingInv
    OBVIOUS
  <2>1. Staging!BudgetIsWhatIsHeld
    BY SameCardinality DEF StInv, CountOK, Held, Staging!BudgetIsWhatIsHeld
  <2>2. Staging!IdleStagingIsBounded
    <3> DEFINE F == Staging!AboveKeep({"idle"})
    <3>1. /\ F \subseteq File /\ \A f \in F : capacity[f] = reserved[f]
          /\ reserved \in [File -> 0 .. MaxSize] /\ used \in 0 .. Budget
      BY DEF StInv, SizesOK, Staging!TypeOK, Staging!AboveKeep
    <3> HIDE DEF F
    <3>2. Staging!Units(capacity, F) = Staging!Units(reserved, F)
      BY <3>1 DEF Staging!Units
    <3>3. Cardinality(Staging!Units(reserved, F)) <= used
      BY <3>1, UnitsAreFinite DEF StInv, CountOK, Held
    <3>4. Cardinality(Staging!Units(capacity, F)) <= Budget
      <4>1. Cardinality(Staging!Units(reserved, F)) \in Nat
        BY <3>1, UnitsAreFinite
      <4> QED BY <3>1, <3>2, <3>3, <4>1, StagingAssumption
    <3> QED BY <3>4, SameCardinality DEF F, Staging!IdleStagingIsBounded
  <2> QED BY <2>1, <2>2 DEF StInv, StagingInv, Staging!StagingInv
<1> QED BY <1>1, <1>2, <1>3, PTL DEF Staging!Spec
=============================================================================
