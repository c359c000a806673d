----------------------------- MODULE FileContexts -----------------------------
(***************************************************************************)
(* The handles of a SlabIO backend from open to close: the claim in        *)
(* hdf5_owner, the table of native contexts in ffi.io, the dataset ids     *)
(* remembered by the address of a context, and h5py users of the same      *)
(* paths (open_scope), which come and go at any time.                      *)
(*                                                                         *)
(* Every rank makes the same calls on handles, so the tables agree and one *)
(* copy (rank 0's, which alone has the claims of the look and of the       *)
(* publication) stands for all; what ranks do not share is the address     *)
(* their allocator gives a context, and what is remembered by it.          *)
(***************************************************************************)
EXTENDS Integers, FiniteSets, Hdf5Owner

CONSTANTS
    N,            \* number of ranks
    Handle,       \* SlabIO handles; each may be opened again once closed
    Scope,        \* h5py users
    Address,      \* heap addresses
    MaxOpens      \* bound: native contexts ever opened

ASSUME NAssumption == N \in Nat \ {0}
ASSUME MaxOpensAssumption == MaxOpens \in Nat
ASSUME AddressAssumption == Cardinality(Address) >= Cardinality(Path)
ASSUME HandleAssumption == IsFiniteSet(Handle)
ASSUME PathAssumption == "none" \notin Path
ASSUME OwnerAssumption == Handle \cup Scope \subseteq Owner /\ Handle \cap Scope = {}

Rank == 0 .. N - 1
Context == 1 .. MaxOpens
NoContext == 0

VARIABLES
    table,       \* _FILE_CTXS (left: by an open that then raised, for the properties)
    opened,      \* native contexts opened so far; context c is the c-th
    address,     \* where each rank's allocator put each live context
    memo,        \* _DS_ID_MEMO of each rank: whose dataset an address stands for
    handle,      \* the SlabIO handles
    scope,       \* the h5py users: the path and mode, or Closed
    lost,        \* the handles whose __init__ raised after the open: nobody can close them
    entered      \* the ranks that made a collective HDF5 call in the last step

vars == <<live, table, opened, address, memo, handle, scope, lost, entered>>

Stage == {"idle", "preflight", "claimed", "native", "open", "released", "publishing"}
Idle == [stage |-> "idle", path |-> "none", mode |-> "r", context |-> NoContext]
NoEntry == [context |-> NoContext, mode |-> "r", owners |-> 0, left |-> FALSE]
Closed == [path |-> "none", mode |-> "r"]

TablesOK ==
    /\ live \subseteq Claims
    /\ table \in [Path -> [context : Context \cup {NoContext}, mode : Mode,
                           owners : 0 .. Cardinality(Handle) + 1, left : BOOLEAN]]
    /\ opened \in 0 .. MaxOpens
    /\ address \in [Rank -> [Context -> Address \cup {"none"}]]
    /\ memo \in [Rank -> [Address -> Context \cup {NoContext}]]
    /\ handle \in [Handle -> [stage : Stage, path : Path \cup {"none"}, mode : Mode,
                              context : Context \cup {NoContext}]]
    /\ scope \in [Scope -> [path : Path \cup {"none"}, mode : Mode]]
    /\ entered \subseteq Rank

TypeOK == TablesOK /\ lost \subseteq Handle

Init ==
    /\ live = {}
    /\ table = [p \in Path |-> NoEntry]
    /\ opened = 0
    /\ address = [r \in Rank |-> [c \in Context |-> "none"]]
    /\ memo = [r \in Rank |-> [a \in Address |-> NoContext]]
    /\ handle = [h \in Handle |-> Idle]
    /\ scope = [s \in Scope |-> Closed]
    /\ lost = {}
    /\ entered = {}

IsOpen(p) == table[p].context # NoContext

-----------------------------------------------------------------------------
(* Users of h5py (open_scope) *)

OpenScope(s, p, m) ==
    /\ scope[s] = Closed /\ ~Refused(p, "h5py", m)
    /\ live' = Claim(p, "h5py", m, s)
    /\ scope' = [scope EXCEPT ![s] = [path |-> p, mode |-> m]]
    /\ entered' = {}
    /\ UNCHANGED <<table, opened, address, memo, handle, lost>>

CloseScope(s) ==
    /\ scope[s] # Closed
    /\ live' = Release(s)
    /\ scope' = [scope EXCEPT ![s] = Closed]
    /\ entered' = {}
    /\ UNCHANGED <<table, opened, address, memo, handle, lost>>

-----------------------------------------------------------------------------
(* Opening a handle.  One thread opens and closes handles. *)

Busy == \E h \in Handle : handle[h].stage \notin {"idle", "open"}
Enter(h, stage) == handle' = [handle EXCEPT ![h].stage = stage]
Abandon(h) == handle' = [handle EXCEPT ![h] = Idle]
SameFiles == UNCHANGED <<table, opened, address, memo, scope, lost>>

\* A writer needs a path without context; an existing file is first looked at
\* through h5py, under a claim.
Open(h, p, m) ==
    /\ ~Busy /\ handle[h] = Idle
    /\ m # "r" => ~IsOpen(p)
    /\ handle' = [handle EXCEPT ![h] = [Idle EXCEPT !.stage = "preflight", !.path = p, !.mode = m]]
    /\ \/ live' = live /\ m # "r"
       \/ live' = Claim(p, "h5py", m, h) /\ m # "w" /\ ~Refused(p, "h5py", m)
    /\ entered' = {}
    /\ SameFiles

\* The look ends, well or with an exception; then the claim of the FFI.
Preflighted(h) ==
    /\ handle[h].stage = "preflight"
    /\ live' = Release(h)
    /\ Enter(h, "claimed") \/ Abandon(h)
    /\ entered' = {}
    /\ SameFiles

\* Mutant of Unclaim: a failed open stays registered.
Unclaim_Never(h) == live' = live

Unclaim(h) == live' = Release(h)

\* note_open for the FFI, between two claims of its own: refused, or granted.
ClaimFile(h) ==
    LET p == handle[h].path  m == handle[h].mode IN
    /\ handle[h].stage = "claimed"
    /\ IF Refused(p, "ffi", m)
         THEN live' = live /\ Abandon(h)
         ELSE live' = Claim(p, "ffi", m, h) /\ Enter(h, "native")
    /\ entered' = {}
    /\ SameFiles

MayShare(h) == handle[h].mode = "r" /\ table[handle[h].path].mode = "r"

\* open_file on a path with a context: readers share it, all else is refused.
ShareContext(h) ==
    LET p == handle[h].path IN
    /\ handle[h].stage = "native" /\ IsOpen(p)
    /\ IF MayShare(h)
         THEN /\ table' = [table EXCEPT ![p].owners = @ + 1]
              /\ handle' = [handle EXCEPT ![h].stage = "open",
                                          ![h].context = table[p].context]
              /\ live' = live
         ELSE Unclaim(h) /\ Abandon(h) /\ UNCHANGED table
    /\ entered' = {}
    /\ UNCHANGED <<opened, address, memo, scope, lost>>

InUse(r) == {address[r][table[p].context] : p \in {q \in Path : IsOpen(q)}}

\* The native collective open: a context at any free address of each rank.
OpenNatively(h) ==
    LET p == handle[h].path  c == opened + 1 IN
    /\ handle[h].stage = "native" /\ ~IsOpen(p) /\ opened < MaxOpens
    /\ \E at \in [Rank -> Address] :
         /\ \A r \in Rank : at[r] \notin InUse(r)
         /\ address' = [r \in Rank |-> [address[r] EXCEPT ![c] = at[r]]]
    /\ opened' = c
    /\ table' = [table EXCEPT ![p] = [context |-> c, mode |-> handle[h].mode, owners |-> 1,
                                        left |-> FALSE]]
    /\ handle' = [handle EXCEPT ![h].stage = "open", ![h].context = c]
    /\ entered' = Rank
    /\ UNCHANGED <<live, memo, scope>>

\* A reader is open then; a writer once its receipt dataset is there and zero.
OpenContext(h) == OpenNatively(h) /\ lost' = lost

\* The creation of the receipt dataset or of its zeros raises, outside both of the
\* guarded blocks of __init__: the claim and the context stay, and the caller has no
\* handle to close.
InitFails(h) ==
    /\ handle[h].mode # "r"
    /\ OpenNatively(h)
    /\ lost' = lost \cup {h}

\* The native open raises.
OpenFails(h) ==
    /\ handle[h].stage = "native" /\ ~IsOpen(handle[h].path)
    /\ Unclaim(h) /\ Abandon(h)
    /\ entered' = Rank
    /\ SameFiles

\* A check after the native open raises (the size of the MPI world): the claim
\* goes, the context stays.
CheckFails(h) ==
    LET p == handle[h].path  c == opened + 1 IN
    /\ handle[h].stage = "native" /\ ~IsOpen(p) /\ opened < MaxOpens
    /\ \E a \in Address :
         /\ \A r \in Rank : a \notin InUse(r)
         /\ address' = [r \in Rank |-> [address[r] EXCEPT ![c] = a]]
    /\ opened' = c
    /\ table' = [table EXCEPT ![p] = [context |-> c, mode |-> handle[h].mode, owners |-> 1,
                                        left |-> TRUE]]
    /\ Unclaim(h) /\ Abandon(h)
    /\ entered' = Rank
    /\ UNCHANGED <<memo, scope, lost>>

-----------------------------------------------------------------------------
(* Reading, and closing *)

At(r, h) == address[r][handle[h].context]

\* _open_dataset_memo: the id remembered for the address of the handle's
\* context, or a collective open of the dataset.
OpenDataset(h) ==
    LET missing == {r \in Rank : memo[r][At(r, h)] = NoContext} IN
    /\ ~Busy /\ handle[h].stage = "open" /\ handle[h].mode = "r"
    /\ memo' = [r \in Rank |-> IF r \in missing
                                 THEN [memo[r] EXCEPT ![At(r, h)] = handle[h].context]
                                 ELSE memo[r]]
    /\ entered' = missing
    /\ UNCHANGED <<live, table, opened, address, handle, scope, lost>>

\* Mutant of Forget: the memo outlives the context.
Forget_Nothing(h) == memo

\* _forget_datasets_for_ctx
Forget(h) == [r \in Rank |-> [memo[r] EXCEPT ![At(r, h)] = NoContext]]

\* The entry after one owner has gone.
Leaves(p) == IF table[p].owners > 1 THEN [table[p] EXCEPT !.owners = @ - 1] ELSE NoEntry

\* close_file: the last owner forgets the datasets and closes the context,
\* which is collective.
CloseContext(h) ==
    LET p == handle[h].path IN
    /\ ~Busy /\ handle[h].stage = "open" /\ h \notin lost
    /\ table' = [table EXCEPT ![p] = Leaves(p)]
    /\ IF Leaves(p) = NoEntry
         THEN memo' = Forget(h) /\ entered' = Rank
         ELSE memo' = memo /\ entered' = {}
    /\ Enter(h, "released")
    /\ UNCHANGED <<live, opened, address, scope, lost>>

\* note_close; a writer then goes on to publish.
ReleaseFile(h) ==
    LET m == handle[h].mode IN
    /\ handle[h].stage = "released"
    /\ Unclaim(h)
    /\ IF m = "r" THEN Abandon(h) ELSE Enter(h, "publishing")
    /\ entered' = {}
    /\ SameFiles

HoldsPublication(h) == \E c \in live : c.owner = h /\ c.stack = "h5py"

\* The publication reopens the file through h5py, under a claim ...
Publish(h) ==
    LET p == handle[h].path IN
    /\ handle[h].stage = "publishing" /\ ~HoldsPublication(h)
    /\ IF Refused(p, "h5py", "a")
         THEN live' = live /\ Abandon(h)
         ELSE live' = Claim(p, "h5py", "a", h) /\ UNCHANGED handle
    /\ entered' = {}
    /\ SameFiles

\* ... and releases it, having written or not.
Published(h) ==
    /\ handle[h].stage = "publishing" /\ HoldsPublication(h)
    /\ live' = Release(h) /\ Abandon(h)
    /\ entered' = {}
    /\ SameFiles

-----------------------------------------------------------------------------
Next ==
    \/ \E s \in Scope, p \in Path, m \in Mode : OpenScope(s, p, m)
    \/ \E s \in Scope : CloseScope(s)
    \/ \E h \in Handle, p \in Path, m \in Mode : Open(h, p, m)
    \/ \E h \in Handle :
         \/ Preflighted(h) \/ ClaimFile(h) \/ ShareContext(h) \/ OpenContext(h)
         \/ OpenFails(h) \/ CheckFails(h) \/ InitFails(h) \/ OpenDataset(h) \/ CloseContext(h)
         \/ ReleaseFile(h) \/ Publish(h) \/ Published(h)

Spec == Init /\ [][Next]_vars

-----------------------------------------------------------------------------
\* What really is open on a path, whatever the registry says.
Used(p) == \E h \in Handle : handle[h].context = table[p].context
NativeModes(p) ==
    IF IsOpen(p) /\ (Used(p) \/ ~table[p].left) THEN {table[p].mode} ELSE {}
H5pyModes(p) ==
    {scope[s].mode : s \in {t \in Scope : scope[t].path = p}}
    \cup {handle[h].mode : h \in {g \in Handle : handle[g].path = p /\ handle[g].stage = "preflight"
                                                 /\ \E c \in live : c.owner = g}}
    \cup {"a" : h \in {g \in Handle : handle[g].path = p /\ handle[g].stage = "publishing"
                                      /\ HoldsPublication(g)}}

\* At most one HDF5 library has a path open when either side can write
\* (hdf5_owner's rule), over handles that are really open, not over claims.  A
\* context an open left behind when it raised counts once a handle shares it.
OneLibraryWhenWriting ==
    \A p \in Path : \A m \in NativeModes(p), k \in H5pyModes(p) : m = "r" /\ k = "r"

\* When no handle is in use nothing of one is left: no context, no remembered
\* dataset, no claim that would refuse a later open.  Failed opens included:
\* "an open that failed holds nothing" (_FfiBackend.__init__).  There are two
\* exceptions (README, D6): an open that raised in a check after its native open
\* leaves its context, and one that raised at its receipt its context and its claim.
FailedOpenHoldsNothing ==
    (\A h \in Handle : handle[h] = Idle \/ h \in lost)
      => /\ \A p \in Path : IsOpen(p) => table[p].left \/ \E h \in lost : handle[h].path = p
         /\ \A r \in Rank, a \in Address :
                memo[r][a] # NoContext => \E p \in Path : table[p].context = memo[r][a]
         /\ \A c \in live : c.owner \in Scope \cup lost

\* A handle's context is there as long as the handle: sharing readers do not
\* close it under each other (close_file).
HandlesStayOpen ==
    \A h \in Handle : handle[h].stage = "open" => table[handle[h].path].context = handle[h].context

\* A dataset id found by the address of a context is of that context, though
\* addresses come back (_forget_datasets_for_ctx).
DatasetsAreOfTheFile ==
    \A h \in Handle, r \in Rank :
      handle[h].stage = "open" => memo[r][At(r, h)] \in {NoContext, handle[h].context}

\* The ranks make the same collective calls, though each has its own addresses:
\* a rank that found an id the others open would leave them waiting.
CollectivesTogether == entered \in {{}, Rank}

\* The publication that ends a writing session is never refused by the registry:
\* its own FFI claim is gone, and nobody else could get one before it.
PublicationAdmitted ==
    \A h \in Handle : handle[h].stage = "publishing" => ~Refused(handle[h].path, "h5py", "a")

\* What holds of every handle in use, together: its context, its datasets and
\* the registry's word on its path are those of the file it opened.
HandlesInv ==
    /\ TypeOK /\ OneLibraryWhenWriting /\ PublicationAdmitted
    /\ HandlesStayOpen /\ DatasetsAreOfTheFile
=============================================================================
