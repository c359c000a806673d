------------------------------ MODULE MpaStore ------------------------------
(***************************************************************************)
(* gw/mpa: the multipole build that every rank walks together -- chi and   *)
(* Wc sampled slab by slab into one store, the poles fitted block by block *)
(* into another, the scalar head, COMPLETE -- killed anywhere and started  *)
(* again (gw/mpa/model.py, gw/mpa/fit_driver.py, file_io/mpa_store.py,     *)
(* file_io/restart_bundle.py).                                             *)
(*                                                                         *)
(* A rank's program is a sequence of steps; what it reads from a file      *)
(* decides what it does next.  A step is a serial read by every rank, a    *)
(* serial write by rank 0, a collective open, transfer or close, or a      *)
(* barrier.  The two HDF5 libraries know nothing of each other, and a      *)
(* rank's registry knows only its own handles: only barriers keep a rank's *)
(* reader from another's writer.  Dynamic heads (the q0 channel, QSGW) and *)
(* ordered residues add reads and components of the same two shapes.       *)
(***************************************************************************)
EXTENDS Integers, Sequences, FiniteSets

CONSTANTS
    Ranks, Zero,    \* the processes, and the one that edits
    Freqs, Blocks,  \* how many frequencies, how many column blocks
    Epoch,          \* blocks between two commits of the ledger
    Legs            \* starts of the job

VARIABLES
    disk,       \* the sample store and the fit store
    where,      \* how far each rank's program is
    using,      \* how each rank holds each file
    fate,       \* how each rank's leg ended, or "running"
    leg, overwrite, bad    \* the start, the deck's key, the blocks no fit passes

vars == <<disk, where, using, fate, leg, overwrite, bad>>

Slabs == {"chi", "wc"} \X (1..Freqs)

\* A file may be there and hold nothing yet; until its superblock is on the disk no
\* library opens it.  A file that holds no receipt counts as committed.
NoSample == [there |-> FALSE, sound |-> FALSE,
             comps |-> [c \in {"chi", "wc"} |-> "none"], committed |-> TRUE,
             slabs |-> [s \in Slabs |-> 0], ready |-> {}]
NoFit == [there |-> FALSE,
          state |-> "none", committed |-> TRUE, poles |-> [b \in 1..Blocks |-> 0],
          done |-> {}, journal |-> {}, condition |-> {}, backward |-> {},
          head |-> "none", headData |-> FALSE, receipt |-> "none",
          complete |-> FALSE, certified |-> FALSE]
NoFile == [sample |-> NoSample, fit |-> NoFit]

-----------------------------------------------------------------------------
(* The programs.  A rank is somewhere in one of the parts of the build, each  *)
(* a straight sequence of steps; `left` is what the part's loop has still to  *)
(* walk, `put` the blocks the open epoch has still to transfer.               *)

Place(part, left, put) == [part |-> part, left |-> left, put |-> put, at |-> 1]
Build == Place("start", {}, {})

Step(op, f, do, a) == [op |-> op, file |-> f, do |-> do, arg |-> a]
Meet == Step("meet", "none", "none", {})
Read(f, do, a) == Step("read", f, do, a)
Root(f, do, a) == Step("root", f, do, a)

\* SlabIO: rank 0 prepares the file before any rank opens it, and after every
\* rank has closed it publishes the metadata and the receipt, then all meet.
Prepared(f, mode) ==
    Root(f, CASE mode = "w" -> "unlink" [] mode = "a" -> "begin" [] OTHER -> "check", {})
Opened(f, mode) == Step("open", f, mode, {})
Put(f, do, a) == Step("put", f, do, a)
Closed(f) == Step("close", f, "none", {})
Publish(f) == Root(f, "publish", {})

Least(ns) == CHOOSE n \in ns : \A m \in ns : n <= m

\* The components in order; "new" with them says that the first creates the file.
Comp(left) == IF "chi" \in left THEN "chi" ELSE "wc"
AllocateW(left) ==
    LET c == Comp(left)
        mode == IF "new" \in left THEN "w" ELSE "a"
    IN  <<Meet, Prepared("sample", mode), Opened("sample", mode), Put("sample", "create", c),
          Closed("sample"), Publish("sample"), Meet, Root("sample", "stamp", c)>>

\* The slabs in order: every frequency of chi, then every frequency of Wc.
Slab(left) ==
    LET c == IF \E i \in 1..Freqs : <<"chi", i>> \in left THEN "chi" ELSE "wc"
    IN  <<c, Least({i \in 1..Freqs : <<c, i>> \in left})>>
\* Wc is solved from a ready chi, which a session of readers loads.
CheckW(s) ==
    IF s[1] = "chi" THEN <<Meet, Read("sample", "unready", s)>>
    ELSE <<Meet, Read("sample", "load", <<"chi", s[2]>>), Prepared("sample", "r"),
           Opened("sample", "r"), Closed("sample"), Read("sample", "unready", s)>>
\* Mutant: a slab is marked before its transfer.
WriteW_MarkFirst(s) ==
    <<Meet, Root("sample", "mark", s), Meet, Prepared("sample", "a"), Opened("sample", "a"),
      Put("sample", "slab", s), Closed("sample"), Publish("sample"), Meet>>
WriteW(s) ==
    <<Meet, Prepared("sample", "a"), Opened("sample", "a"), Put("sample", "slab", s),
      Closed("sample"), Publish("sample"), Meet, Meet, Root("sample", "mark", s)>>

AllocateFit ==
    <<Meet, Prepared("fit", "w"), Opened("fit", "w"), Put("fit", "allocate", {}),
      Closed("fit"), Publish("fit"), Meet, Meet, Root("fit", "initialise", {}), Meet,
      Read("fit", "ledger", {})>>

\* The next epoch, and the blocks of it that come before one no fit passes.
Few(left) == {b \in left : Cardinality({x \in left : x < b}) < Epoch}
Whole(e) == {b \in e : \A x \in bad : b < x}
EnterEpoch ==
    <<Meet, Read("fit", "writer", {}), Meet, Prepared("fit", "a"), Opened("fit", "a"),
      Prepared("sample", "r"), Opened("sample", "r")>>
\* Mutant: the ledger is read back without waiting for rank 0's commit.
LeaveEpoch_Hasty(e, last) ==
    <<Closed("sample"), Closed("fit"), Publish("fit"), Meet, Meet,
      Root("fit", "commit", e), Read("fit", "closed", last)>>
LeaveEpoch(e, last) ==
    <<Closed("sample"), Closed("fit"), Publish("fit"), Meet, Meet,
      Root("fit", "commit", e), Meet, Read("fit", "closed", last)>>
Abort ==
    <<Closed("sample"), Closed("fit"), Publish("fit"), Meet, Meet,
      Read("fit", "aborted", {}), Meet, Step("raise", "none", "none", {})>>

\* Mutant: a start walks the whole schedule, done or not.
Pending_All(done) == 1..Blocks
Pending(done) == (1..Blocks) \ done
FitBody ==
    <<Meet, Meet, Read("fit", "body", {}), Meet, Root("fit", "stage", {}),
      Root("fit", "receipt", {}), Meet, Meet, Read("fit", "head", {})>>
WriteHead ==
    <<Meet, Root("fit", "headGroup", {}), Meet, Prepared("fit", "a"), Opened("fit", "a"),
      Closed("fit"), Publish("fit"), Meet, Meet, Root("fit", "headReady", {})>>
Finalize == <<Meet, Root("fit", "finalize", {}), Meet>>

Steps(w) ==
    CASE w.part = "start"       -> <<Read("fit", "protected", {}), Read("sample", "prepare", {})>>
      [] w.part = "allocate"    -> AllocateW(w.left)
      [] w.part = "headers"     -> <<Meet, Read("sample", "headers", {})>>
      [] w.part = "check"       -> CheckW(Slab(w.left))
      [] w.part = "write"       -> WriteW(Slab(w.left))
      [] w.part = "validate"    -> <<Meet, Read("fit", "validate", {})>>
      [] w.part = "resume"      -> <<Meet>>
      [] w.part = "allocateFit" -> AllocateFit
      [] w.part = "epoch"       -> EnterEpoch
      [] w.part = "block"       -> <<Put("fit", "block", Least(w.put))>>
      [] w.part = "commit"      -> LeaveEpoch(Few(w.left), Few(w.left) = w.left)
      [] w.part = "abort"       -> Abort
      [] w.part = "body"        -> FitBody
      [] w.part = "head"        -> WriteHead
      [] w.part = "finalize"    -> Finalize
      [] w.part = "end"         -> <<Step("return", "none", "none", {})>>

Usable(c) ==
    /\ c.state = "stamped" /\ ~c.complete /\ c.done = c.journal
    /\ Cardinality(c.condition) = Cardinality(c.journal)
    /\ Cardinality(c.backward) = Cardinality(c.journal)

\* A partial sample store that cannot be resumed: nothing opens it, or a component has
\* no stamp.
Incompatible(c) == (c.there /\ ~c.sound) \/ \E k \in DOMAIN c.comps : c.comps[k] = "bare"

\* What a rank refuses on reading the file's content c ...
Refuses(s, c) ==
    CASE s.do = "protected" -> ~overwrite /\ c.complete /\ c.certified
      [] s.do = "prepare"  -> ~overwrite /\ Incompatible(c)
      [] s.do = "unready"  -> s.arg \in c.ready
      [] s.do = "load"     -> s.arg \notin c.ready
      [] s.do = "validate" -> ~overwrite /\ c.there /\ ~Usable(c)
      [] s.do = "writer"   -> c.complete
      [] s.do = "closed"   -> s.arg /\ c.done # 1..Blocks
      [] s.do = "head"     -> c.complete \/ c.done # 1..Blocks
      [] OTHER             -> FALSE

\* ... and the part it does next, d the files when it ends this one.
Prepare(c) ==
    LET fresh == Incompatible(c) \/ ~c.there IN
    {k \in {"chi", "wc"} : fresh \/ c.comps[k] = "none"}
        \cup IF fresh THEN {"new"} ELSE {}
Allocating(left) ==
    IF left = {} THEN Place("headers", {}, {}) ELSE Place("allocate", left, {})
Sampling(left) ==
    IF left = {} THEN Place("validate", {}, {}) ELSE Place("check", left, {})
Fitting(left) ==
    IF left = {} THEN Place("body", {}, {}) ELSE Place("epoch", left, {})
Putting(left, put) ==
    IF put # {} THEN Place("block", left, put)
    ELSE Place(IF Whole(Few(left)) = Few(left) THEN "commit" ELSE "abort", left, {})
After(w, d) ==
    CASE w.part = "start"       -> Allocating(Prepare(d.sample))
      [] w.part = "allocate"    -> Allocating(w.left \ {Comp(w.left), "new"})
      [] w.part = "headers"     -> Sampling(Slabs \ d.sample.ready)
      [] w.part = "check"       -> Place("write", w.left, {})
      [] w.part = "write"       -> Sampling(w.left \ {Slab(w.left)})
      [] w.part = "validate"    -> IF Usable(d.fit) THEN Place("resume", Pending(d.fit.done), {})
                                   ELSE Place("allocateFit", {}, {})
      [] w.part = "resume"      -> Fitting(w.left)
      [] w.part = "allocateFit" -> Fitting(Pending(d.fit.done))
      [] w.part = "epoch"       -> Putting(w.left, Whole(Few(w.left)))
      [] w.part = "block"       -> Putting(w.left, w.put \ {Least(w.put)})
      [] w.part = "commit"      -> Fitting(w.left \ Few(w.left))
      [] w.part = "body"        -> Place(IF d.fit.head = "ready" THEN "finalize" ELSE "head", {}, {})
      [] w.part = "head"        -> Place("finalize", {}, {})
      [] w.part = "finalize"    -> Place("end", {}, {})
Onward(w, d) ==
    IF w.at < Len(Steps(w)) THEN [w EXCEPT !.at = @ + 1] ELSE After(w, d)

-----------------------------------------------------------------------------
(* What a write changes; d is the file before it. *)

\* _publish_metadata: the queued attributes, then the receipt.
Published(f, d) ==
    IF f = "fit" /\ d.head = "unready"
    THEN [committed |-> TRUE, headData |-> TRUE] ELSE [committed |-> TRUE]
Marked(slab, d) == [ready |-> d.ready \cup {slab}]
Committed(e, d) ==
    [done |-> d.done \cup e, journal |-> d.journal \cup e,
     condition |-> d.condition \cup e, backward |-> d.backward \cup e]
\* A receipt already there is the one that stays.
Staged(d) == [receipt |-> IF d.receipt = "ready" THEN "ready" ELSE "unready"]
Finalized == [complete |-> TRUE, certified |-> TRUE]

Changes(s, d) ==
    CASE s.do = "unlink"     -> NoFile[s.file]
      [] s.do = "begin"      -> [committed |-> FALSE]
      [] s.do = "publish"    -> Published(s.file, d)
      [] s.do = "create"     -> [there |-> TRUE, sound |-> TRUE, committed |-> FALSE,
                                 comps |-> [d.comps EXCEPT ![s.arg] = "bare"]]
      [] s.do = "stamp"      -> [comps |-> [d.comps EXCEPT ![s.arg] = "stamped"]]
      [] s.do = "slab"       -> [slabs |-> [d.slabs EXCEPT ![s.arg] = @ + 1]]
      [] s.do = "mark"       -> Marked(s.arg, d)
      [] s.do = "allocate"   -> [there |-> TRUE, state |-> "bare", committed |-> FALSE]
      [] s.do = "initialise" -> [state |-> "stamped"]
      [] s.do = "block"      -> [poles |-> [d.poles EXCEPT ![s.arg] = @ + 1]]
      [] s.do = "commit"     -> Committed(s.arg, d)
      [] s.do = "stage"      -> Staged(d)
      [] s.do = "receipt"    -> [receipt |-> "ready"]
      [] s.do = "headGroup"  -> [head |-> "unready", headData |-> FALSE]
      [] s.do = "headReady"  -> [head |-> "ready"]
      [] s.do = "finalize"   -> Finalized
      [] OTHER               -> [f \in {} |-> {}]

Land(s, fields) ==
    [disk EXCEPT ![s.file] = [f \in DOMAIN @ |-> IF f \in fields THEN Changes(s, @)[f] ELSE @[f]]]

\* A kill leaves any part of a write that was not yet flushed: the metadata
\* attributes are flushed before the receipt, an inode goes as a whole, and a new one
\* (the collective open made it; nobody looks before the first dataset) holds nothing
\* until it can be opened.
Inode == {"there", "sound"}
PartOf(s) ==
    LET whole == DOMAIN Changes(s, disk[s.file]) IN
    CASE s.do = "unlink"  -> {{}, whole}
      [] s.do = "publish" -> {{}, whole \ {"committed"}, whole}
      [] s.do \in {"create", "allocate"} ->
            {f \in SUBSET whole : f \subseteq {"there"} \/ Inode \cap whole \subseteq f}
      [] OTHER            -> SUBSET whole

-----------------------------------------------------------------------------

Free == [sample |-> "none", fit |-> "none"]
Init ==
    /\ disk = NoFile /\ leg = 1
    /\ where = [r \in Ranks |-> Build]
    /\ using = [r \in Ranks |-> Free]
    /\ fate = [r \in Ranks |-> "running"]
    /\ overwrite \in BOOLEAN /\ bad \in {{}, {Blocks}}

Now(r) == Steps(where[r])[where[r].at]
At(r, op) == fate[r] = "running" /\ Now(r).op = op
Pass(r) == where' = [where EXCEPT ![r] = Onward(@, disk)]
PassAll == where' = [r \in Ranks |-> Onward(where[r], disk)]
Hold(r, how) == using' = [using EXCEPT ![r][Now(r).file] = how]

End(r, how) == fate' = [fate EXCEPT ![r] = how] /\ UNCHANGED where

\* A serial h5py open, by any rank to read and by rank 0 to write.
Open(r) ==
    /\ At(r, "read") \/ (At(r, "root") /\ r = Zero)
    /\ using[r][Now(r).file] = "none"
    /\ Hold(r, IF Now(r).op = "read" \/ Now(r).do = "check" THEN "reading" ELSE "editing")
    /\ UNCHANGED <<disk, where, fate, leg, overwrite, bad>>

CloseReader(r) ==
    /\ At(r, "read") /\ using[r][Now(r).file] = "reading"
    /\ Hold(r, "none")
    /\ IF Refuses(Now(r), disk[Now(r).file])
       THEN End(r, "refused")
       ELSE Pass(r) /\ UNCHANGED fate
    /\ UNCHANGED <<disk, leg, overwrite, bad>>

\* Rank 0's transaction: an uncommitted file refuses a new session.
CloseEditor ==
    /\ At(Zero, "root") /\ using[Zero][Now(Zero).file] # "none"
    /\ Hold(Zero, "none")
    /\ IF Now(Zero).do \in {"begin", "check"} /\ ~disk[Now(Zero).file].committed
       THEN End(Zero, "uncommitted") /\ UNCHANGED disk
       ELSE /\ disk' = Land(Now(Zero), DOMAIN Changes(Now(Zero), disk[Now(Zero).file]))
            /\ Pass(Zero) /\ UNCHANGED fate
    /\ UNCHANGED <<leg, overwrite, bad>>

Leave(r) ==
    /\ At(r, "root") /\ r # Zero /\ Pass(r)
    /\ UNCHANGED <<disk, using, fate, leg, overwrite, bad>>

\* The others hear at the open what rank 0 found.
HearRefusal(r) ==
    /\ At(r, "open") /\ fate[Zero] = "uncommitted" /\ End(r, "uncommitted")
    /\ UNCHANGED <<disk, using, leg, overwrite, bad>>

Together(op) == \A r \in Ranks : At(r, op)

OpenNative ==
    /\ Together("open") /\ PassAll
    /\ using' = [r \in Ranks |-> [using[r] EXCEPT ![Now(r).file] =
                    IF Now(r).do = "r" THEN "nativeR" ELSE "nativeA"]]
    /\ UNCHANGED <<disk, fate, leg, overwrite, bad>>
Transfer ==
    /\ Together("put") /\ PassAll
    /\ disk' = Land(Now(Zero), DOMAIN Changes(Now(Zero), disk[Now(Zero).file]))
    /\ UNCHANGED <<using, fate, leg, overwrite, bad>>
CloseNative ==
    /\ Together("close") /\ PassAll
    /\ using' = [r \in Ranks |-> [using[r] EXCEPT ![Now(r).file] = "none"]]
    /\ UNCHANGED <<disk, fate, leg, overwrite, bad>>
Barrier ==
    /\ Together("meet") /\ PassAll
    /\ UNCHANGED <<disk, using, fate, leg, overwrite, bad>>

Return(r) ==
    /\ At(r, "return") /\ End(r, "done")
    /\ UNCHANGED <<disk, using, leg, overwrite, bad>>
Raise(r) ==
    /\ At(r, "raise") /\ End(r, "failed")
    /\ UNCHANGED <<disk, using, leg, overwrite, bad>>

\* A kill, or the next start after an end: every rank begins again.
Again ==
    /\ leg < Legs /\ leg' = leg + 1
    /\ where' = [r \in Ranks |-> Build]
    /\ using' = [r \in Ranks |-> Free]
    /\ fate' = [r \in Ranks |-> "running"]
    /\ UNCHANGED <<overwrite, bad>>
Kill ==
    /\ \E r \in Ranks : fate[r] = "running"
    /\ Again
    /\ IF At(Zero, "put") \/ (At(Zero, "root") /\ using[Zero][Now(Zero).file] # "none")
       THEN \E fields \in PartOf(Now(Zero)) : disk' = Land(Now(Zero), fields)
       ELSE UNCHANGED disk
Restart ==
    /\ \A r \in Ranks : fate[r] # "running"
    /\ Again /\ UNCHANGED disk

RankStep(r) ==
    \/ Open(r) \/ CloseReader(r) \/ Leave(r) \/ HearRefusal(r) \/ Return(r) \/ Raise(r)
Work ==
    \/ \E r \in Ranks : RankStep(r)
    \/ CloseEditor \/ OpenNative \/ Transfer \/ CloseNative \/ Barrier
Next == Work \/ Kill \/ Restart

\* A live process executes its next step.
Spec == Init /\ [][Next]_vars /\ WF_vars(Work)

-----------------------------------------------------------------------------

\* Every file, handle and fate is one the code can produce.
TypeOK ==
    /\ disk.sample.ready \subseteq Slabs /\ disk.sample.committed \in BOOLEAN
    /\ disk.fit.state \in {"none", "bare", "stamped"}
    /\ disk.fit.done \cup disk.fit.journal \subseteq 1..Blocks
    /\ disk.fit.head \in {"none", "unready", "ready"}
    /\ using \in [Ranks -> [{"sample", "fit"} ->
                {"none", "reading", "editing", "nativeR", "nativeA"}]]
    /\ fate \in [Ranks -> {"running", "done", "refused", "failed", "uncommitted"}]
    /\ leg \in 1..Legs

\* Nobody reads a file another rank writes, serially or collectively, and
\* nobody edits one that another rank holds through the other library: the
\* barriers of mpa_store.py and fit_driver.py suffice, at every pace of the ranks.
OwnershipIsHandedOver ==
    \A r, s \in Ranks, f \in {"sample", "fit"} :
        r # s => /\ using[r][f] = "editing" => using[s][f] = "none"
                 /\ using[r][f] = "nativeA" => using[s][f] \in {"none", "nativeA"}

\* A ledger never certifies bytes that are not on disk: what is marked ready
\* or done was wholly written, Wc only from a ready chi, a ready head only
\* with its payload (_mark_w_slab_ready, _commit_fit_blocks, the head's ready).
MarkedIsWritten ==
    /\ \A s \in disk.sample.ready :
        disk.sample.slabs[s] > 0 /\ <<"chi", s[2]>> \in disk.sample.ready
    /\ \A b \in disk.fit.done \cup disk.fit.journal : disk.fit.poles[b] > 0
    /\ disk.fit.head = "ready" => disk.fit.headData

\* COMPLETE says that everything is there: every block with its diagnostics,
\* a ready head, the receipt of the attempt, and the samples they came from.
CompleteIsWhole ==
    disk.fit.complete =>
        /\ disk.fit.done = 1..Blocks /\ disk.fit.journal = disk.fit.done
        /\ disk.fit.condition = disk.fit.done /\ disk.fit.backward = disk.fit.done
        /\ disk.fit.head = "ready" /\ disk.fit.receipt = "ready"

\* No block or slab the ledger holds is written again, no matter how often the
\* job is killed and started: only the deck's overwrite key lets a store be
\* replaced (the write-once refusals, mpa_overwrite_completed_artifacts).
CommittedIsWriteOnce ==
    [][~overwrite =>
        /\ \A s \in disk.sample.ready :
            s \in disk'.sample.ready /\ disk'.sample.slabs[s] = disk.sample.slabs[s]
        /\ \A b \in disk.fit.done :
            b \in disk'.fit.done /\ disk'.fit.poles[b] = disk.fit.poles[b]
        /\ disk.fit.complete => disk'.fit = disk.fit]_vars

\* Every start that nobody kills ends, on every rank alike.
JobEnds == <>[](\A r \in Ranks : fate[r] # "running" /\ fate[r] = fate[Zero])

\* docs/input_reference.md: "a compatible interrupted run resumes its ready
\* slabs and committed fit ranges": SlabIO's receipt turns no start away from
\* stores that hold any.  It does not hold (README,
\* "Divergences").
InterruptedResumes ==
    (\E r \in Ranks : fate[r] = "uncommitted") =>
        disk.sample.ready = {} /\ disk.fit.done = {}

\* finalize_fit_store: "A store that cannot be validated must not be
\* finalizable": a complete store carries its certification.  It does not hold (README,
\* "Divergences").
CompleteIsCertified == disk.fit.complete => disk.fit.certified

\* The stores and who holds them together: one owner at a time, no mark before
\* its bytes, no completion before its parts.
MpaInv == TypeOK /\ OwnershipIsHandedOver /\ MarkedIsWritten /\ CompleteIsWhole
=============================================================================
