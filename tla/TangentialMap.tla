--------------------------- MODULE TangentialMap ---------------------------
(***************************************************************************)
(* gw/tangential_screening.py: the directory of one tangential map (bank,  *)
(* receipts, model, head) and its membership in the restart bundle, over   *)
(* several processes each of which may be killed between any two writes.   *)
(* A process keeps of the directory what authenticates for its own         *)
(* operator, refuses a complete model that does not, and rebuilds the      *)
(* rest.  The scalar route; decisions are rank zero's and heard by all     *)
(* (rank0_transaction, AtomicPublish), so a process is one actor.          *)
(*                                                                         *)
(* An operator is what a model is of: the state identity with its recipe   *)
(* (id) and the bare interaction's digest (v), which the identity omits.   *)
(***************************************************************************)
EXTENDS Naturals

CONSTANTS
    None, Torn,
    Ids,         \* identities of the state, recipe included
    Vs,          \* digests of the bare interaction
    MapLegs      \* bound: processes

VARIABLES
    sc,          \* the label is a self-consistency map's, not a one-shot run's
    headed,      \* the deck asks for the head correction
    dir,         \* the map's directory
    bundle,      \* the ISDF restart bundle: ready, the V in it, its member
    export,      \* the files of write_poles and write_w: operator and state
    map,         \* the process, and where it is
    mapLeg       \* processes started

vars == <<sc, headed, dir, bundle, export, map, mapLeg>>

Operator == [id : Ids, v : Vs]
Kind == {"poles", "w"}
File == {"bank", "bankReceipt", "moments", "model", "head"}
Empty == [f \in File |-> None]

Init ==
    /\ sc \in BOOLEAN /\ headed \in BOOLEAN
    /\ dir = Empty /\ bundle = None /\ export = [k \in Kind |-> None]
    /\ map = None /\ mapLeg = 0

-----------------------------------------------------------------------------
\* The process.

Goes(at) == map' = [map EXCEPT !.at = at]
Leaves == map' = None

\* A fresh run that persists writes the bundle (write_restart_tensors, which its
\* member is registered by as well); a restart reads V from a committed one.
Start(op, restart, write, persist) ==
    /\ map = None /\ mapLeg < MapLegs
    /\ restart => bundle # None /\ bundle.ready /\ bundle.v = op.v
    /\ map' = [op |-> op, restart |-> restart, write |-> write, persist |-> persist,
               at |-> IF ~restart /\ persist THEN "bundle"
                      ELSE IF ~restart \/ sc THEN "prepare" ELSE "member",
               resident |-> FALSE, held |-> None, tearing |-> FALSE, member |-> FALSE]
    /\ mapLeg' = mapLeg + 1
    /\ UNCHANGED <<sc, headed, dir, bundle, export>>

OpenBundle ==
    /\ map # None /\ map.at = "bundle"
    /\ bundle' = [ready |-> FALSE, v |-> map.op.v, member |-> None]
    /\ Goes("commitBundle")
    /\ UNCHANGED <<sc, headed, dir, export, mapLeg>>

CommitBundle ==
    /\ map # None /\ map.at = "commitBundle"
    /\ bundle' = [bundle EXCEPT !.ready = TRUE]
    /\ Goes("prepare")
    /\ UNCHANGED <<sc, headed, dir, export, mapLeg>>

Complete == dir.model # None /\ dir.model.done

\* The head is built and recorded if the deck asks for it.
ToHead == IF headed THEN "head" ELSE "export"

\* tangential_restart_handle: a missing member is built, another's refused.
UseMember ==
    /\ map # None /\ map.at = "member"
    /\ \/ bundle.member = None /\ Goes("prepare")
       \/ /\ bundle.member # None
          /\ IF Complete /\ dir.model.op = bundle.member /\ bundle.member.id = map.op.id
             THEN map' = [map EXCEPT !.at = ToHead, !.held = bundle.member, !.member = TRUE]
             ELSE Leaves
    /\ UNCHANGED <<sc, headed, dir, bundle, export, mapLeg>>

-----------------------------------------------------------------------------
\* prepare_output

\* Mutant of Authentic: the identity and the receipts' presence suffice.
Authentic_Identity ==
    /\ dir.model.op.id = map.op.id
    /\ None \notin {dir.bankReceipt, dir.moments}

\* _authenticate_committed_body
Authentic ==
    /\ dir.model.op = map.op
    /\ dir.bankReceipt = map.op /\ dir.moments = map.op

\* _authenticated_constructor_resume
Resumable ==
    /\ dir.bank # None /\ dir.bank.done /\ dir.bank.op.id = map.op.id
    /\ dir.bankReceipt = map.op /\ dir.moments = map.op

ReuseModel ==
    /\ map # None /\ map.at = "prepare" /\ Complete
    /\ IF /\ sc \/ map.restart
          /\ dir.model.op.id = map.op.id
          /\ Authentic
       THEN map' = [map EXCEPT !.at = "release", !.held = dir.model.op]
       ELSE Leaves
    /\ UNCHANGED <<sc, headed, dir, bundle, export, mapLeg>>

ResumeConstructor ==
    /\ map # None /\ map.at = "prepare" /\ ~Complete /\ Resumable
    /\ Goes("construct")
    /\ UNCHANGED <<sc, headed, dir, bundle, export, mapLeg>>

\* Mutant of Remove: another operator's model is a leftover like the rest.
Remove_Foreign ==
    /\ map # None /\ map.at \in {"prepare", "remove"}
    /\ Complete => dir.model.op.id # map.op.id
    /\ map.at = "prepare" => ~Resumable
    /\ \/ \E f \in File : /\ dir[f] # None
                          /\ dir' = [dir EXCEPT ![f] = None] /\ Goes("remove")
       \/ dir = Empty /\ Goes("bank") /\ UNCHANGED dir
    /\ UNCHANGED <<sc, headed, bundle, export, mapLeg>>

\* shutil.rmtree takes the files in any order.
Remove ==
    /\ map # None /\ map.at \in {"prepare", "remove"} /\ ~Complete
    /\ map.at = "prepare" => ~Resumable
    /\ \/ \E f \in File : /\ dir[f] # None
                          /\ dir' = [dir EXCEPT ![f] = None] /\ Goes("remove")
       \/ dir = Empty /\ Goes("bank") /\ UNCHANGED dir
    /\ UNCHANGED <<sc, headed, bundle, export, mapLeg>>

-----------------------------------------------------------------------------
\* The stages.

\* A bank on the devices leaves no file; write_w needs the file (_bank_residence).
MakeBank(resident) ==
    /\ map # None /\ map.at = "bank"
    /\ resident => map.write # "w"
    /\ dir' = IF resident THEN dir ELSE [dir EXCEPT !.bank = [op |-> map.op, done |-> FALSE]]
    /\ map' = [map EXCEPT !.at = "bankReceipt", !.resident = resident]
    /\ UNCHANGED <<sc, headed, bundle, export, mapLeg>>

\* compute_response_moments fills the bank's last fields and completes it.
MakeMoments ==
    /\ map # None /\ map.at = "fill"
    /\ dir' = IF map.resident THEN dir ELSE [dir EXCEPT !.bank.done = TRUE]
    /\ Goes("moments")
    /\ UNCHANGED <<sc, headed, bundle, export, mapLeg>>

After(f) == CASE f = "bankReceipt" -> "fill" [] f = "moments" -> "construct" [] f = "head" -> "export"

\* _record_receipt: write_text truncates, then writes.
Record(f) ==
    /\ map # None /\ map.at = f
    /\ \/ /\ ~map.tearing
          /\ dir' = [dir EXCEPT ![f] = Torn]
          /\ map' = [map EXCEPT !.tearing = TRUE]
       \/ /\ map.tearing
          /\ dir' = [dir EXCEPT ![f] = map.op]
          /\ map' = [map EXCEPT !.tearing = FALSE, !.at = After(f)]
    /\ UNCHANGED <<sc, headed, bundle, export, mapLeg>>

\* construct_tangential_poles; an SC map with a resident bank and no export may
\* keep its model on the devices (_scalar_model_residence).
OpenModel ==
    /\ map # None /\ map.at = "construct"
    /\ \/ /\ dir' = [dir EXCEPT !.model = [op |-> map.op, done |-> FALSE]]
          /\ Goes("finalize")
       \/ /\ sc /\ map.resident /\ map.write = "none"
          /\ map' = [map EXCEPT !.at = "release", !.held = map.op]
          /\ UNCHANGED dir
    /\ UNCHANGED <<sc, headed, bundle, export, mapLeg>>

\* final_commit, after everything else in the file.
FinalizeModel ==
    /\ map # None /\ map.at = "finalize"
    /\ dir' = [dir EXCEPT !.model.done = TRUE]
    /\ map' = [map EXCEPT !.at = "release", !.held = map.op]
    /\ UNCHANGED <<sc, headed, bundle, export, mapLeg>>

\* The constructor was the bank's last reader, but for write_w's export.
ReleaseBank ==
    /\ map # None /\ map.at = "release"
    /\ dir' = IF map.resident \/ map.write = "w" THEN dir ELSE [dir EXCEPT !.bank = None]
    /\ Goes(ToHead)
    /\ UNCHANGED <<sc, headed, bundle, export, mapLeg>>

\* _record_receipt("head") begins when the head is there.
HeadFails ==
    /\ map # None /\ map.at = "head" /\ ~map.tearing
    /\ Leaves
    /\ UNCHANGED <<sc, headed, dir, bundle, export, mapLeg>>

\* export_tangential_outputs.  A file is written in several SlabIO sessions, and
\* finalized after the last.  A self-consistent map leaves whether or not it finds
\* its export whole (_retain_current_map_exports, which then removes other maps').
Exported == IF sc \/ map.member \/ ~map.persist THEN Leaves ELSE Goes("register")

\* _export_is_current: committed, of this identity and, poles, of this model.
Current(k) ==
    /\ export[k].state # "open"
    /\ IF k = "poles" THEN export[k].op = map.held ELSE export[k].op.id = map.held.id

KeepExport ==
    /\ map # None /\ map.at = "export"
    /\ map.write # "none" => export[map.write] # None
    /\ IF map.write = "none" \/ Current(map.write) THEN Exported ELSE Leaves
    /\ UNCHANGED <<sc, headed, dir, bundle, export, mapLeg>>

OpenExport ==
    /\ map # None /\ map.at = "export"
    /\ map.write # "none" /\ export[map.write] = None
    /\ IF map.write = "w" /\ ~(dir.bank # None /\ dir.bank.done /\ dir.bank.op.id = map.held.id)
       THEN Leaves /\ UNCHANGED export
       ELSE /\ export' = [export EXCEPT ![map.write] = [op |-> map.held, state |-> "open"]]
            /\ Goes("exporting")
    /\ UNCHANGED <<sc, headed, dir, bundle, mapLeg>>

Session ==
    /\ map # None /\ map.at = "exporting"
    /\ export' = [export EXCEPT ![map.write].state = IF @ = "open" THEN "part" ELSE "open"]
    /\ UNCHANGED <<sc, headed, dir, bundle, map, mapLeg>>

FinalizeExport ==
    /\ map # None /\ map.at = "exporting"
    /\ export[map.write].state = "part"
    /\ export' = [export EXCEPT ![map.write].state = "done"]
    /\ Exported
    /\ UNCHANGED <<sc, headed, dir, bundle, mapLeg>>

\* register_tangential_restart_member: immutable, idempotent.
Register ==
    /\ map # None /\ map.at = "register"
    /\ IF bundle.member = None
       THEN bundle' = [bundle EXCEPT !.ready = FALSE] /\ Goes("link")
       ELSE Leaves /\ UNCHANGED bundle
    /\ UNCHANGED <<sc, headed, dir, export, mapLeg>>

Link ==
    /\ map # None /\ map.at = "link"
    /\ bundle' = [bundle EXCEPT !.ready = TRUE, !.member = map.held]
    /\ Leaves
    /\ UNCHANGED <<sc, headed, dir, export, mapLeg>>

Kill ==
    /\ map # None
    /\ Leaves
    /\ UNCHANGED <<sc, headed, dir, bundle, export, mapLeg>>

Next ==
    \/ \E op \in Operator, restart \in BOOLEAN, write \in Kind \cup {"none"},
         persist \in BOOLEAN : Start(op, restart, write, persist)
    \/ OpenBundle \/ CommitBundle \/ UseMember
    \/ ReuseModel \/ ResumeConstructor \/ Remove
    \/ \E resident \in BOOLEAN : MakeBank(resident)
    \/ MakeMoments \/ \E f \in {"bankReceipt", "moments", "head"} : Record(f)
    \/ OpenModel \/ FinalizeModel \/ ReleaseBank \/ HeadFails
    \/ KeepExport \/ OpenExport \/ Session \/ FinalizeExport
    \/ Register \/ Link \/ Kill

Spec == Init /\ [][Next]_vars

-----------------------------------------------------------------------------
TypeOK ==
    /\ {sc, headed} \subseteq BOOLEAN /\ mapLeg \in 0 .. MapLegs
    /\ dir.bank # None => dir.bank.op \in Operator
    /\ dir.model # None => dir.model.op \in Operator
    /\ \A f \in {"bankReceipt", "moments", "head"} : dir[f] \in Operator \cup {None, Torn}
    /\ \A k \in Kind : export[k] # None => export[k].op \in Operator
    /\ bundle # None => bundle.member \in Operator \cup {None}
    /\ map # None => map.op \in Operator /\ map.held \in Operator \cup {None}

\* Whatever a process computes the head, the outputs and Sigma from is a model
\* of its own operator, bare interaction included, though the identity a model
\* is found by omits it ("These small existing receipts additionally bind the
\* physical inputs omitted from the state identity").
HeldIsCurrent == map # None /\ map.held # None => map.held = map.op

\* A complete model has the receipts its reuse is authenticated by, of the bank
\* it was made of: an explicit restart of its operator is never refused for a
\* kill at a bad moment ("Explicit restart may resume it").
ModelHasProvenance ==
    Complete => dir.bankReceipt = dir.model.op /\ dir.moments = dir.model.op

\* The bundle's member is a complete model made for the interaction in that
\* bundle, and its head, if the deck asks for one, was finished before it was
\* registered (a later process may be writing the head's receipt again).
MemberIsFinished ==
    bundle # None /\ bundle.member # None =>
        /\ Complete /\ dir.model.op = bundle.member
        /\ headed => dir.head # None
        /\ bundle.v = bundle.member.v

\* "An export on disk always implies a finished head", where the deck asks for one,
\* and the model it shows.
ExportIsFinished ==
    \A k \in Kind : export[k] # None =>
        Complete /\ dir.model.op = export[k].op /\ (headed => dir.head # None)

\* A process that goes on past its export has a finished one: "a committed file
\* on disk is a finished export" (export_tangential_outputs), which a restart
\* retains.  It does not hold (README, "Divergences"): SlabIO
\* commits a file at the end of each of its sessions.
ExportIsWhole ==
    map # None /\ map.at = "register" /\ map.write # "none" =>
        export[map.write].state = "done"

\* The model, its receipts, its member and its exports together.
MapInv == TypeOK /\ HeldIsCurrent /\ ModelHasProvenance /\ MemberIsFinished /\ ExportIsFinished

\* A complete model is never rebuilt nor removed, whoever comes with whatever
\* operator, and its receipts stay ("complete model retained").
CompleteIsKept ==
    [][Complete => /\ dir'.model = dir.model
                   /\ dir'.bankReceipt = dir.bankReceipt /\ dir'.moments = dir.moments]_vars
=============================================================================
