--------------------------- MODULE RestartsProofs ---------------------------
(***************************************************************************)
(* What a kill leaves to the next process, for any number of processes and *)
(* any parameters: the map of TangentialMap, the checkpoint of CdStream,   *)
(* the files of a propagation of TdRestart and the stores of MpaStore.     *)
(***************************************************************************)
EXTENDS MCRestarts, SequenceTheorems, FiniteSetTheorems, WellFoundedInduction, TLAPS

-----------------------------------------------------------------------------
(* TangentialMap: the inductive invariant *)

Made == [op : Map!Operator, done : BOOLEAN]
Receipt == Map!Operator \cup {None, Torn}

\* The places of a process: it looks at what is there, it builds a model, it uses
\* a model.
Looking == {"bundle", "commitBundle", "member", "prepare"}
Building == {"remove", "bank", "bankReceipt", "fill", "moments", "construct", "finalize"}
Publishing == {"export", "exporting", "register", "link"}
Using == {"release", "head"} \cup Publishing
Place == Looking \cup Building \cup Using

Bundle == [ready : BOOLEAN, v : Vs, member : Map!Operator \cup {None}]
Export == [op : Map!Operator, state : {"open", "part", "done"}]
Process == [op : Map!Operator, restart : BOOLEAN, write : Map!Kind \cup {"none"},
            persist : BOOLEAN, at : Place, resident : BOOLEAN,
            held : Map!Operator \cup {None}, tearing : BOOLEAN, member : BOOLEAN]

DirTypes ==
    /\ dir \in [Map!File -> Made \cup Receipt]
    /\ dir.bank \in Made \cup {None} /\ dir.model \in Made \cup {None}
    /\ \A f \in {"bankReceipt", "moments", "head"} : dir[f] \in Receipt
MapTypes ==
    /\ sc \in BOOLEAN /\ headed \in BOOLEAN /\ mapLeg \in 0 .. MapLegs
    /\ DirTypes
    /\ export \in [Map!Kind -> Export \cup {None}]
    /\ bundle \in Bundle \cup {None}
    /\ map \in Process \cup {None}

\* The bundle a process has written, or reads, is the one of its interaction.
BundleIsOurs ==
    map # None /\ (map.at \in {"commitBundle", "member"} \/ (map.persist /\ map.at # "bundle")) =>
        bundle # None /\ bundle.v = map.op.v

\* A process builds only where there is no complete model; what it has made so far
\* is of its operator.
BuildingOK == map # None =>
    /\ map.at \in Building => ~Map!Complete
    /\ map.at \in {"bankReceipt", "fill"} /\ ~map.resident => dir.bank # None
    /\ map.at \in {"fill", "moments", "construct", "finalize"} => dir.bankReceipt = map.op
    /\ map.at \in {"construct", "finalize"} => dir.moments = map.op
    /\ map.at = "finalize" => dir.model # None /\ dir.model.op = map.op

\* A process that uses a model holds one of its operator, and it is the complete
\* one of the directory unless it is on the devices of a self-consistent map that
\* writes nothing.  Its head, if the deck asks for one, is there from then on.
UsingOK == map # None =>
    /\ map.at \in Using =>
         /\ map.held = map.op
         /\ \/ Map!Complete /\ dir.model.op = map.op
            \/ sc /\ map.write = "none"
    /\ map.at \in Publishing => (headed => dir.head # None)
    /\ map.at \in {"register", "link"} => ~sc /\ map.persist
    /\ map.at = "exporting" => map.write # "none" /\ export[map.write] # None

MapIInv ==
    /\ MapTypes /\ BundleIsOurs /\ BuildingOK /\ UsingOK
    /\ Map!HeldIsCurrent /\ Map!ModelHasProvenance
    /\ Map!MemberIsFinished /\ Map!ExportIsFinished

-----------------------------------------------------------------------------
\* Before the first process there is no file.
LEMMA MapInit == Map!Init => MapIInv
  BY MapAssumption
     DEF Map!Init, Map!Empty, MapIInv, MapTypes, BundleIsOurs, BuildingOK,
         UsingOK, Map!HeldIsCurrent, Map!ModelHasProvenance,
         Map!MemberIsFinished, Map!ExportIsFinished, DirTypes, Receipt,
         Map!File, Map!Complete

\* None is not the content of any file.
LEMMA NoneIsNone ==
    /\ None \notin Map!Operator /\ None \notin Made /\ None # Torn
    /\ None \notin Export /\ None \notin Bundle
  BY MapAssumption DEF Map!Operator, Made, Export, Bundle

\* A write to one file of the directory, and no other.
LEMMA FilesKept ==
    ASSUME DirTypes, NEW f \in Map!File, NEW x \in Made \cup Receipt,
           f \in {"bank", "model"} => x \in Made \cup {None},
           f \notin {"bank", "model"} => x \in Receipt,
           dir' = [dir EXCEPT ![f] = x]
    PROVE  DirTypes' /\ dir'[f] = x /\ \A g \in Map!File \ {f} : dir'[g] = dir[g]
  BY DEF DirTypes

\* Every step of a process keeps the invariant, whatever was killed before it.
LEMMA MapNext == MapIInv /\ [Map!Next]_mapVars => MapIInv'
<1> SUFFICES ASSUME MapIInv, Map!Next PROVE MapIInv'
  <2>1. MapIInv /\ UNCHANGED mapVars => MapIInv'
    BY DEF mapVars, MapIInv, MapTypes, BundleIsOurs, BuildingOK, UsingOK,
           Map!HeldIsCurrent, Map!ModelHasProvenance, Map!MemberIsFinished,
           Map!ExportIsFinished, DirTypes, Map!Complete
  <2> QED  BY <2>1
<1> USE NoneIsNone, MapAssumption
<1>0. MapTypes /\ BundleIsOurs /\ BuildingOK /\ UsingOK /\ Map!HeldIsCurrent
      /\ Map!ModelHasProvenance /\ Map!MemberIsFinished /\ Map!ExportIsFinished
  BY DEF MapIInv
<1>p. map # None => map \in Process /\ map.op \in Map!Operator
  BY <1>0 DEF MapTypes, Process
<1>r. \A p \in {"bundle", "commitBundle", "member", "prepare", "remove", "bank", "bankReceipt",
                 "fill", "moments", "construct", "finalize", "release", "head", "export",
                 "exporting", "register", "link"} : p \in Place
  BY DEF Place, Looking, Building, Using, Publishing
<1>q. DirTypes
  BY <1>0 DEF MapTypes
<1>1. ASSUME NEW op \in Map!Operator, NEW restart \in BOOLEAN, NEW write \in Map!Kind \cup {"none"}, NEW persist \in BOOLEAN,
             Map!Start(op, restart, write, persist) PROVE MapIInv'
  <2>1. MapTypes'
    <3>1. sc' \in BOOLEAN /\ headed' \in BOOLEAN /\ mapLeg' \in 0 .. MapLegs
      BY <1>1, <1>0 DEF Map!Start, MapTypes
    <3>2. DirTypes'
      BY <1>1, <1>0 DEF Map!Start, MapTypes, DirTypes
    <3>3. export' \in [Map!Kind -> Export \cup {None}]
      BY <1>1, <1>0 DEF Map!Start, MapTypes
    <3>4. bundle' \in Bundle \cup {None}
      BY <1>1, <1>0 DEF Map!Start, MapTypes
    <3>5. map' \in Process \cup {None}
      BY <1>1 DEF Map!Start, Process, Place, Looking
    <3> QED  BY <3>1, <3>2, <3>3, <3>4, <3>5 DEF MapTypes
  <2>2. BundleIsOurs'
    BY <1>1 DEF Map!Start, BundleIsOurs
  <2>3. BuildingOK'
    BY <1>1 DEF Map!Start, BuildingOK, Building
  <2>4. UsingOK'
    BY <1>1 DEF Map!Start, UsingOK, Publishing, Using
  <2>5. Map!HeldIsCurrent'
    BY <1>1 DEF Map!Start, Map!HeldIsCurrent
  <2>6. Map!ModelHasProvenance'
    BY <1>1, <1>0 DEF Map!Start, Map!ModelHasProvenance, Map!Complete
  <2>7. Map!MemberIsFinished'
    BY <1>1, <1>0 DEF Map!Start, Map!MemberIsFinished, Map!Complete
  <2>8. Map!ExportIsFinished'
    BY <1>1, <1>0 DEF Map!Start, Map!ExportIsFinished, Map!Complete
  <2> QED  BY <2>1, <2>2, <2>3, <2>4, <2>5, <2>6, <2>7, <2>8 DEF MapIInv
<1>2. ASSUME Map!OpenBundle PROVE MapIInv'
  <2>1. MapTypes'
    <3>1. sc' \in BOOLEAN /\ headed' \in BOOLEAN /\ mapLeg' \in 0 .. MapLegs
      BY <1>2, <1>0 DEF Map!OpenBundle, MapTypes
    <3>2. DirTypes'
      BY <1>2, <1>0 DEF Map!OpenBundle, MapTypes, DirTypes
    <3>3. export' \in [Map!Kind -> Export \cup {None}]
      BY <1>2, <1>0 DEF Map!OpenBundle, MapTypes
    <3>4. bundle' \in Bundle \cup {None}
      BY <1>2, <1>0
         DEF Map!OpenBundle, MapTypes, Bundle, Process, Map!Operator
    <3>5. map' \in Process \cup {None}
      BY <1>2, <1>0
         DEF Map!OpenBundle, MapTypes, Map!Goes, Process, Place, Looking
    <3> QED  BY <3>1, <3>2, <3>3, <3>4, <3>5 DEF MapTypes
  <2>2. BundleIsOurs'
    <3>1. map # None /\ map' = [map EXCEPT !.at = "commitBundle"]
          /\ bundle' = [ready |-> FALSE, v |-> map.op.v, member |-> None]
      BY <1>2 DEF Map!OpenBundle, Map!Goes
    <3>2. bundle' \in Bundle /\ bundle'.v = map.op.v /\ map'.op = map.op
      BY <3>1, <1>p DEF Bundle, Map!Operator
    <3> QED  BY <3>2 DEF BundleIsOurs
  <2>3. BuildingOK'
    BY <1>2 DEF Map!OpenBundle, BuildingOK, Building, Map!Goes
  <2>4. UsingOK'
    BY <1>2 DEF Map!OpenBundle, UsingOK, Publishing, Using, Map!Goes
  <2>5. Map!HeldIsCurrent'
    BY <1>2, <1>0 DEF Map!OpenBundle, Map!HeldIsCurrent, Map!Goes
  <2>6. Map!ModelHasProvenance'
    BY <1>2, <1>0 DEF Map!OpenBundle, Map!ModelHasProvenance, Map!Complete
  <2>7. Map!MemberIsFinished'
    BY <1>2 DEF Map!OpenBundle, Map!MemberIsFinished
  <2>8. Map!ExportIsFinished'
    BY <1>2, <1>0 DEF Map!OpenBundle, Map!ExportIsFinished, Map!Complete
  <2> QED  BY <2>1, <2>2, <2>3, <2>4, <2>5, <2>6, <2>7, <2>8 DEF MapIInv
<1>3. ASSUME Map!CommitBundle PROVE MapIInv'
  <2>1. MapTypes'
    <3>1. sc' \in BOOLEAN /\ headed' \in BOOLEAN /\ mapLeg' \in 0 .. MapLegs
      BY <1>3, <1>0 DEF Map!CommitBundle, MapTypes
    <3>2. DirTypes'
      BY <1>3, <1>0 DEF Map!CommitBundle, MapTypes, DirTypes
    <3>3. export' \in [Map!Kind -> Export \cup {None}]
      BY <1>3, <1>0 DEF Map!CommitBundle, MapTypes
    <3>4. bundle' \in Bundle \cup {None}
      BY <1>3, <1>0
         DEF Map!CommitBundle, MapTypes, Map!Goes, Map!Complete, Bundle,
             Process, Map!Operator, BundleIsOurs, UsingOK, Using, Publishing
    <3>5. map' \in Process \cup {None}
      BY <1>3, <1>0
         DEF Map!CommitBundle, MapTypes, Map!Goes, Process, Place, Looking
    <3> QED  BY <3>1, <3>2, <3>3, <3>4, <3>5 DEF MapTypes
  <2>2. BundleIsOurs'
    BY <1>3, <1>0, <1>p
       DEF Map!CommitBundle, MapTypes, BundleIsOurs, Bundle, Export, Process,
           DirTypes, Made, Receipt, Looking, Building, Publishing, Using,
           Place, Map!Operator, Map!Kind, Map!File, Map!Goes
  <2>3. BuildingOK'
    BY <1>3 DEF Map!CommitBundle, BuildingOK, Building, Map!Goes
  <2>4. UsingOK'
    BY <1>3 DEF Map!CommitBundle, UsingOK, Publishing, Using, Map!Goes
  <2>5. Map!HeldIsCurrent'
    BY <1>3, <1>0 DEF Map!CommitBundle, Map!HeldIsCurrent, Map!Goes
  <2>6. Map!ModelHasProvenance'
    BY <1>3, <1>0 DEF Map!CommitBundle, Map!ModelHasProvenance, Map!Complete
  <2>7. Map!MemberIsFinished'
    BY <1>3, <1>0
       DEF Map!CommitBundle, Map!MemberIsFinished, BundleIsOurs, Map!Complete
  <2>8. Map!ExportIsFinished'
    BY <1>3, <1>0 DEF Map!CommitBundle, Map!ExportIsFinished, Map!Complete
  <2> QED  BY <2>1, <2>2, <2>3, <2>4, <2>5, <2>6, <2>7, <2>8 DEF MapIInv
<1>4. ASSUME Map!UseMember PROVE MapIInv'
  <2>a. map # None /\ map.at = "member" /\ bundle \in Bundle /\ bundle.v = map.op.v
        /\ UNCHANGED <<sc, headed, dir, bundle, export, mapLeg>>
    BY <1>4, <1>0 DEF Map!UseMember, MapTypes, BundleIsOurs
  <2>b. ASSUME bundle.member # None, bundle.member.id = map.op.id
        PROVE  bundle.member = map.op /\ Map!Complete /\ dir.model.op = map.op /\ (headed => dir.head # None)
    BY <2>a, <2>b, <1>0, <1>p DEF Map!MemberIsFinished, Bundle, Map!Operator
  <2>d. \/ map' = [map EXCEPT !.at = "prepare"]
        \/ map' = None
        \/ /\ map' = [map EXCEPT !.at = Map!ToHead, !.held = map.op, !.member = TRUE]
           /\ Map!Complete /\ dir.model.op = map.op /\ (headed => dir.head # None)
    BY <1>4, <2>b DEF Map!UseMember, Map!Goes, Map!Leaves
  <2>e. map' # None => /\ map' \in Process /\ map'.op = map.op
                       /\ \/ map'.at = "prepare" /\ map'.held = map.held
                          \/ /\ map'.at \in {"head", "export"} /\ map'.held = map.op
                             /\ Map!Complete /\ dir.model.op = map.op
                             /\ (headed => dir.head # None)
    BY <2>a, <2>d, <1>p, <1>r DEF Process, Map!ToHead
  <2>1. MapTypes'
    <3>1. sc' \in BOOLEAN /\ headed' \in BOOLEAN /\ mapLeg' \in 0 .. MapLegs
      BY <2>a, <1>0 DEF MapTypes
    <3>2. DirTypes'
      BY <2>a, <1>0 DEF MapTypes, DirTypes
    <3>3. export' \in [Map!Kind -> Export \cup {None}]
      BY <2>a, <1>0 DEF MapTypes
    <3>4. bundle' \in Bundle \cup {None}
      BY <2>a
    <3>5. map' \in Process \cup {None}
      BY <2>e
    <3> QED  BY <3>1, <3>2, <3>3, <3>4, <3>5 DEF MapTypes
  <2>2. BundleIsOurs'
    BY <2>a, <2>e DEF BundleIsOurs
  <2>3. BuildingOK'
    BY <2>e DEF Building, BuildingOK
  <2>4. UsingOK'
    BY <2>a, <2>e DEF Using, Publishing, Map!Complete, UsingOK
  <2>5. Map!HeldIsCurrent'
    BY <2>a, <2>e, <1>0 DEF Map!HeldIsCurrent
  <2>6. Map!ModelHasProvenance'
    BY <2>a, <1>0 DEF Map!Complete, Map!ModelHasProvenance
  <2>7. Map!MemberIsFinished'
    BY <2>a, <1>0 DEF Map!Complete, Map!MemberIsFinished
  <2>8. Map!ExportIsFinished'
    BY <2>a, <1>0 DEF Map!Complete, Map!ExportIsFinished
  <2> QED  BY <2>1, <2>2, <2>3, <2>4, <2>5, <2>6, <2>7, <2>8 DEF MapIInv
<1>5. ASSUME Map!ReuseModel PROVE MapIInv'
  <2>a. map # None /\ map.at = "prepare" /\ UNCHANGED <<sc, headed, dir, bundle, export, mapLeg>>
    BY <1>5 DEF Map!ReuseModel
  <2>d. \/ map' = None
        \/ /\ map' = [map EXCEPT !.at = "release", !.held = map.op]
           /\ Map!Complete /\ dir.model.op = map.op
    BY <1>5 DEF Map!ReuseModel, Map!Authentic, Map!Leaves
  <2>1. MapTypes'
    <3>1. sc' \in BOOLEAN /\ headed' \in BOOLEAN /\ mapLeg' \in 0 .. MapLegs
      BY <2>a, <1>0 DEF MapTypes
    <3>2. DirTypes'
      BY <2>a, <1>0 DEF MapTypes, DirTypes
    <3>3. export' \in [Map!Kind -> Export \cup {None}]
      BY <2>a, <1>0 DEF MapTypes
    <3>4. bundle' \in Bundle \cup {None}
      BY <2>a, <1>0 DEF MapTypes
    <3>5. map' \in Process \cup {None}
      BY <2>a, <2>d, <1>r, <1>0, <1>p, ZenonT(60) DEF MapTypes, Process
    <3> QED  BY <3>1, <3>2, <3>3, <3>4, <3>5 DEF MapTypes
  <2>2. BundleIsOurs'
    BY <2>a, <2>d, <1>r, <1>0, <1>p
       DEF MapTypes, Process, Map!Kind, Map!Complete, BundleIsOurs
  <2>3. BuildingOK'
    BY <2>a, <2>d, <1>r, <1>0, <1>p, ZenonT(60)
       DEF MapTypes, Process, Building, Map!Kind, Map!Complete, BuildingOK
  <2>4. UsingOK'
    BY <2>a, <2>d, <1>r, <1>0, <1>p, ZenonT(60)
       DEF MapTypes, Process, Using, Publishing, Map!Kind, Map!Complete,
           UsingOK
  <2>5. Map!HeldIsCurrent'
    BY <2>a, <2>d, <1>r, <1>0, <1>p
       DEF MapTypes, Process, Using, Publishing, Map!Kind, Map!Complete,
           Map!HeldIsCurrent, UsingOK
  <2>6. Map!ModelHasProvenance'
    BY <2>a, <1>0 DEF Map!Complete, Map!ModelHasProvenance
  <2>7. Map!MemberIsFinished'
    BY <2>a, <1>0 DEF Map!Complete, Map!MemberIsFinished
  <2>8. Map!ExportIsFinished'
    BY <2>a, <1>0 DEF Map!Complete, Map!ExportIsFinished
  <2> QED  BY <2>1, <2>2, <2>3, <2>4, <2>5, <2>6, <2>7, <2>8 DEF MapIInv
<1>6. ASSUME Map!ResumeConstructor PROVE MapIInv'
  <2>1. MapTypes'
    <3>1. sc' \in BOOLEAN /\ headed' \in BOOLEAN /\ mapLeg' \in 0 .. MapLegs
      BY <1>6, <1>0 DEF Map!ResumeConstructor, MapTypes
    <3>2. DirTypes'
      BY <1>6, <1>0 DEF Map!ResumeConstructor, MapTypes, DirTypes
    <3>3. export' \in [Map!Kind -> Export \cup {None}]
      BY <1>6, <1>0 DEF Map!ResumeConstructor, MapTypes
    <3>4. bundle' \in Bundle \cup {None}
      BY <1>6, <1>0 DEF Map!ResumeConstructor, MapTypes
    <3>5. map' \in Process \cup {None}
      BY <1>6, <1>0
         DEF Map!ResumeConstructor, MapTypes, Map!Goes, Process, Place,
             Building
    <3> QED  BY <3>1, <3>2, <3>3, <3>4, <3>5 DEF MapTypes
  <2>2. BundleIsOurs'
    BY <1>6, <1>0 DEF Map!ResumeConstructor, BundleIsOurs, Map!Goes
  <2>3. BuildingOK'
    BY <1>6
       DEF Map!ResumeConstructor, Map!Resumable, BuildingOK, Map!Goes,
           Map!Complete
  <2>4. UsingOK'
    BY <1>6 DEF Map!ResumeConstructor, UsingOK, Publishing, Using, Map!Goes
  <2>5. Map!HeldIsCurrent'
    BY <1>6, <1>0 DEF Map!ResumeConstructor, Map!HeldIsCurrent, Map!Goes
  <2>6. Map!ModelHasProvenance'
    BY <1>6 DEF Map!ResumeConstructor, Map!ModelHasProvenance, Map!Complete
  <2>7. Map!MemberIsFinished'
    BY <1>6, <1>0 DEF Map!ResumeConstructor, Map!MemberIsFinished
  <2>8. Map!ExportIsFinished'
    BY <1>6, <1>0 DEF Map!ResumeConstructor, Map!ExportIsFinished
  <2> QED  BY <2>1, <2>2, <2>3, <2>4, <2>5, <2>6, <2>7, <2>8 DEF MapIInv
<1>7. ASSUME Map!Remove PROVE MapIInv'
  <2>1. MapTypes'
    <3>1. sc' \in BOOLEAN /\ headed' \in BOOLEAN /\ mapLeg' \in 0 .. MapLegs
      BY <1>7, <1>0 DEF Map!Remove, MapTypes
    <3>2. DirTypes'
      BY <1>7, <1>0 DEF Map!Remove, MapTypes, DirTypes, Receipt, Map!File
    <3>3. export' \in [Map!Kind -> Export \cup {None}]
      BY <1>7, <1>0 DEF Map!Remove, MapTypes
    <3>4. bundle' \in Bundle \cup {None}
      BY <1>7, <1>0 DEF Map!Remove, MapTypes
    <3>5. map' \in Process \cup {None}
      BY <1>7, <1>0
         DEF Map!Remove, MapTypes, Map!Goes, Process, Place, Building
    <3> QED  BY <3>1, <3>2, <3>3, <3>4, <3>5 DEF MapTypes
  <2>2. BundleIsOurs'
    BY <1>7, <1>0, <1>p DEF Map!Remove, BundleIsOurs, Process, Map!Goes
  <2>3. BuildingOK'
    BY <1>7, <1>0
       DEF Map!Remove, MapTypes, BuildingOK, Process, DirTypes, Map!File,
           Map!Goes, Map!Complete
  <2>4. UsingOK'
    BY <1>7, <1>p
       DEF Map!Remove, UsingOK, Process, Publishing, Using, Map!Goes
  <2>5. Map!HeldIsCurrent'
    BY <1>7, <1>0, <1>p DEF Map!Remove, Map!HeldIsCurrent, Process, Map!Goes
  <2>6. Map!ModelHasProvenance'
    BY <1>7, <1>0
       DEF Map!Remove, MapTypes, Map!ModelHasProvenance, DirTypes, Map!File,
           Map!Complete
  <2>7. Map!MemberIsFinished'
    BY <1>7, <1>0 DEF Map!Remove, Map!MemberIsFinished
  <2>8. Map!ExportIsFinished'
    BY <1>7, <1>0 DEF Map!Remove, Map!ExportIsFinished
  <2> QED  BY <2>1, <2>2, <2>3, <2>4, <2>5, <2>6, <2>7, <2>8 DEF MapIInv
<1>8. ASSUME NEW resident \in BOOLEAN, Map!MakeBank(resident) PROVE MapIInv'
  <2>a. map # None /\ map.at = "bank" /\ map' = [map EXCEPT !.at = "bankReceipt", !.resident = resident]
        /\ UNCHANGED <<sc, headed, bundle, export, mapLeg>>
    BY <1>8 DEF Map!MakeBank
  <2>b. [op |-> map.op, done |-> FALSE] \in Made
    BY <2>a, <1>p DEF Made
  <2>c. /\ resident => dir' = dir
        /\ ~resident => dir' = [dir EXCEPT !["bank"] = [op |-> map.op, done |-> FALSE]]
    BY <1>8 DEF Map!MakeBank
  <2>f. ASSUME ~resident PROVE DirTypes' /\ dir'["bank"] # None /\ \A g \in Map!File \ {"bank"} : dir'[g] = dir[g]
    BY <2>f, <2>c, <2>b, <1>q, FilesKept, ZenonT(60) DEF Map!File
  <2>d. DirTypes' /\ (\A g \in Map!File \ {"bank"} : dir'[g] = dir[g]) /\ (~resident => dir'.bank # None)
    BY <2>f, <2>c, <1>q DEF DirTypes
  <2>1. MapTypes'
    <3>1. sc' \in BOOLEAN /\ headed' \in BOOLEAN /\ mapLeg' \in 0 .. MapLegs
      BY <2>a, <1>0 DEF MapTypes
    <3>2. DirTypes'
      BY <2>d
    <3>3. export' \in [Map!Kind -> Export \cup {None}]
      BY <2>a, <1>0 DEF MapTypes
    <3>4. bundle' \in Bundle \cup {None}
      BY <2>a, <1>0 DEF MapTypes
    <3>5. map' \in Process \cup {None}
      BY <2>a, <2>d, <1>r, <1>0, <1>p DEF MapTypes, Process
    <3> QED  BY <3>1, <3>2, <3>3, <3>4, <3>5 DEF MapTypes
  <2>2. BundleIsOurs'
    BY <2>a, <1>0 DEF BundleIsOurs
  <2>3. BuildingOK'
    BY <2>a, <2>d, <1>0 DEF Building, Map!File, Map!Complete, BuildingOK
  <2>4. UsingOK'
    BY <2>a DEF Using, Publishing, UsingOK
  <2>5. Map!HeldIsCurrent'
    BY <2>a, <1>0 DEF Map!HeldIsCurrent
  <2>6. Map!ModelHasProvenance'
    BY <2>d, <1>0 DEF Map!File, Map!Complete, Map!ModelHasProvenance
  <2>7. Map!MemberIsFinished'
    BY <2>a, <2>d, <1>0 DEF Map!File, Map!Complete, Map!MemberIsFinished
  <2>8. Map!ExportIsFinished'
    BY <2>a, <2>d, <1>0 DEF Map!File, Map!Complete, Map!ExportIsFinished
  <2> QED  BY <2>1, <2>2, <2>3, <2>4, <2>5, <2>6, <2>7, <2>8 DEF MapIInv
<1>9. ASSUME Map!MakeMoments PROVE MapIInv'
  <2>1. MapTypes'
    <3>1. sc' \in BOOLEAN /\ headed' \in BOOLEAN /\ mapLeg' \in 0 .. MapLegs
      BY <1>9, <1>0 DEF Map!MakeMoments, MapTypes
    <3>2. DirTypes'
      BY <1>9, <1>0
         DEF Map!MakeMoments, MapTypes, Map!Goes, Map!Complete, DirTypes,
             Made, Receipt, Map!File, BuildingOK
    <3>3. export' \in [Map!Kind -> Export \cup {None}]
      BY <1>9, <1>0 DEF Map!MakeMoments, MapTypes
    <3>4. bundle' \in Bundle \cup {None}
      BY <1>9, <1>0 DEF Map!MakeMoments, MapTypes
    <3>5. map' \in Process \cup {None}
      BY <1>9, <1>0
         DEF Map!MakeMoments, MapTypes, Map!Goes, Process, Place, Building
    <3> QED  BY <3>1, <3>2, <3>3, <3>4, <3>5 DEF MapTypes
  <2>2. BundleIsOurs'
    BY <1>9, <1>0 DEF Map!MakeMoments, BundleIsOurs, Map!Goes
  <2>3. BuildingOK'
    BY <1>9, <1>0
       DEF Map!MakeMoments, BuildingOK, Building, Map!Goes, Map!Complete
  <2>4. UsingOK'
    BY <1>9 DEF Map!MakeMoments, UsingOK, Publishing, Using, Map!Goes
  <2>5. Map!HeldIsCurrent'
    BY <1>9, <1>0 DEF Map!MakeMoments, Map!HeldIsCurrent, Map!Goes
  <2>6. Map!ModelHasProvenance'
    BY <1>9, <1>0 DEF Map!MakeMoments, Map!ModelHasProvenance, Map!Complete
  <2>7. Map!MemberIsFinished'
    BY <1>9, <1>0 DEF Map!MakeMoments, Map!MemberIsFinished, Map!Complete
  <2>8. Map!ExportIsFinished'
    BY <1>9, <1>0 DEF Map!MakeMoments, Map!ExportIsFinished, Map!Complete
  <2> QED  BY <2>1, <2>2, <2>3, <2>4, <2>5, <2>6, <2>7, <2>8 DEF MapIInv
<1>10. ASSUME NEW f \in {"bankReceipt", "moments", "head"}, Map!Record(f) PROVE MapIInv'
  <2>a. map # None /\ map.at = f /\ UNCHANGED <<sc, headed, bundle, export, mapLeg>>
    BY <1>10 DEF Map!Record
  <2>b. map.op # None /\ map.op \in Receipt /\ Torn \in Receipt /\ f \in Map!File /\ f \notin {"bank", "model"}
    BY <2>a, <1>p DEF Receipt, Map!File
  <2>c. DirTypes' /\ dir'[f] # None /\ \A g \in Map!File \ {f} : dir'[g] = dir[g]
    BY <1>10, <2>b, <1>q, FilesKept DEF Map!Record
  <2>g. Map!After(f) \in Place
    BY <1>r DEF Map!After
  <2>d. \/ map' = [map EXCEPT !.tearing = TRUE]
        \/ /\ dir'[f] = map.op
           /\ map' = [map EXCEPT !.tearing = FALSE, !.at = Map!After(f)]
    BY <1>10, <2>b, <1>q, FilesKept DEF Map!Record
  <2>e. /\ map' \in Process /\ map'.op = map.op /\ map'.held = map.held
        /\ map'.write = map.write /\ map'.resident = map.resident /\ map'.persist = map.persist
        /\ map'.at = f \/ (map'.at = Map!After(f) /\ dir'[f] = map.op)
    BY <2>a, <2>g, <2>d, <1>p DEF Process
  <2>1. MapTypes'
    <3>1. sc' \in BOOLEAN /\ headed' \in BOOLEAN /\ mapLeg' \in 0 .. MapLegs
      BY <2>a, <1>0 DEF MapTypes
    <3>2. DirTypes'
      BY <2>c
    <3>3. export' \in [Map!Kind -> Export \cup {None}]
      BY <2>a, <1>0 DEF MapTypes
    <3>4. bundle' \in Bundle \cup {None}
      BY <2>a, <1>0 DEF MapTypes
    <3>5. map' \in Process \cup {None}
      BY <2>e
    <3> QED  BY <3>1, <3>2, <3>3, <3>4, <3>5 DEF MapTypes
  <2>2. BundleIsOurs'
    BY <2>a, <2>e, <1>0 DEF Map!After, BundleIsOurs
  <2>3. BuildingOK'
    BY <2>a, <2>c, <2>e, <1>0
       DEF Building, Map!File, Map!Complete, Map!After, BuildingOK
  <2>4. UsingOK'
    BY <2>a, <2>c, <2>e, <1>0
       DEF Using, Publishing, Map!File, Map!Complete, Map!After, UsingOK
  <2>5. Map!HeldIsCurrent'
    BY <2>a, <2>e, <1>0 DEF Map!HeldIsCurrent
  <2>6. Map!ModelHasProvenance'
    BY <2>a, <2>c, <1>0
       DEF Building, Map!File, Map!Complete, Map!ModelHasProvenance,
           BuildingOK
  <2>7. Map!MemberIsFinished'
    BY <2>a, <2>c, <1>0 DEF Map!File, Map!Complete, Map!MemberIsFinished
  <2>8. Map!ExportIsFinished'
    BY <2>a, <2>c, <1>0 DEF Map!File, Map!Complete, Map!ExportIsFinished
  <2> QED  BY <2>1, <2>2, <2>3, <2>4, <2>5, <2>6, <2>7, <2>8 DEF MapIInv
<1>11. ASSUME Map!OpenModel PROVE MapIInv'
  <2>a. map # None /\ map.at = "construct" /\ UNCHANGED <<sc, headed, bundle, export, mapLeg>>
    BY <1>11 DEF Map!OpenModel
  <2>b. [op |-> map.op, done |-> FALSE] \in Made
    BY <2>a, <1>p DEF Made
  <2>c. \/ dir' = [dir EXCEPT !["model"] = [op |-> map.op, done |-> FALSE]] /\ map' = [map EXCEPT !.at = "finalize"]
        \/ sc /\ map.write = "none" /\ dir' = dir /\ map' = [map EXCEPT !.at = "release", !.held = map.op]
    BY <1>11 DEF Map!OpenModel, Map!Goes
  <2>f. ASSUME dir' = [dir EXCEPT !["model"] = [op |-> map.op, done |-> FALSE]]
        PROVE  DirTypes' /\ dir'["model"] = [op |-> map.op, done |-> FALSE] /\ \A g \in Map!File \ {"model"} : dir'[g] = dir[g]
    BY <2>f, <2>c, <2>b, <1>q, FilesKept DEF Map!File
  <2>k. LET x == [op |-> map.op, done |-> FALSE] IN x # None /\ x.op = map.op /\ ~x.done
    BY <2>b
  <2>h. ASSUME dir' = [dir EXCEPT !["model"] = [op |-> map.op, done |-> FALSE]]
        PROVE  /\ dir'.model # None /\ dir'.model.op = map.op /\ ~dir'.model.done
               /\ DirTypes' /\ \A g \in Map!File \ {"model"} : dir'[g] = dir[g]
    BY <2>h, <2>f, <2>k
  <2>e. map' \in Process /\ map'.op = map.op /\ map'.write = map.write /\ map'.persist = map.persist
        /\ \/ /\ map'.at = "finalize" /\ map'.held = map.held /\ dir'.model # None /\ dir'.model.op = map.op
              /\ ~dir'.model.done /\ DirTypes' /\ \A g \in Map!File \ {"model"} : dir'[g] = dir[g]
           \/ map'.at = "release" /\ map'.held = map.op /\ sc /\ map.write = "none" /\ dir' = dir
    BY <2>a, <2>b, <2>c, <2>h, <1>p, <1>r DEF Process
  <2>1. MapTypes'
    <3>1. sc' \in BOOLEAN /\ headed' \in BOOLEAN /\ mapLeg' \in 0 .. MapLegs
      BY <2>a, <1>0 DEF MapTypes
    <3>2. DirTypes'
      BY <2>e, <1>0 DEF MapTypes, DirTypes
    <3>3. export' \in [Map!Kind -> Export \cup {None}]
      BY <2>a, <1>0 DEF MapTypes
    <3>4. bundle' \in Bundle \cup {None}
      BY <2>a, <1>0 DEF MapTypes
    <3>5. map' \in Process \cup {None}
      BY <2>e
    <3> QED  BY <3>1, <3>2, <3>3, <3>4, <3>5 DEF MapTypes
  <2>2. BundleIsOurs'
    BY <2>a, <2>e, <1>0 DEF BundleIsOurs
  <2>3. BuildingOK'
    BY <2>a, <2>e, <1>0 DEF Building, Map!File, Map!Complete, BuildingOK
  <2>4. UsingOK'
    BY <2>a, <2>e DEF Using, Publishing, UsingOK
  <2>5. Map!HeldIsCurrent'
    BY <2>a, <2>e, <1>0 DEF Map!HeldIsCurrent
  <2>6. Map!ModelHasProvenance'
    BY <2>e, <1>0 DEF Map!Complete, Map!ModelHasProvenance
  <2>7. Map!MemberIsFinished'
    BY <2>a, <1>0 DEF Building, Map!MemberIsFinished, BuildingOK
  <2>8. Map!ExportIsFinished'
    BY <2>a, <1>0 DEF Building, Map!ExportIsFinished, BuildingOK
  <2> QED  BY <2>1, <2>2, <2>3, <2>4, <2>5, <2>6, <2>7, <2>8 DEF MapIInv
<1>12. ASSUME Map!FinalizeModel PROVE MapIInv'
  <2>1. MapTypes'
    <3>1. sc' \in BOOLEAN /\ headed' \in BOOLEAN /\ mapLeg' \in 0 .. MapLegs
      BY <1>12, <1>0 DEF Map!FinalizeModel, MapTypes
    <3>2. DirTypes'
      BY <1>12, <1>0
         DEF Map!FinalizeModel, MapTypes, Map!Complete, DirTypes, Made,
             Receipt, Map!File, BuildingOK
    <3>3. export' \in [Map!Kind -> Export \cup {None}]
      BY <1>12, <1>0 DEF Map!FinalizeModel, MapTypes
    <3>4. bundle' \in Bundle \cup {None}
      BY <1>12, <1>0 DEF Map!FinalizeModel, MapTypes
    <3>5. map' \in Process \cup {None}
      BY <1>12, <1>0
         DEF Map!FinalizeModel, MapTypes, Process, Place, Looking, Building,
             Using, Publishing, Bundle, Made, DirTypes, BundleIsOurs
    <3> QED  BY <3>1, <3>2, <3>3, <3>4, <3>5 DEF MapTypes
  <2>2. BundleIsOurs'
    BY <1>12, <1>0 DEF Map!FinalizeModel, BundleIsOurs
  <2>3. BuildingOK'
    BY <1>12 DEF Map!FinalizeModel, BuildingOK, Building
  <2>4. UsingOK'
    BY <1>12, <1>0, <1>p, ZenonT(60)
       DEF Map!FinalizeModel, MapTypes, UsingOK, BuildingOK, Bundle, Export,
           Process, DirTypes, Made, Receipt, Looking, Building, Publishing,
           Using, Place, Map!Operator, Map!Kind, Map!File, Map!Complete
  <2>5. Map!HeldIsCurrent'
    BY <1>12 DEF Map!FinalizeModel, Map!HeldIsCurrent
  <2>6. Map!ModelHasProvenance'
    BY <1>12, <1>0
       DEF Map!FinalizeModel, MapTypes, Map!ModelHasProvenance, BuildingOK,
           DirTypes, Made
  <2>7. Map!MemberIsFinished'
    BY <1>12, <1>0
       DEF Map!FinalizeModel, Map!MemberIsFinished, BuildingOK, Building
  <2>8. Map!ExportIsFinished'
    BY <1>12, <1>0
       DEF Map!FinalizeModel, Map!ExportIsFinished, BuildingOK, Building
  <2> QED  BY <2>1, <2>2, <2>3, <2>4, <2>5, <2>6, <2>7, <2>8 DEF MapIInv
<1>13. ASSUME Map!ReleaseBank PROVE MapIInv'
  <2>1. MapTypes'
    <3>1. sc' \in BOOLEAN /\ headed' \in BOOLEAN /\ mapLeg' \in 0 .. MapLegs
      BY <1>13, <1>0 DEF Map!ReleaseBank, MapTypes
    <3>2. DirTypes'
      BY <1>13, <1>0 DEF Map!ReleaseBank, MapTypes, DirTypes, Receipt
    <3>3. export' \in [Map!Kind -> Export \cup {None}]
      BY <1>13, <1>0 DEF Map!ReleaseBank, MapTypes
    <3>4. bundle' \in Bundle \cup {None}
      BY <1>13, <1>0 DEF Map!ReleaseBank, MapTypes
    <3>5. map' \in Process \cup {None}
      BY <1>13, <1>0
         DEF Map!ReleaseBank, MapTypes, Map!Goes, Map!ToHead, Process, Place, Using,
             Publishing
    <3> QED  BY <3>1, <3>2, <3>3, <3>4, <3>5 DEF MapTypes
  <2>2. BundleIsOurs'
    BY <1>13, <1>0 DEF Map!ReleaseBank, BundleIsOurs, Map!Goes, Map!ToHead
  <2>3. BuildingOK'
    BY <1>13 DEF Map!ReleaseBank, BuildingOK, Building, Map!Goes, Map!ToHead
  <2>4. UsingOK'
    BY <1>13, <1>0
       DEF Map!ReleaseBank, UsingOK, Publishing, Using, Map!Goes, Map!ToHead, Map!Complete
  <2>5. Map!HeldIsCurrent'
    BY <1>13, <1>0 DEF Map!ReleaseBank, Map!HeldIsCurrent, Map!Goes, Map!ToHead
  <2>6. Map!ModelHasProvenance'
    BY <1>13, <1>0 DEF Map!ReleaseBank, Map!ModelHasProvenance, Map!Complete
  <2>7. Map!MemberIsFinished'
    BY <1>13, <1>0 DEF Map!ReleaseBank, Map!MemberIsFinished, Map!Complete
  <2>8. Map!ExportIsFinished'
    BY <1>13, <1>0 DEF Map!ReleaseBank, Map!ExportIsFinished, Map!Complete
  <2> QED  BY <2>1, <2>2, <2>3, <2>4, <2>5, <2>6, <2>7, <2>8 DEF MapIInv
<1>14. ASSUME Map!HeadFails PROVE MapIInv'
  <2>1. MapTypes'
    <3>1. sc' \in BOOLEAN /\ headed' \in BOOLEAN /\ mapLeg' \in 0 .. MapLegs
      BY <1>14, <1>0 DEF Map!HeadFails, MapTypes
    <3>2. DirTypes'
      BY <1>14, <1>0 DEF Map!HeadFails, MapTypes, DirTypes
    <3>3. export' \in [Map!Kind -> Export \cup {None}]
      BY <1>14, <1>0 DEF Map!HeadFails, MapTypes
    <3>4. bundle' \in Bundle \cup {None}
      BY <1>14, <1>0 DEF Map!HeadFails, MapTypes
    <3>5. map' \in Process \cup {None}
      BY <1>14 DEF Map!HeadFails, Map!Leaves
    <3> QED  BY <3>1, <3>2, <3>3, <3>4, <3>5 DEF MapTypes
  <2>2. BundleIsOurs'
    BY <1>14 DEF Map!HeadFails, BundleIsOurs, Map!Leaves
  <2>3. BuildingOK'
    BY <1>14 DEF Map!HeadFails, BuildingOK, Map!Leaves
  <2>4. UsingOK'
    BY <1>14 DEF Map!HeadFails, UsingOK, Map!Leaves
  <2>5. Map!HeldIsCurrent'
    BY <1>14 DEF Map!HeadFails, Map!HeldIsCurrent, Map!Leaves
  <2>6. Map!ModelHasProvenance'
    BY <1>14, <1>0 DEF Map!HeadFails, Map!ModelHasProvenance, Map!Complete
  <2>7. Map!MemberIsFinished'
    BY <1>14, <1>0 DEF Map!HeadFails, Map!MemberIsFinished, Map!Complete
  <2>8. Map!ExportIsFinished'
    BY <1>14, <1>0 DEF Map!HeadFails, Map!ExportIsFinished, Map!Complete
  <2> QED  BY <2>1, <2>2, <2>3, <2>4, <2>5, <2>6, <2>7, <2>8 DEF MapIInv
<1>15. ASSUME Map!KeepExport PROVE MapIInv'
  <2>1. MapTypes'
    <3>1. sc' \in BOOLEAN /\ headed' \in BOOLEAN /\ mapLeg' \in 0 .. MapLegs
      BY <1>15, <1>0 DEF Map!KeepExport, MapTypes
    <3>2. DirTypes'
      BY <1>15, <1>0 DEF Map!KeepExport, MapTypes, DirTypes
    <3>3. export' \in [Map!Kind -> Export \cup {None}]
      BY <1>15, <1>0 DEF Map!KeepExport, MapTypes
    <3>4. bundle' \in Bundle \cup {None}
      BY <1>15, <1>0 DEF Map!KeepExport, MapTypes
    <3>5. map' \in Process \cup {None}
      BY <1>15, <1>0
         DEF Map!KeepExport, Map!Exported, MapTypes, Map!Goes, Map!Leaves,
             Process, Place, Using, Publishing
    <3> QED  BY <3>1, <3>2, <3>3, <3>4, <3>5 DEF MapTypes
  <2>2. BundleIsOurs'
    BY <1>15, <1>0, <1>p
       DEF Map!KeepExport, Map!Exported, BundleIsOurs, Process, Map!Goes,
           Map!Leaves
  <2>3. BuildingOK'
    BY <1>15, <1>p
       DEF Map!KeepExport, Map!Exported, BuildingOK, Process, Building,
           Map!Goes, Map!Leaves
  <2>4. UsingOK'
    BY <1>15, <1>0, <1>p
       DEF Map!KeepExport, Map!Exported, UsingOK, Process, Publishing, Using,
           Map!Goes, Map!Leaves, Map!Complete
  <2>5. Map!HeldIsCurrent'
    BY <1>15, <1>0, <1>p
       DEF Map!KeepExport, Map!Exported, Map!HeldIsCurrent, Process, Map!Goes,
           Map!Leaves
  <2>6. Map!ModelHasProvenance'
    BY <1>15, <1>0 DEF Map!KeepExport, Map!ModelHasProvenance, Map!Complete
  <2>7. Map!MemberIsFinished'
    BY <1>15, <1>0 DEF Map!KeepExport, Map!MemberIsFinished, Map!Complete
  <2>8. Map!ExportIsFinished'
    BY <1>15, <1>0 DEF Map!KeepExport, Map!ExportIsFinished, Map!Complete
  <2> QED  BY <2>1, <2>2, <2>3, <2>4, <2>5, <2>6, <2>7, <2>8 DEF MapIInv
<1>16. ASSUME Map!OpenExport PROVE MapIInv'
  <2>1. MapTypes'
    <3>1. sc' \in BOOLEAN /\ headed' \in BOOLEAN /\ mapLeg' \in 0 .. MapLegs
      BY <1>16, <1>0 DEF Map!OpenExport, MapTypes
    <3>2. DirTypes'
      BY <1>16, <1>0 DEF Map!OpenExport, MapTypes, DirTypes
    <3>3. export' \in [Map!Kind -> Export \cup {None}]
      BY <1>16, <1>0
         DEF Map!OpenExport, MapTypes, Export, Process, UsingOK, Using,
             Publishing
    <3>4. bundle' \in Bundle \cup {None}
      BY <1>16, <1>0 DEF Map!OpenExport, MapTypes
    <3>5. map' \in Process \cup {None}
      BY <1>16, <1>0
         DEF Map!OpenExport, MapTypes, Map!Goes, Map!Leaves, Process, Place,
             Using, Publishing
    <3> QED  BY <3>1, <3>2, <3>3, <3>4, <3>5 DEF MapTypes
  <2>2. BundleIsOurs'
    BY <1>16, <1>0, <1>p
       DEF Map!OpenExport, BundleIsOurs, Process, Map!Goes, Map!Leaves
  <2>3. BuildingOK'
    BY <1>16, <1>p
       DEF Map!OpenExport, BuildingOK, Process, Building, Map!Goes, Map!Leaves
  <2>4. UsingOK'
    BY <1>16, <1>0
       DEF Map!OpenExport, MapTypes, UsingOK, Process, Publishing, Using,
           Map!Operator, Map!Goes, Map!Leaves, Map!Complete
  <2>5. Map!HeldIsCurrent'
    BY <1>16, <1>0, <1>p
       DEF Map!OpenExport, Map!HeldIsCurrent, Process, Map!Goes, Map!Leaves
  <2>6. Map!ModelHasProvenance'
    BY <1>16, <1>0 DEF Map!OpenExport, Map!ModelHasProvenance, Map!Complete
  <2>7. Map!MemberIsFinished'
    BY <1>16, <1>0 DEF Map!OpenExport, Map!MemberIsFinished, Map!Complete
  <2>8. Map!ExportIsFinished'
    BY <1>16, <1>0
       DEF Map!OpenExport, MapTypes, Map!ExportIsFinished, UsingOK,
           Publishing, Using, Map!Complete
  <2> QED  BY <2>1, <2>2, <2>3, <2>4, <2>5, <2>6, <2>7, <2>8 DEF MapIInv
<1>17. ASSUME Map!Session PROVE MapIInv'
  <2>1. MapTypes'
    <3>1. sc' \in BOOLEAN /\ headed' \in BOOLEAN /\ mapLeg' \in 0 .. MapLegs
      BY <1>17, <1>0 DEF Map!Session, MapTypes
    <3>2. DirTypes'
      BY <1>17, <1>0 DEF Map!Session, MapTypes, DirTypes
    <3>3. export' \in [Map!Kind -> Export \cup {None}]
      BY <1>17, <1>0 DEF Map!Session, MapTypes, Export, Process, UsingOK
    <3>4. bundle' \in Bundle \cup {None}
      BY <1>17, <1>0 DEF Map!Session, MapTypes
    <3>5. map' \in Process \cup {None}
      BY <1>17, <1>0 DEF Map!Session, MapTypes
    <3> QED  BY <3>1, <3>2, <3>3, <3>4, <3>5 DEF MapTypes
  <2>2. BundleIsOurs'
    BY <1>17, <1>0 DEF Map!Session, BundleIsOurs
  <2>3. BuildingOK'
    BY <1>17, <1>0 DEF Map!Session, BuildingOK, Map!Complete
  <2>4. UsingOK'
    BY <1>17, <1>0 DEF Map!Session, MapTypes, UsingOK, Export, Map!Complete
  <2>5. Map!HeldIsCurrent'
    BY <1>17, <1>0 DEF Map!Session, Map!HeldIsCurrent
  <2>6. Map!ModelHasProvenance'
    BY <1>17, <1>0 DEF Map!Session, Map!ModelHasProvenance, Map!Complete
  <2>7. Map!MemberIsFinished'
    BY <1>17, <1>0 DEF Map!Session, Map!MemberIsFinished, Map!Complete
  <2>8. Map!ExportIsFinished'
    BY <1>17, <1>0
       DEF Map!Session, Map!ExportIsFinished, UsingOK, Map!Complete
  <2> QED  BY <2>1, <2>2, <2>3, <2>4, <2>5, <2>6, <2>7, <2>8 DEF MapIInv
<1>18. ASSUME Map!FinalizeExport PROVE MapIInv'
  <2>1. MapTypes'
    <3>1. sc' \in BOOLEAN /\ headed' \in BOOLEAN /\ mapLeg' \in 0 .. MapLegs
      BY <1>18, <1>0 DEF Map!FinalizeExport, MapTypes
    <3>2. DirTypes'
      BY <1>18, <1>0 DEF Map!FinalizeExport, MapTypes, DirTypes
    <3>3. export' \in [Map!Kind -> Export \cup {None}]
      BY <1>18, <1>0
         DEF Map!FinalizeExport, MapTypes, Export, Process, UsingOK
    <3>4. bundle' \in Bundle \cup {None}
      BY <1>18, <1>0 DEF Map!FinalizeExport, MapTypes
    <3>5. map' \in Process \cup {None}
      BY <1>18, <1>0
         DEF Map!FinalizeExport, Map!Exported, MapTypes, Map!Goes, Map!Leaves,
             Process, Place, Using, Publishing
    <3> QED  BY <3>1, <3>2, <3>3, <3>4, <3>5 DEF MapTypes
  <2>2. BundleIsOurs'
    BY <1>18, <1>0, <1>p
       DEF Map!FinalizeExport, Map!Exported, BundleIsOurs, Process, Map!Goes,
           Map!Leaves
  <2>3. BuildingOK'
    BY <1>18, <1>p
       DEF Map!FinalizeExport, Map!Exported, BuildingOK, Process, Building,
           Map!Goes, Map!Leaves
  <2>4. UsingOK'
    BY <1>18, <1>0, <1>p
       DEF Map!FinalizeExport, Map!Exported, UsingOK, Process, Publishing,
           Using, Map!Goes, Map!Leaves, Map!Complete
  <2>5. Map!HeldIsCurrent'
    BY <1>18, <1>0, <1>p
       DEF Map!FinalizeExport, Map!Exported, Map!HeldIsCurrent, Process,
           Map!Goes, Map!Leaves
  <2>6. Map!ModelHasProvenance'
    BY <1>18, <1>0
       DEF Map!FinalizeExport, Map!ModelHasProvenance, Map!Complete
  <2>7. Map!MemberIsFinished'
    BY <1>18, <1>0 DEF Map!FinalizeExport, Map!MemberIsFinished, Map!Complete
  <2>8. Map!ExportIsFinished'
    BY <1>18, <1>0
       DEF Map!FinalizeExport, Map!ExportIsFinished, UsingOK, Map!Complete
  <2> QED  BY <2>1, <2>2, <2>3, <2>4, <2>5, <2>6, <2>7, <2>8 DEF MapIInv
<1>19. ASSUME Map!Register PROVE MapIInv'
  <2>1. MapTypes'
    <3>1. sc' \in BOOLEAN /\ headed' \in BOOLEAN /\ mapLeg' \in 0 .. MapLegs
      BY <1>19, <1>0 DEF Map!Register, MapTypes
    <3>2. DirTypes'
      BY <1>19, <1>0 DEF Map!Register, MapTypes, DirTypes
    <3>3. export' \in [Map!Kind -> Export \cup {None}]
      BY <1>19, <1>0 DEF Map!Register, MapTypes
    <3>4. bundle' \in Bundle \cup {None}
      <4>1. bundle \in Bundle
        BY <1>19, <1>0 DEF Map!Register, MapTypes, BundleIsOurs, UsingOK
      <4>2. bundle' = bundle \/ bundle' = [bundle EXCEPT !.ready = FALSE]
        BY <1>19 DEF Map!Register
      <4> QED
        BY ONLY <4>1, <4>2 DEF Bundle
    <3>5. map' \in Process \cup {None}
      BY <1>19, <1>0
         DEF Map!Register, MapTypes, Map!Goes, Map!Leaves, Process, Place,
             Using, Publishing
    <3> QED  BY <3>1, <3>2, <3>3, <3>4, <3>5 DEF MapTypes
  <2>2. BundleIsOurs'
    <3>1. bundle \in Bundle /\ bundle.v = map.op.v /\ map # None
          /\ (map' = None \/ map' = [map EXCEPT !.at = "link"])
          /\ (bundle' = bundle \/ bundle' = [bundle EXCEPT !.ready = FALSE])
      BY <1>19, <1>0
         DEF Map!Register, Map!Goes, Map!Leaves, MapTypes, BundleIsOurs, UsingOK
    <3>2. bundle' \in Bundle /\ bundle'.v = map.op.v /\ (map' # None => map'.op = map.op)
      BY <3>1, <1>p DEF Bundle, Process
    <3> QED  BY <3>2 DEF BundleIsOurs
  <2>3. BuildingOK'
    BY <1>19, <1>p
       DEF Map!Register, BuildingOK, Process, Building, Map!Goes, Map!Leaves
  <2>4. UsingOK'
    BY <1>19, <1>0, <1>p
       DEF Map!Register, UsingOK, Process, Publishing, Using, Map!Goes,
           Map!Leaves, Map!Complete
  <2>5. Map!HeldIsCurrent'
    BY <1>19, <1>0, <1>p
       DEF Map!Register, Map!HeldIsCurrent, Process, Map!Goes, Map!Leaves
  <2>6. Map!ModelHasProvenance'
    BY <1>19, <1>0 DEF Map!Register, Map!ModelHasProvenance, Map!Complete
  <2>7. Map!MemberIsFinished'
    BY <1>19, <1>0
       DEF Map!Register, MapTypes, Map!MemberIsFinished, BundleIsOurs, UsingOK, Bundle,
           Map!Complete
  <2>8. Map!ExportIsFinished'
    BY <1>19, <1>0 DEF Map!Register, Map!ExportIsFinished, Map!Complete
  <2> QED  BY <2>1, <2>2, <2>3, <2>4, <2>5, <2>6, <2>7, <2>8 DEF MapIInv
<1>20. ASSUME Map!Link PROVE MapIInv'
  <2>1. MapTypes'
    <3>1. sc' \in BOOLEAN /\ headed' \in BOOLEAN /\ mapLeg' \in 0 .. MapLegs
      BY <1>20, <1>0 DEF Map!Link, MapTypes
    <3>2. DirTypes'
      BY <1>20, <1>0 DEF Map!Link, MapTypes, DirTypes
    <3>3. export' \in [Map!Kind -> Export \cup {None}]
      BY <1>20, <1>0 DEF Map!Link, MapTypes
    <3>4. bundle' \in Bundle \cup {None}
      BY <1>20, <1>0
         DEF Map!Link, MapTypes, Map!Leaves, Map!Complete, Bundle, Process,
             Map!Operator, BundleIsOurs, UsingOK, Using, Publishing
    <3>5. map' \in Process \cup {None}
      BY <1>20 DEF Map!Link, Map!Leaves
    <3> QED  BY <3>1, <3>2, <3>3, <3>4, <3>5 DEF MapTypes
  <2>2. BundleIsOurs'
    BY <1>20 DEF Map!Link, BundleIsOurs, Map!Leaves
  <2>3. BuildingOK'
    BY <1>20 DEF Map!Link, BuildingOK, Map!Leaves
  <2>4. UsingOK'
    BY <1>20 DEF Map!Link, UsingOK, Map!Leaves
  <2>5. Map!HeldIsCurrent'
    BY <1>20 DEF Map!Link, Map!HeldIsCurrent, Map!Leaves
  <2>6. Map!ModelHasProvenance'
    BY <1>20, <1>0 DEF Map!Link, Map!ModelHasProvenance, Map!Complete
  <2>7. Map!MemberIsFinished'
    BY <1>20, <1>0
       DEF Map!Link, Map!MemberIsFinished, UsingOK, BundleIsOurs, Publishing,
           Using, Map!Complete
  <2>8. Map!ExportIsFinished'
    BY <1>20, <1>0 DEF Map!Link, Map!ExportIsFinished, Map!Complete
  <2> QED  BY <2>1, <2>2, <2>3, <2>4, <2>5, <2>6, <2>7, <2>8 DEF MapIInv
<1>21. ASSUME Map!Kill PROVE MapIInv'
  <2>1. MapTypes'
    <3>1. sc' \in BOOLEAN /\ headed' \in BOOLEAN /\ mapLeg' \in 0 .. MapLegs
      BY <1>21, <1>0 DEF Map!Kill, MapTypes
    <3>2. DirTypes'
      BY <1>21, <1>0 DEF Map!Kill, MapTypes, DirTypes
    <3>3. export' \in [Map!Kind -> Export \cup {None}]
      BY <1>21, <1>0 DEF Map!Kill, MapTypes
    <3>4. bundle' \in Bundle \cup {None}
      BY <1>21, <1>0 DEF Map!Kill, MapTypes
    <3>5. map' \in Process \cup {None}
      BY <1>21 DEF Map!Kill, Map!Leaves
    <3> QED  BY <3>1, <3>2, <3>3, <3>4, <3>5 DEF MapTypes
  <2>2. BundleIsOurs'
    BY <1>21 DEF Map!Kill, BundleIsOurs, Map!Leaves
  <2>3. BuildingOK'
    BY <1>21 DEF Map!Kill, BuildingOK, Map!Leaves
  <2>4. UsingOK'
    BY <1>21 DEF Map!Kill, UsingOK, Map!Leaves
  <2>5. Map!HeldIsCurrent'
    BY <1>21 DEF Map!Kill, Map!HeldIsCurrent, Map!Leaves
  <2>6. Map!ModelHasProvenance'
    BY <1>21, <1>0 DEF Map!Kill, Map!ModelHasProvenance, Map!Complete
  <2>7. Map!MemberIsFinished'
    BY <1>21, <1>0 DEF Map!Kill, Map!MemberIsFinished, Map!Complete
  <2>8. Map!ExportIsFinished'
    BY <1>21, <1>0 DEF Map!Kill, Map!ExportIsFinished, Map!Complete
  <2> QED  BY <2>1, <2>2, <2>3, <2>4, <2>5, <2>6, <2>7, <2>8 DEF MapIInv
<1> QED  BY <1>1, <1>2, <1>3, <1>4, <1>5, <1>6, <1>7, <1>8, <1>9, <1>10,
            <1>11, <1>12, <1>13, <1>14, <1>15, <1>16, <1>17, <1>18, <1>19,
            <1>20, <1>21 DEF Map!Next

\* MapInv in every reachable state.
THEOREM MapKeepsItsPromises == Map!Spec => []MapInv
<1>1. Map!Init => MapIInv
  BY MapInit
<1>2. MapIInv /\ [Map!Next]_(Map!vars) => MapIInv'
  BY MapNext DEF mapVars, Map!vars
<1>3. MapIInv => MapInv
  BY DEF MapInv, Map!MapInv, Map!TypeOK, MapIInv, MapTypes, DirTypes, Made,
         Receipt, Bundle, Export, Process
<1> QED
  BY <1>1, <1>2, <1>3, PTL DEF Map!Spec

\* No step rebuilds or removes a complete model, or its receipts.
THEOREM NoCompleteModelIsTouched == Map!Spec => CompleteIsKept
<1>1. MapIInv /\ [Map!Next]_(Map!vars) =>
        [Map!Complete => /\ dir'.model = dir.model
                         /\ dir'.bankReceipt = dir.bankReceipt
                         /\ dir'.moments = dir.moments]_(Map!vars)
  <2> SUFFICES ASSUME MapIInv, Map!Next, Map!Complete
               PROVE  dir'.model = dir.model /\ dir'.bankReceipt = dir.bankReceipt /\ dir'.moments = dir.moments
    OBVIOUS
  <2>1. DirTypes /\ (map # None => map.at \notin Building)
    BY DEF MapIInv, MapTypes, BuildingOK
  <2>2. CASE dir' = dir
    BY <2>2
  <2>3. CASE dir' # dir
    BY <2>1, <2>3
       DEF Map!Next, Map!Start, Map!OpenBundle, Map!CommitBundle,
           Map!UseMember, Map!ReuseModel, Map!ResumeConstructor, Map!Remove,
           Map!MakeBank, Map!MakeMoments, Map!Record, Map!OpenModel,
           Map!FinalizeModel, Map!ReleaseBank, Map!HeadFails, Map!KeepExport,
           Map!OpenExport, Map!Session, Map!FinalizeExport, Map!Register,
           Map!Link, Map!Kill, Building, DirTypes, Map!File
  <2> QED  BY <2>3
<1>2. Map!Init => MapIInv
  BY MapInit
<1>3. MapIInv /\ [Map!Next]_(Map!vars) => MapIInv'
  BY MapNext DEF mapVars, Map!vars
<1> QED
  BY <1>1, <1>2, <1>3, PTL DEF Map!Spec, CompleteIsKept, Map!CompleteIsKept

-----------------------------------------------------------------------------
(* CdStream: ranges of knots *)

\* The pairs of knots a stack may be.
Stack == Int \X Int

\* What chunk's ghosts are before it is added: those of the first are in its window.
TailAt(c) == IF c = 0 THEN None ELSE <<c * chunk - GH, c * chunk + GH>>

\* A quotient is the number of times the divisor goes into the dividend.
LEMMA Quotient ==
    ASSUME NEW a \in Nat, NEW b \in Nat \ {0}
    PROVE  /\ a \div b \in Nat
           /\ (a \div b) * b <= a /\ a < ((a \div b) + 1) * b
OBVIOUS

\* Order is kept by a product.
LEMMA Products ==
    ASSUME NEW a \in Nat, NEW b \in Nat, a <= b, NEW c \in Nat
    PROVE  a * c <= b * c
OBVIOUS

\* A chunk is a positive number of knots.
LEMMA ChunkSize ==
    ASSUME chunk \in Chunks
    PROVE  chunk \in Nat \ {0} /\ chunk \in Int /\ GH \in Nat \ {0} /\ GH \in Int
BY ChunksAssumption, GhostAssumption

\* A replay starts early enough to rebuild the ghosts of its first chunk, and its first
\* window already reaches them.
LEMMA ReplayCovers ==
    ASSUME chunk \in Chunks, NEW K \in Nat
    PROVE  /\ ReplayStart(K) \in 0 .. K
           /\ K = 0 => ReplayStart(K) = 0
           /\ K # 0 => /\ ReplayStart(K) < K
                       /\ Window(ReplayStart(K))[1] <= K * chunk - GH
                       /\ Window(ReplayStart(K))[2] > K * chunk - GH
<1> DEFINE q == (2 * GH + chunk - 1) \div chunk
           r == K - q
<1>0. chunk \in Nat \ {0} /\ chunk \in Int /\ GH \in Nat \ {0} /\ GH \in Int
  BY ChunkSize
<1>1. CASE K = 0
  BY <1>1 DEF ReplayStart
<1>2. CASE K # 0
  <2>1. q \in Nat /\ q * chunk <= 2 * GH + chunk - 1 /\ 2 * GH + chunk - 1 < (q + 1) * chunk
    BY <1>0, Quotient
  <2> HIDE DEF q
  <2>2. (q + 1) * chunk = q * chunk + chunk /\ q * chunk \in Int
    BY <1>0, <2>1
  <2>3. q * chunk >= 2 * GH /\ q * chunk < 2 * GH + chunk
    BY <1>0, <2>1, <2>2
  <2>4. q # 0
    BY <1>0, <2>3
  <2>5. ReplayStart(K) = IF r > 0 THEN r ELSE 0
    BY <1>2 DEF ReplayStart, q
  <2>6. CASE r > 0
    <3>1. ReplayStart(K) = r /\ r \in Nat /\ r < K /\ r # 0
      BY <2>1, <2>4, <2>5, <2>6
    <3>2. r * chunk = K * chunk - q * chunk /\ (r + 1) * chunk = K * chunk - q * chunk + chunk
          /\ K * chunk \in Int
      BY <1>0, <2>1
    <3>3. Window(r) = <<r * chunk + GH, (r + 1) * chunk + GH>>
      BY <3>1 DEF Window
    <3>4. Window(r)[1] = r * chunk + GH /\ Window(r)[2] = (r + 1) * chunk + GH
      BY <3>3
    <3> HIDE DEF r
    <3>5. /\ Window(r)[1] = K * chunk - q * chunk + GH
          /\ Window(r)[2] = K * chunk - q * chunk + chunk + GH
      BY <3>2, <3>4
    <3>6. Window(r)[1] <= K * chunk - GH /\ Window(r)[2] > K * chunk - GH
      BY <1>0, <2>2, <2>3, <3>2, <3>5
    <3> QED
      BY <1>2, <3>1, <3>6
  <2>7. CASE ~(r > 0)
    <3>1. ReplayStart(K) = 0 /\ K <= q /\ K >= 1
      BY <1>2, <2>1, <2>5, <2>7
    <3>2. K * chunk <= q * chunk /\ K * chunk >= 1 * chunk /\ K * chunk \in Int
      BY <1>0, <2>1, <3>1, Products
    <3>3. Window(0) = <<0 - GH, 1 * chunk + GH>>
      BY DEF Window
    <3>4. Window(0)[1] = 0 - GH /\ Window(0)[2] = chunk + GH
      BY <1>0, <3>3
    <3>5. Window(0)[1] <= K * chunk - GH /\ Window(0)[2] > K * chunk - GH
      BY <1>0, <2>2, <2>3, <3>2, <3>4
    <3> QED
      BY <1>2, <3>1, <3>5
  <2> QED
    BY <2>6, <2>7
<1> QED
  BY <1>1, <1>2

\* A window continues the stack of its predecessors.
LEMMA WindowJoins ==
    ASSUME chunk \in Chunks, NEW c \in Nat \ {0}, NEW lo \in Int
    PROVE  /\ Join(<<lo, c * chunk + GH>>, Window(c)) = <<lo, (c + 1) * chunk + GH>>
           /\ (c + 1) * chunk = c * chunk + chunk /\ c * chunk \in Int
<1>0. chunk \in Int /\ GH \in Int
  BY ChunkSize
<1>1. Window(c) = <<c * chunk + GH, (c + 1) * chunk + GH>>
  BY DEF Window
<1>2. <<lo, c * chunk + GH>> # Torn
  <2>1. <<lo, c * chunk + GH>> \in Int \X Int
    BY <1>0
  <2> QED
    BY <2>1, NoneAssumption
<1> QED
  BY <1>0, <1>1, <1>2 DEF Join

\* The last knots of a stack that is long enough.
LEMMA LongTail ==
    ASSUME NEW lo \in Int, NEW hi \in Int, hi - lo >= 2 * GH
    PROVE  TailOf(<<lo, hi>>) = <<hi - 2 * GH, hi>>
<1>1. <<lo, hi>> # Torn
  <2>1. <<lo, hi>> \in Int \X Int
    OBVIOUS
  <2> QED
    BY <2>1, NoneAssumption
<1> QED
  BY <1>1 DEF TailOf

\* A stack is not None.
LEMMA StackIsNotNone ==
    ASSUME NEW lo \in Int, NEW hi \in Int
    PROVE  <<lo, hi>> # None
<1>1. <<lo, hi>> \in Int \X Int
  OBVIOUS
<1> QED
  BY <1>1, NoneAssumption

\* With the ghosts of its predecessor, or none before it, a chunk is read with its own
\* knots and its ghosts, and leaves the next one its ghosts.
LEMMA GhostsRoll ==
    ASSUME chunk \in Chunks, NEW c \in Nat
    PROVE  LET box == IF TailAt(c) = None THEN Window(c) ELSE Join(TailAt(c), Window(c))
           IN  box = Extended(c) /\ TailOf(box) = TailAt(c + 1)
<1>0. chunk \in Nat \ {0} /\ chunk \in Int /\ GH \in Nat \ {0} /\ GH \in Int
  BY ChunkSize
<1> DEFINE box == IF TailAt(c) = None THEN Window(c) ELSE Join(TailAt(c), Window(c))
<1>1. c * chunk \in Int /\ (c + 1) * chunk = c * chunk + chunk
  BY <1>0
<1>2. box = Extended(c)
  <2>1. CASE c = 0
    BY <1>0, <2>1 DEF TailAt, Window, Extended
  <2>2. CASE c # 0
    <3>1. TailAt(c) = <<c * chunk - GH, c * chunk + GH>> /\ TailAt(c) # None
      BY <1>0, <1>1, <2>2, StackIsNotNone DEF TailAt
    <3>2. c * chunk - GH \in Int
      BY <1>0, <1>1
    <3> QED
      BY <2>2, <3>1, <3>2, WindowJoins DEF Extended
  <2> QED
    BY <2>1, <2>2
<1>3. Extended(c) = <<c * chunk - GH, c * chunk + chunk + GH>>
  BY <1>1 DEF Extended
<1>4. TailOf(Extended(c)) = <<c * chunk + chunk + GH - 2 * GH, c * chunk + chunk + GH>>
  BY <1>0, <1>1, <1>3, LongTail
<1>5. TailAt(c + 1) = <<c * chunk + chunk - GH, c * chunk + chunk + GH>>
  <2>1. c + 1 # 0
    OBVIOUS
  <2>2. TailAt(c + 1) = <<(c + 1) * chunk - GH, (c + 1) * chunk + GH>>
    BY <2>1 DEF TailAt
  <2> QED
    BY <1>0, <1>1, <2>2
<1>6. c * chunk + chunk + GH - 2 * GH = c * chunk + chunk - GH
  BY <1>0, <1>1
<1> QED
  BY <1>2, <1>4, <1>5, <1>6

-----------------------------------------------------------------------------
(* CdStream: what is added *)

Added == [chunk : Nat, knots : Stack]
Reals(r, from) ==
    [k \in 1 .. r |-> [chunk |-> First(from) + k - 1, knots |-> Extended(First(from) + k - 1)]]

\* The first real chunk of a deck is one of its chunks.
LEMMA FirstChunk ==
    ASSUME NEW from \in Nat \cup {None}
    PROVE  First(from) \in 0 .. NR - 1 /\ First(from) \in Nat /\ (from = None => First(from) = 0)
BY CountsAssumption DEF First

\* What an unbroken run has added.
LEMMA UnbrokenIs ==
    ASSUME NEW i, NEW r, NEW from
    PROVE  Unbroken(i, r, from) = [imag |-> UpTo(i), real |-> Reals(r, from)]
BY DEF Unbroken, Reals

\* The list of the chunks up to n is that long.
LEMMA UpToList ==
    ASSUME NEW n \in Nat
    PROVE  /\ UpTo(n) \in Seq(Nat) /\ Len(UpTo(n)) = n
           /\ Append(UpTo(n), n) = UpTo(n + 1)
           /\ UpTo(0) = <<>>
<1>1. ASSUME NEW m \in Nat
      PROVE  UpTo(m) \in Seq(Nat) /\ Len(UpTo(m)) = m /\ \A k \in 1 .. m : UpTo(m)[k] = k - 1
  <2>1. UpTo(m) \in [1 .. m -> Nat]
    BY DEF UpTo
  <2> QED
    BY <2>1 DEF UpTo
<1>2. Append(UpTo(n), n) = UpTo(n + 1)
  <2> DEFINE s == Append(UpTo(n), n)
  <2>0. UpTo(n) \in Seq(Nat) /\ Len(UpTo(n)) = n
    BY <1>1
  <2>1. /\ s \in Seq(Nat) /\ Len(s) = n + 1 /\ s[n + 1] = n
        /\ \A k \in 1 .. n : s[k] = UpTo(n)[k]
    BY <2>0, AppendProperties
  <2> HIDE DEF s
  <2>2. \A k \in 1 .. Len(s) : s[k] = UpTo(n + 1)[k]
    <3> SUFFICES ASSUME NEW k \in 1 .. n + 1 PROVE s[k] = UpTo(n + 1)[k]
      BY <2>1
    <3>1. UpTo(n + 1)[k] = k - 1
      BY DEF UpTo
    <3>2. CASE k \in 1 .. n
      BY <2>1, <3>1, <3>2 DEF UpTo
    <3>3. CASE k = n + 1
      BY <2>1, <3>1, <3>3
    <3> QED
      BY <3>2, <3>3
  <2>3. UpTo(n + 1) \in Seq(Nat) /\ Len(UpTo(n + 1)) = n + 1
    BY <1>1
  <2>4. s = UpTo(n + 1)
    BY <2>1, <2>2, <2>3, SeqEqual
  <2> QED
    BY <2>4 DEF s
<1>3. UpTo(0) = <<>>
  BY <1>1, EmptySeq
<1> QED
  BY <1>1, <1>2, <1>3

\* The list of the real chunks likewise, each with its own knots and its ghosts.
LEMMA RealsList ==
    ASSUME chunk \in Chunks, NEW n \in Nat, NEW from \in Nat \cup {None}
    PROVE  /\ Reals(n, from) \in Seq(Added) /\ Len(Reals(n, from)) = n
           /\ Append(Reals(n, from), [chunk |-> First(from) + n, knots |-> Extended(First(from) + n)])
                = Reals(n + 1, from)
           /\ Reals(0, from) = <<>>
<1> DEFINE e(k) == [chunk |-> First(from) + k - 1, knots |-> Extended(First(from) + k - 1)]
<1>1. \A c \in Nat : Extended(c) \in Stack
  BY ChunkSize DEF Extended, Stack
<1>2. \A k \in Nat \ {0} : e(k) \in Added
  <2> SUFFICES ASSUME NEW k \in Nat \ {0} PROVE e(k) \in Added
    OBVIOUS
  <2>1. First(from) + k - 1 \in Nat
    BY FirstChunk
  <2> QED
    BY <1>1, <2>1 DEF Added
<1>3. \A m \in Nat : Reals(m, from) = [k \in 1 .. m |-> e(k)]
  BY DEF Reals
<1> HIDE DEF e
<1>4. ASSUME NEW m \in Nat
      PROVE  /\ Reals(m, from) \in Seq(Added) /\ Len(Reals(m, from)) = m
             /\ \A k \in 1 .. m : Reals(m, from)[k] = e(k)
  <2>1. Reals(m, from) \in [1 .. m -> Added]
    BY <1>2, <1>3
  <2> QED
    BY <1>3, <2>1
<1>5. Append(Reals(n, from), e(n + 1)) = Reals(n + 1, from)
  <2> DEFINE s == Append(Reals(n, from), e(n + 1))
  <2>0. e(n + 1) \in Added
    BY <1>2
  <2>1. /\ s \in Seq(Added) /\ Len(s) = n + 1 /\ s[n + 1] = e(n + 1)
        /\ \A k \in 1 .. n : s[k] = Reals(n, from)[k]
    BY <1>4, <2>0, AppendProperties
  <2>2. \A k \in 1 .. Len(s) : s[k] = Reals(n + 1, from)[k]
    <3> SUFFICES ASSUME NEW k \in 1 .. n + 1 PROVE s[k] = Reals(n + 1, from)[k]
      BY <2>1
    <3>1. Reals(n + 1, from)[k] = e(k)
      BY <1>4
    <3>2. k \in 1 .. n \/ k = n + 1
      OBVIOUS
    <3>3. k \in 1 .. n => s[k] = e(k)
      BY <1>4, <2>1
    <3> QED
      BY <2>1, <3>1, <3>2, <3>3
  <2>3. Reals(n + 1, from) \in Seq(Added) /\ Len(Reals(n + 1, from)) = n + 1
    BY <1>4
  <2> QED
    BY <2>1, <2>2, <2>3, SeqEqual
<1>6. e(n + 1) = [chunk |-> First(from) + n, knots |-> Extended(First(from) + n)]
  <2>1. First(from) + (n + 1) - 1 = First(from) + n
    BY FirstChunk
  <2> QED
    BY <2>1 DEF e
<1>7. Reals(0, from) = <<>>
  BY <1>4, EmptySeq
<1> QED
  BY <1>4, <1>5, <1>6, <1>7

-----------------------------------------------------------------------------
(* CdStream: the inductive invariant *)

Limit == Nat \cup {None}
Jobs == [mode : {"off", "write", "resume"}, imag : Limit, real : Limit, from : Limit]
Identities == [imag : Limit, from : Limit]
Runs == [imag : Nat, real : Nat, truncated : BOOLEAN]
Ghosts == [tail : Stack \cup {None}, rebuilt : Stack \cup {None}]

CdTypes ==
    /\ chunk \in Chunks /\ leg \in 0 .. Legs
    /\ place \in {"idle", "imag", "imagSaved", "real", "realSaved"}
    /\ at \in Nat /\ starts \in (0 .. NI) \X (0 .. NR)
    /\ run \in Runs /\ ghosts \in Ghosts
    /\ place = "idle" => at = 0 /\ run = NotRun /\ acc = Empty
    /\ place # "idle" => job \in Jobs

\* The first i imaginary and r real chunks of this job are added.
Has(i, r) == acc = [imag |-> UpTo(i), real |-> Reals(r, job.from)]

\* On the imaginary axis the real chunks are those a checkpoint brought, if it was
\* made past that axis; with fewer than all imaginary chunks then, there was a limit.
OnImag(i, r) ==
    /\ starts[1] <= at /\ at <= NI /\ run.imag = at - starts[1] /\ run.real = 0
    /\ starts[2] = First(job.from) + r
    /\ \/ i = at /\ (r = 0 \/ starts[1] = NI)
       \/ at = NI /\ starts[1] = NI /\ job.imag # None
    /\ ghosts = NoGhosts
OnImagSaved(i, r) ==
    /\ starts[1] <= at /\ at < NI /\ run.imag = at + 1 - starts[1] /\ run.real = 0
    /\ i = at + 1 /\ r = 0 /\ starts[2] = First(job.from)
    /\ ghosts = NoGhosts

\* What has been read of the chunks that are replayed.
Rebuilt ==
    IF at = ReplayStart(starts[2]) THEN None
    ELSE <<Window(ReplayStart(starts[2]))[1], at * chunk + GH>>
OnReal(i, r) ==
    /\ i = NI \/ job.imag # None
    /\ run.imag <= NI /\ at <= NR
    /\ \/ /\ ReplayStart(starts[2]) <= at /\ at < starts[2]
          /\ starts[2] = First(job.from) + r /\ run.real = 0
          /\ ghosts.tail = None /\ ghosts.rebuilt = Rebuilt
       \/ /\ starts[2] <= at /\ at = First(job.from) + r /\ run.real = at - starts[2]
          /\ ghosts.tail = TailAt(at) /\ ghosts.rebuilt = None
OnRealSaved(i, r) ==
    /\ i = NI \/ job.imag # None
    /\ run.imag <= NI /\ starts[2] <= at /\ at < NR
    /\ at + 1 = First(job.from) + r /\ run.real = at + 1 - starts[2] /\ r # 0
    /\ ghosts.tail = TailAt(at + 1) /\ ghosts.rebuilt = None

Progress(i, r) ==
    /\ Has(i, r)
    /\ First(job.from) <= starts[2]
    /\ place = "imag" => OnImag(i, r)
    /\ place = "imagSaved" => OnImagSaved(i, r)
    /\ place = "real" => OnReal(i, r)
    /\ place = "realSaved" => OnRealSaved(i, r)
ProgressOK == place # "idle" => \E i \in 0 .. NI, r \in 0 .. NR : Progress(i, r)

\* A checkpoint is of the chunk it names, after all before it.
Saved(i, r) ==
    /\ file.acc = [imag |-> UpTo(i), real |-> Reals(r, file.identity.from)]
    /\ \/ file.axis = "imag" /\ i # 0 /\ file.chunk = i - 1 /\ r = 0
       \/ /\ file.axis = "real" /\ r # 0 /\ file.chunk = First(file.identity.from) + r - 1
          /\ file.chunk < NR /\ (i = NI \/ file.identity.imag # None)
FileOK ==
    file # None =>
      /\ file.identity \in Identities
      /\ \E i \in 0 .. NI, r \in 0 .. NR : Saved(i, r)

CdIInv == CdTypes /\ ProgressOK /\ FileOK /\ ProductionIsWhole

-----------------------------------------------------------------------------
(* CdStream: the steps *)

\* The numbers of a process are numbers.
LEMMA CdNumbers ==
    ASSUME CdTypes
    PROVE  /\ starts[1] \in 0 .. NI /\ starts[2] \in 0 .. NR /\ at \in Nat
           /\ starts = <<starts[1], starts[2]>>
           /\ NI \in Nat \ {0} /\ NR \in Nat \ {0}
           /\ run.imag \in Nat /\ run.real \in Nat /\ run.truncated \in BOOLEAN
           /\ run = [imag |-> run.imag, real |-> run.real, truncated |-> run.truncated]
           /\ ghosts = [tail |-> ghosts.tail, rebuilt |-> ghosts.rebuilt]
           /\ chunk \in Nat \ {0}
           /\ place # "idle" =>
                /\ job.imag \in Limit /\ job.real \in Limit /\ job.from \in Limit
                /\ job.mode \in {"off", "write", "resume"}
                /\ First(job.from) \in 0 .. NR - 1
                /\ job.from = None => First(job.from) = 0
<1>1. place # "idle" =>
        /\ job.imag \in Limit /\ job.real \in Limit /\ job.from \in Limit
        /\ job.mode \in {"off", "write", "resume"}
  BY DEF CdTypes, Jobs
<1>2. place # "idle" => First(job.from) \in 0 .. NR - 1 /\ (job.from = None => First(job.from) = 0)
  BY <1>1, FirstChunk DEF Limit
<1>3. run.imag \in Nat /\ run.real \in Nat /\ run.truncated \in BOOLEAN
      /\ run = [imag |-> run.imag, real |-> run.real, truncated |-> run.truncated]
  BY DEF CdTypes, Runs
<1>4. ghosts = [tail |-> ghosts.tail, rebuilt |-> ghosts.rebuilt]
  BY DEF CdTypes, Ghosts
<1>5. /\ starts[1] \in 0 .. NI /\ starts[2] \in 0 .. NR /\ at \in Nat
      /\ starts = <<starts[1], starts[2]>>
  <2>1. starts \in (0 .. NI) \X (0 .. NR) /\ at \in Nat
    BY DEF CdTypes
  <2> QED
    BY <2>1
<1> QED
  BY <1>1, <1>2, <1>3, <1>4, <1>5, CountsAssumption, ChunkSize DEF CdTypes

\* NoGhosts, and a stack of TailAt, are ghosts.
LEMMA GhostTypes ==
    ASSUME chunk \in Chunks
    PROVE  /\ NoGhosts \in Ghosts /\ NoGhosts.tail = None /\ NoGhosts.rebuilt = None
           /\ \A c \in Nat : TailAt(c) \in Stack \cup {None} /\ Extended(c) \in Stack
           /\ \A c \in Nat : Window(c)[1] \in Int /\ Window(c)[2] \in Int
           /\ NotRun \in Runs
<1>1. chunk \in Int /\ GH \in Int
  BY ChunkSize
<1>2. ASSUME NEW c \in Nat
      PROVE  /\ TailAt(c) \in Stack \cup {None} /\ Extended(c) \in Stack
             /\ Window(c)[1] \in Int /\ Window(c)[2] \in Int
  BY <1>1 DEF TailAt, Extended, Window, Stack
<1> QED
  BY <1>2 DEF NoGhosts, Ghosts, NotRun, Runs

\* A process that is gone has left its files as they were.
LEMMA GoneKeeps ==
    ASSUME CdIInv, Gone, UNCHANGED <<chunk, leg, file>>, ProductionIsWhole'
    PROVE  CdIInv'
<1>1. <<0, 0>> \in (0 .. NI) \X (0 .. NR)
  BY CountsAssumption
<1>2. CdTypes'
  BY <1>1, GhostTypes DEF CdIInv, CdTypes, Gone
<1>3. ProgressOK'
  BY DEF Gone, ProgressOK
<1>4. FileOK'
  BY DEF CdIInv, FileOK, Saved, Reals, UpTo, Extended
<1> QED
  BY <1>2, <1>3, <1>4 DEF CdIInv

\* A process starts anew, or where the checkpoint of its identity ended.
LEMMA LaunchKeeps ==
    ASSUME CdIInv, NEW mode \in {"off", "write", "resume"}, NEW s \in Stops, Launch(mode, s)
    PROVE  CdIInv'
<1> DEFINE F == IF s.from # None THEN s.from % NR ELSE 0
<1>1. /\ place = "idle" /\ leg < Legs /\ leg' = leg + 1 /\ at' = starts'[1] /\ place' = "imag"
      /\ run' = NotRun /\ ghosts' = NoGhosts /\ UNCHANGED <<chunk, file, sigmas>>
      /\ job' = [mode |-> mode, imag |-> s.imag, real |-> s.real, from |-> s.from]
  BY DEF Launch
<1>2. s.imag \in Limit /\ s.real \in Limit /\ s.from \in Limit
  BY StopsAssumption DEF Limit
<1>3. job' \in Jobs /\ job'.imag = s.imag /\ job'.from = s.from
  BY <1>1, <1>2 DEF Jobs
<1>4. F = First(s.from) /\ F \in 0 .. NR - 1 /\ F \in Nat /\ NI \in Nat \ {0} /\ NR \in Nat \ {0}
  BY <1>2, FirstChunk, CountsAssumption DEF First, Limit
<1> HIDE DEF F
<1>5. NotRun.imag = 0 /\ NotRun.real = 0
  BY DEF NotRun
\* It is enough to say where it starts.
<1>6. SUFFICES ASSUME TRUE
               PROVE  \E i \in 0 .. NI, r \in 0 .. NR :
                         /\ acc' = [imag |-> UpTo(i), real |-> Reals(r, s.from)]
                         /\ F + r <= NR
                         /\ \/ starts' = <<i, F + r>> /\ (r = 0 \/ i = NI)
                            \/ starts' = <<NI, F + r>> /\ s.imag # None
  <2>1. PICK i \in 0 .. NI, r \in 0 .. NR :
                         /\ acc' = [imag |-> UpTo(i), real |-> Reals(r, s.from)]
                         /\ F + r <= NR
                         /\ \/ starts' = <<i, F + r>> /\ (r = 0 \/ i = NI)
                            \/ starts' = <<NI, F + r>> /\ s.imag # None
    BY <1>6
  <2>2. starts' \in (0 .. NI) \X (0 .. NR) /\ starts'[1] \in Nat /\ starts'[2] = F + r
        /\ starts'[1] <= NI
    BY <1>4, <2>1
  <2>3. leg' \in 0 .. Legs
    BY <1>1, LegsAssumption DEF CdIInv, CdTypes
  <2>4. CdTypes'
    BY <1>1, <1>3, <2>2, <2>3, GhostTypes DEF CdIInv, CdTypes
  <2>5. Has(i, r)'
    BY <1>1, <1>3, <2>1 DEF Has, UpTo, Reals, Extended, First
  <2>6. OnImag(i, r)'
    BY <1>1, <1>3, <1>4, <1>5, <2>1, <2>2 DEF OnImag
  <2>7. First(job'.from) <= starts'[2]
    BY <1>3, <1>4, <2>2
  <2>8. Progress(i, r)'
    BY <1>1, <2>5, <2>6, <2>7 DEF Progress
  <2>9. ProgressOK'
    BY <2>8 DEF ProgressOK
  <2>10. FileOK'
    BY <1>1 DEF CdIInv, FileOK, Saved, Reals, UpTo, Extended
  <2>11. ProductionIsWhole'
    BY <1>1 DEF CdIInv, ProductionIsWhole, Unbroken, UpTo, Extended
  <2> QED
    BY <2>4, <2>9, <2>10, <2>11 DEF CdIInv
<1>7. CASE ~Resumes(mode, s)
  <2>1. acc' = [imag |-> UpTo(0), real |-> Reals(0, s.from)]
    <3>1. UpTo(0) = <<>> /\ Reals(0, s.from) = <<>>
      BY <1>2, UpToList, RealsList DEF CdIInv, CdTypes, Limit
    <3> QED
      BY <1>7, <3>1 DEF Launch, Empty
  <2>2. starts' = <<0, F + 0>>
    BY <1>4, <1>7 DEF Launch, F
  <2> QED
    BY <1>4, <2>1, <2>2
<1>8. CASE Resumes(mode, s)
  <2>1. file # None /\ file.identity.imag = s.imag /\ file.identity.from = s.from
    BY <1>8 DEF Resumes
  <2>2. PICK i \in 0 .. NI, r \in 0 .. NR : Saved(i, r)
    BY <2>1 DEF CdIInv, FileOK
  <2>3. acc' = [imag |-> UpTo(i), real |-> Reals(r, s.from)]
    BY <1>8, <2>1, <2>2 DEF Launch, Saved
  <2>4. CASE file.axis = "imag" /\ i # 0 /\ file.chunk = i - 1 /\ r = 0
    <3>1. starts' = <<file.chunk + 1, F>>
      BY <1>8, <2>4 DEF Launch, F
    <3>2. file.chunk + 1 = i /\ F = F + r
      BY <1>4, <2>4
    <3> QED
      BY <1>4, <2>3, <2>4, <3>1, <3>2
  <2>5. CASE /\ file.axis = "real" /\ r # 0 /\ file.chunk = First(file.identity.from) + r - 1
             /\ file.chunk < NR /\ (i = NI \/ file.identity.imag # None)
    <3>1. file.chunk + 1 = F + r /\ F + r > F /\ F + r <= NR
      BY <1>4, <2>1, <2>5
    <3>2. starts' = <<NI, IF F > file.chunk + 1 THEN F ELSE file.chunk + 1>>
      BY <1>8, <2>5 DEF Launch, F
    <3>3. starts' = <<NI, F + r>>
      BY <1>4, <3>1, <3>2
    <3> QED
      BY <2>1, <2>3, <2>5, <3>1, <3>3
  <2> QED
    BY <2>2, <2>4, <2>5 DEF Saved
<1> QED
  BY <1>7, <1>8

\* The constants of a deck stay, and what is on file of them.
LEMMA FilesStay ==
    ASSUME CdIInv, chunk' = chunk, file' = file, sigmas' = sigmas
    PROVE  FileOK' /\ ProductionIsWhole'
<1>1. FileOK'
  BY DEF CdIInv, FileOK, Saved, Reals, UpTo, Extended
<1>2. ProductionIsWhole'
  BY DEF CdIInv, ProductionIsWhole, Unbroken, UpTo, Extended
<1> QED
  BY <1>1, <1>2

\* The accumulators of the next state, by those of the lists.
LEMMA NextHas ==
    ASSUME chunk' = chunk, job' = job, NEW i, NEW r,
           acc' = [imag |-> UpTo(i), real |-> Reals(r, job.from)]
    PROVE  Has(i, r)'
BY DEF Has, Reals, UpTo, Extended

\* An imaginary chunk is added.
LEMMA ImagKeeps ==
    ASSUME CdIInv, ImagStep
    PROVE  CdIInv'
<1>0. CdTypes /\ ProgressOK /\ chunk \in Chunks /\ run \in Runs
  BY DEF CdIInv, CdTypes
<1>1. /\ place = "imag" /\ at < NI /\ place' = "imagSaved"
      /\ UNCHANGED <<chunk, leg, job, at, starts, ghosts, file, sigmas>>
  BY DEF ImagStep
<1>u. acc' = [acc EXCEPT !.imag = Append(@, at)] /\ run' = [run EXCEPT !.imag = @ + 1]
  BY DEF ImagStep
<1>2. PICK i \in 0 .. NI, r \in 0 .. NR : Progress(i, r)
  BY <1>0, <1>1 DEF ProgressOK
<1>3. Has(i, r) /\ OnImag(i, r) /\ First(job.from) <= starts[2]
  BY <1>1, <1>2 DEF Progress
<1>n. /\ starts[1] \in 0 .. NI /\ starts[2] \in 0 .. NR /\ at \in Nat /\ NI \in Nat /\ NR \in Nat
      /\ First(job.from) \in 0 .. NR - 1
      /\ run.imag \in Nat /\ run \in Runs
  BY <1>0, <1>1, CdNumbers DEF CdTypes
<1>4. i = at /\ r = 0 /\ i + 1 \in 0 .. NI /\ i \in Nat /\ starts[1] <= at
      /\ run.imag = at - starts[1] /\ run.real = 0 /\ starts[2] = First(job.from)
      /\ ghosts = NoGhosts
  <2>1. at # NI /\ at + 1 \in 0 .. NI
    BY <1>1, <1>n
  <2>2. /\ i = at /\ (r = 0 \/ starts[1] = NI) /\ starts[1] <= at
        /\ starts[2] = First(job.from) + r
        /\ run.imag = at - starts[1] /\ run.real = 0 /\ ghosts = NoGhosts
    BY <1>3, <2>1 DEF OnImag
  <2>3. starts[1] # NI
    BY <1>1, <1>n, <2>2
  <2>4. r = 0
    BY <2>2, <2>3
  <2> QED
    BY <1>n, <2>1, <2>2, <2>4
<1>5. run'.imag = at + 1 - starts[1] /\ run'.real = 0 /\ run' \in Runs
  <2>1. run'.imag = run.imag + 1 /\ run'.real = run.real /\ run' \in Runs
    BY <1>0, <1>u DEF Runs
  <2> QED
    BY <1>4, <1>n, <2>1
<1>6. acc' = [imag |-> UpTo(i + 1), real |-> Reals(r, job.from)]
  <2>1. acc' = [imag |-> Append(UpTo(i), i), real |-> Reals(r, job.from)]
    BY <1>u, <1>3, <1>4 DEF Has
  <2> QED
    BY <1>4, <2>1, UpToList
<1>7. CdTypes'
  BY <1>0, <1>1, <1>5 DEF CdTypes
<1>8. Has(i + 1, r)'
  BY <1>1, <1>6, NextHas
<1>9. OnImagSaved(i + 1, r)'
  BY <1>1, <1>4, <1>5 DEF OnImagSaved, First
<1>10. (First(job.from) <= starts[2])'
  BY <1>1, <1>3 DEF First
<1>11. Progress(i + 1, r)'
  BY <1>1, <1>8, <1>9, <1>10 DEF Progress
<1>12. ProgressOK'
  BY <1>0, <1>4, <1>11 DEF ProgressOK
<1> QED
  BY <1>1, <1>7, <1>12, FilesStay DEF CdIInv

\* The imaginary axis is left: all of it is added, or there was a limit.
LEMMA LeaveImagKeeps ==
    ASSUME CdIInv, LeaveImag
    PROVE  CdIInv'
<1>0. CdTypes /\ ProgressOK /\ chunk \in Chunks /\ run \in Runs
  BY DEF CdIInv, CdTypes
<1>1. /\ place = "imag" /\ (at = NI \/ Limited(job.imag, run.imag)) /\ place' = "real"
      /\ run' = [run EXCEPT !.truncated = at < NI] /\ at' = ReplayStart(starts[2])
      /\ UNCHANGED <<chunk, leg, job, starts, ghosts, acc, file, sigmas>>
  BY DEF LeaveImag
<1>2. PICK i \in 0 .. NI, r \in 0 .. NR : Progress(i, r)
  BY <1>0, <1>1 DEF ProgressOK
<1>3. Has(i, r) /\ OnImag(i, r) /\ First(job.from) <= starts[2]
  BY <1>1, <1>2 DEF Progress
<1>4. /\ i = NI \/ job.imag # None
      /\ run.imag <= NI /\ run.real = 0 /\ starts[2] = First(job.from) + r /\ ghosts = NoGhosts
  BY <1>0, <1>1, <1>3, CdNumbers DEF OnImag, Limited
<1>5. run'.imag = run.imag /\ run'.real = 0 /\ run' \in Runs
  <2>1. CASE at < NI
    <3>1. run' = [run EXCEPT !.truncated = TRUE]
      BY <1>1, <2>1
    <3> QED
      BY <1>0, <1>4, <3>1 DEF Runs
  <2>2. CASE ~(at < NI)
    <3>0. (at < NI) = FALSE
      BY <1>0, <2>2, CdNumbers
    <3>1. run' = [run EXCEPT !.truncated = FALSE]
      BY <1>1, <3>0
    <3> QED
      BY <1>0, <1>4, <3>1 DEF Runs
  <2> QED
    BY <2>1, <2>2
<1>6. starts[2] \in Nat /\ starts[2] <= NR /\ NR \in Nat
  BY <1>0, CdNumbers
<1>7. /\ at' \in 0 .. starts[2]
      /\ starts[2] = 0 => at' = 0
      /\ starts[2] # 0 => at' < starts[2]
  BY <1>0, <1>1, <1>6, ReplayCovers DEF CdTypes
<1>8. CdTypes'
  <2>1. at' \in Nat
    BY <1>6, <1>7
  <2> QED
    BY <1>0, <1>1, <1>5, <2>1 DEF CdTypes
<1>9. ghosts.tail = None /\ ghosts.rebuilt = None
  BY <1>4 DEF NoGhosts
<1>10. OnReal(i, r)'
  <2>1. ReplayStart(starts[2])' = at'
    <3>1. ReplayStart(starts[2])' = ReplayStart(starts[2])
      BY <1>1 DEF ReplayStart
    <3> QED
      BY <1>1, <3>1
  <2>2. CASE starts[2] # 0
    <3>1. Rebuilt' = None
      BY <2>1 DEF Rebuilt
    <3>2. at' \in Nat /\ at' <= NR /\ at' <= at' /\ at' < starts'[2]
      <4>1. at' \in Nat /\ at' < starts[2]
        BY <1>6, <1>7, <2>2
      <4> QED
        BY <1>1, <1>6, <4>1
    <3>3. starts'[2] = First(job.from)' + r /\ run'.real = 0 /\ ghosts'.tail = None
          /\ ghosts'.rebuilt = None
      BY <1>1, <1>4, <1>5, <1>9 DEF First
    <3>4. (i = NI \/ job'.imag # None) /\ run'.imag <= NI
      BY <1>1, <1>4, <1>5
    <3> QED
      BY <2>1, <3>1, <3>2, <3>3, <3>4 DEF OnReal
  <2>3. CASE starts[2] = 0
    <3>1. at' = 0 /\ starts'[2] = 0 /\ TailAt(at)' = None /\ at' <= NR
      <4>1. at' = 0
        BY <1>6, <1>7, <2>3
      <4> QED
        BY <1>1, <1>6, <2>3, <4>1 DEF TailAt
    <3>2. at' = First(job.from)' + r /\ run'.real = at' - starts'[2]
      BY <1>1, <1>4, <1>5, <2>3, <3>1 DEF First
    <3>3. (i = NI \/ job'.imag # None) /\ run'.imag <= NI
      BY <1>1, <1>4, <1>5
    <3> QED
      BY <1>1, <1>9, <3>1, <3>2, <3>3 DEF OnReal
  <2> QED
    BY <2>2, <2>3
<1>11. Has(i, r)'
  BY <1>1, <1>3, NextHas DEF Has
<1>12. (First(job.from) <= starts[2])'
  BY <1>1, <1>3 DEF First
<1>13. Progress(i, r)'
  BY <1>1, <1>10, <1>11, <1>12 DEF Progress
<1>14. ProgressOK'
  BY <1>0, <1>13 DEF ProgressOK
<1> QED
  BY <1>1, <1>8, <1>14, FilesStay DEF CdIInv

\* A window is read again, and continues what was read; the last one leaves the ghosts.
LEMMA ReplayKeeps ==
    ASSUME CdIInv, Replay
    PROVE  CdIInv'
<1>0. CdTypes /\ ProgressOK /\ chunk \in Chunks /\ run \in Runs
  BY DEF CdIInv, CdTypes
<1> DEFINE new == IF ghosts.rebuilt = None THEN Window(at) ELSE Join(ghosts.rebuilt, Window(at))
           rs == ReplayStart(starts[2])
           lo == Window(rs)[1]
           K == starts[2]
<1>1. /\ place = "real" /\ at < NR /\ at < K /\ at' = at + 1
      /\ ghosts' = IF at = K - 1 THEN [tail |-> TailOf(new), rebuilt |-> None]
                   ELSE [ghosts EXCEPT !.rebuilt = new]
      /\ UNCHANGED <<chunk, place, leg, job, starts, run, acc, file, sigmas>>
  BY DEF Replay
<1>2. PICK i \in 0 .. NI, r \in 0 .. NR : Progress(i, r)
  BY <1>0, <1>1 DEF ProgressOK
<1>3. Has(i, r) /\ OnReal(i, r) /\ First(job.from) <= K
  BY <1>1, <1>2 DEF Progress
<1>4. K \in 0 .. NR /\ at \in Nat /\ NR \in Nat /\ chunk \in Nat \ {0} /\ GH \in Nat \ {0} /\ K # 0
  BY <1>0, <1>1, CdNumbers, GhostAssumption
<1>5. /\ rs <= at /\ K = First(job.from) + r /\ run.real = 0 /\ ghosts.tail = None
      /\ ghosts.rebuilt = Rebuilt
      /\ i = NI \/ job.imag # None
      /\ run.imag <= NI
  BY <1>1, <1>3, <1>4 DEF OnReal
<1>6. rs \in Nat /\ rs < K /\ lo \in Int /\ lo <= K * chunk - GH
  <2>1. chunk \in Chunks /\ K \in Nat
    BY <1>0, <1>4
  <2>2. rs \in Nat /\ rs < K /\ lo <= K * chunk - GH
    BY <1>0, <1>4, <2>1, ReplayCovers
  <2> QED
    BY <1>0, <2>1, <2>2, GhostTypes
<1>7. (at + 1) * chunk = at * chunk + chunk /\ at * chunk \in Int /\ (at + 1) * chunk \in Int
  BY <1>4
<1>8. new = <<lo, (at + 1) * chunk + GH>>
  <2>1. CASE at = rs
    <3>1. new = Window(rs)
      BY <1>5, <2>1 DEF Rebuilt
    <3>2. Window(rs) = <<lo, (rs + 1) * chunk + GH>>
      BY DEF Window
    <3> QED
      BY <2>1, <3>1, <3>2
  <2>2. CASE at # rs
    <3>1. ghosts.rebuilt = <<lo, at * chunk + GH>>
      BY <1>5, <2>2 DEF Rebuilt
    <3>2. at \in Nat \ {0} /\ at * chunk + GH \in Int
      BY <1>4, <1>5, <1>6, <1>7, <2>2
    <3>3. ghosts.rebuilt # None
      BY <1>6, <3>1, <3>2, StackIsNotNone
    <3>4. new = Join(<<lo, at * chunk + GH>>, Window(at))
      BY <3>1, <3>3
    <3> QED
      BY <1>0, <1>6, <3>2, <3>4, WindowJoins DEF CdTypes
  <2> QED
    BY <2>1, <2>2
<1> HIDE DEF new, lo, rs, K
<1>9. new \in Stack /\ new # None
  BY <1>4, <1>6, <1>7, <1>8, StackIsNotNone DEF Stack
<1>10. at + 1 = K => TailOf(new) = TailAt(K)
  <2> SUFFICES ASSUME at + 1 = K PROVE TailOf(new) = TailAt(K)
    OBVIOUS
  <2>1. new = <<lo, K * chunk + GH>> /\ K * chunk \in Int
    BY <1>7, <1>8
  <2>2. (K * chunk + GH) - lo >= 2 * GH /\ K * chunk + GH \in Int
    BY <1>4, <1>6, <2>1
  <2>3. TailOf(new) = <<K * chunk + GH - 2 * GH, K * chunk + GH>>
    <3>1. PICK hi \in Int : hi = K * chunk + GH
      BY <2>2
    <3>2. TailOf(<<lo, hi>>) = <<hi - 2 * GH, hi>>
      BY <1>6, <2>2, <3>1, LongTail
    <3> QED
      BY <1>4, <2>1, <2>2, <3>1, <3>2
  <2>4. K * chunk + GH - 2 * GH = K * chunk - GH
    BY <1>4, <2>1
  <2> QED
    BY <1>4, <2>3, <2>4 DEF TailAt
<1>11. \/ /\ at + 1 = K /\ ghosts'.tail = TailAt(K) /\ ghosts'.rebuilt = None /\ ghosts' \in Ghosts
       \/ /\ at + 1 < K /\ ghosts'.tail = None /\ ghosts'.rebuilt = new /\ ghosts' \in Ghosts
  <2>1. CASE at + 1 = K
    <3>1. ghosts' = [tail |-> TailAt(K), rebuilt |-> None]
      BY <1>1, <1>4, <1>10, <2>1
    <3>2. TailAt(K) \in Stack \cup {None}
      <4>1. chunk \in Chunks /\ K \in Nat
        BY <1>0, <1>4
      <4> QED
        BY <1>0, <4>1, GhostTypes
    <3> QED
      BY <2>1, <3>1, <3>2 DEF Ghosts
  <2>2. CASE at + 1 # K
    <3>1. ghosts' = [ghosts EXCEPT !.rebuilt = new] /\ at + 1 < K
      BY <1>1, <1>4, <2>2
    <3>2. ghosts = [tail |-> ghosts.tail, rebuilt |-> ghosts.rebuilt]
      BY <1>0, CdNumbers
    <3> QED
      BY <1>5, <1>9, <3>1, <3>2 DEF Ghosts
  <2> QED
    BY <2>1, <2>2
<1>12. CdTypes'
  BY <1>0, <1>1, <1>4, <1>11 DEF CdTypes
<1>13. rs = ReplayStart(starts[2]) /\ K = starts[2] /\ lo = Window(ReplayStart(starts[2]))[1]
  BY DEF rs, K, lo
<1>14. ReplayStart(starts[2])' = rs /\ Window(ReplayStart(starts[2]))' = Window(rs)
  BY <1>1, <1>13 DEF ReplayStart, Window
<1>15. OnReal(i, r)'
  <2>1. First(job.from)' = First(job.from) /\ run' = run /\ job' = job /\ starts'[2] = K
    BY <1>1, <1>13 DEF First
  <2>2. CASE at + 1 = K
    <3>1. TailAt(at)' = TailAt(K) /\ at' = K
      BY <1>1, <2>2 DEF TailAt
    <3>2. at' = First(job.from)' + r /\ run'.real = at' - starts'[2] /\ at' <= NR
          /\ starts'[2] <= at'
      BY <1>4, <1>5, <2>1, <3>1
    <3>3. ghosts'.tail = TailAt(at)' /\ ghosts'.rebuilt = None
      BY <1>11, <2>2, <3>1, <1>4
    <3> QED
      BY <1>5, <2>1, <3>2, <3>3 DEF OnReal
  <2>3. CASE at + 1 < K
    <3>1. Rebuilt' = <<lo, (at + 1) * chunk + GH>>
      <4>1. at' # ReplayStart(starts[2])'
        BY <1>1, <1>4, <1>5, <1>6, <1>14
      <4>2. Window(ReplayStart(starts[2]))'[1] = lo /\ (at * chunk + GH)' = (at + 1) * chunk + GH
        BY <1>1, <1>13, <1>14
      <4> QED
        BY <4>1, <4>2 DEF Rebuilt
    <3>2. ghosts'.tail = None /\ ghosts'.rebuilt = Rebuilt'
      BY <1>4, <1>8, <1>11, <2>3, <3>1
    <3>3. ReplayStart(starts[2])' <= at' /\ at' < starts'[2] /\ at' <= NR
      BY <1>1, <1>4, <1>5, <1>6, <1>14, <2>1, <2>3
    <3>4. starts'[2] = First(job.from)' + r /\ run'.real = 0 /\ run'.imag <= NI
          /\ (i = NI \/ job'.imag # None)
      BY <1>5, <2>1
    <3> QED
      BY <3>2, <3>3, <3>4 DEF OnReal
  <2> QED
    BY <1>11, <2>2, <2>3
<1>16. Has(i, r)'
  BY <1>1, <1>3, NextHas DEF Has
<1>17. (First(job.from) <= starts[2])'
  BY <1>1, <1>3 DEF First, K
<1>18. Progress(i, r)'
  BY <1>1, <1>15, <1>16, <1>17 DEF Progress
<1>19. ProgressOK'
  BY <1>0, <1>18 DEF ProgressOK
<1> QED
  BY <1>1, <1>12, <1>19, FilesStay DEF CdIInv

\* A real chunk is added, with its ghosts.
LEMMA RealKeeps ==
    ASSUME CdIInv, RealStep
    PROVE  CdIInv'
<1>0. CdTypes /\ ProgressOK /\ chunk \in Chunks /\ run \in Runs
  BY DEF CdIInv, CdTypes
<1> DEFINE box == IF ghosts.tail = None THEN Window(at) ELSE Join(ghosts.tail, Window(at))
<1>1. /\ place = "real" /\ at < NR /\ at >= starts[2] /\ place' = "realSaved"
      /\ UNCHANGED <<chunk, leg, job, at, starts, file, sigmas>>
  BY DEF RealStep
<1>u. /\ ghosts' = [ghosts EXCEPT !.tail = TailOf(box)]
      /\ acc' = [acc EXCEPT !.real = Append(@, [chunk |-> at, knots |-> box])]
      /\ run' = [run EXCEPT !.real = @ + 1]
  BY DEF RealStep
<1>2. PICK i \in 0 .. NI, r \in 0 .. NR : Progress(i, r)
  BY <1>0, <1>1 DEF ProgressOK
<1>3. Has(i, r) /\ OnReal(i, r) /\ First(job.from) <= starts[2]
  BY <1>1, <1>2 DEF Progress
<1>n. /\ starts[1] \in 0 .. NI /\ starts[2] \in 0 .. NR /\ at \in Nat /\ NI \in Nat /\ NR \in Nat
      /\ First(job.from) \in 0 .. NR - 1 /\ job.from \in Nat \cup {None}
      /\ run.imag \in Nat /\ run.real \in Nat
  BY <1>0, <1>1, CdNumbers DEF Limit
<1>4. /\ at = First(job.from) + r /\ run.real = at - starts[2]
      /\ ghosts.tail = TailAt(at) /\ ghosts.rebuilt = None
      /\ i = NI \/ job.imag # None
      /\ run.imag <= NI
  BY <1>1, <1>3, <1>n DEF OnReal
<1>5. r + 1 \in 0 .. NR /\ r \in Nat
  BY <1>1, <1>4, <1>n
<1>6. box = Extended(at) /\ TailOf(box) = TailAt(at + 1)
  BY <1>0, <1>4, <1>n, GhostsRoll
<1> HIDE DEF box
<1>7. run'.imag = run.imag /\ run'.real = at + 1 - starts[2] /\ run' \in Runs
  <2>1. run'.imag = run.imag /\ run'.real = run.real + 1 /\ run' \in Runs
    BY <1>0, <1>u DEF Runs
  <2> QED
    BY <1>4, <1>n, <2>1
<1>8. ghosts'.tail = TailAt(at + 1) /\ ghosts'.rebuilt = None /\ ghosts' \in Ghosts
  <2>1. ghosts \in Ghosts /\ at + 1 \in Nat
    BY <1>0, <1>n DEF CdTypes
  <2>2. TailAt(at + 1) \in Stack \cup {None}
    BY <1>0, <2>1, GhostTypes
  <2> QED
    BY <1>u, <1>4, <1>6, <2>1, <2>2 DEF Ghosts
<1>9. acc' = [imag |-> UpTo(i), real |-> Reals(r + 1, job.from)]
  <2>1. acc' = [imag |-> UpTo(i), real |-> Append(Reals(r, job.from), [chunk |-> at, knots |-> box])]
    BY <1>u, <1>3 DEF Has
  <2>2. Append(Reals(r, job.from), [chunk |-> First(job.from) + r, knots |-> Extended(First(job.from) + r)])
          = Reals(r + 1, job.from)
    BY <1>0, <1>5, <1>n, RealsList
  <2> QED
    BY <1>4, <1>6, <2>1, <2>2
<1>10. CdTypes'
  BY <1>0, <1>1, <1>7, <1>8 DEF CdTypes
<1>11. Has(i, r + 1)'
  BY <1>1, <1>9, NextHas
<1>12. OnRealSaved(i, r + 1)'
  <2>1. First(job.from)' = First(job.from) /\ TailAt(at + 1)' = TailAt(at + 1)
    BY <1>1 DEF First, TailAt
  <2>2. at + 1 = First(job.from) + (r + 1) /\ r + 1 # 0
    BY <1>4, <1>5, <1>n
  <2> QED
    BY <1>1, <1>4, <1>7, <1>8, <2>1, <2>2 DEF OnRealSaved
<1>13. (First(job.from) <= starts[2])'
  BY <1>1, <1>3 DEF First
<1>14. Progress(i, r + 1)'
  BY <1>1, <1>11, <1>12, <1>13 DEF Progress
<1>15. ProgressOK'
  BY <1>0, <1>5, <1>14 DEF ProgressOK
<1> QED
  BY <1>1, <1>10, <1>15, FilesStay DEF CdIInv

\* The accumulators are published as those of the chunk just added.
LEMMA OnChunkKeeps ==
    ASSUME CdIInv, OnChunk
    PROVE  CdIInv'
<1>0. CdTypes /\ ProgressOK /\ FileOK /\ ProductionIsWhole /\ chunk \in Chunks
  BY DEF CdIInv, CdTypes
<1>1. /\ place \in {"imagSaved", "realSaved"} /\ at' = at + 1
      /\ place' = IF place = "imagSaved" THEN "imag" ELSE "real"
      /\ file' = IF job.mode = "off" THEN file
                 ELSE [axis |-> IF place = "imagSaved" THEN "imag" ELSE "real",
                       chunk |-> at, acc |-> acc, identity |-> Identity]
      /\ UNCHANGED <<chunk, leg, job, starts, run, ghosts, acc, sigmas>>
  BY DEF OnChunk
<1>2. PICK i \in 0 .. NI, r \in 0 .. NR : Progress(i, r)
  BY <1>0, <1>1 DEF ProgressOK
<1>3. /\ Has(i, r) /\ First(job.from) <= starts[2]
      /\ place = "imagSaved" => OnImagSaved(i, r)
      /\ place = "realSaved" => OnRealSaved(i, r)
  BY <1>2 DEF Progress
<1>n. /\ starts[1] \in 0 .. NI /\ starts[2] \in 0 .. NR /\ at \in Nat /\ NI \in Nat /\ NR \in Nat
      /\ First(job.from) \in 0 .. NR - 1
      /\ job.imag \in Limit /\ job.from \in Limit
      /\ run.imag \in Nat /\ run.real \in Nat
  BY <1>0, <1>1, CdNumbers
<1>4. Has(i, r)'
  BY <1>1, <1>3, NextHas DEF Has
<1>5. First(job.from)' = First(job.from) /\ TailAt(at + 1) = TailAt(at)'
      /\ (First(job.from) <= starts[2])'
  BY <1>1, <1>3 DEF First, TailAt
<1>6. CdTypes'
  <2>1. at' \in Nat /\ place' \in {"imag", "real"}
    BY <1>1, <1>n
  <2> QED
    BY <1>0, <1>1, <2>1 DEF CdTypes
<1>7. ASSUME place = "imagSaved" PROVE Progress(i, r)'
  <2>1. /\ starts[1] <= at /\ at < NI /\ run.imag = at + 1 - starts[1] /\ run.real = 0
        /\ i = at + 1 /\ r = 0 /\ starts[2] = First(job.from)
        /\ ghosts = NoGhosts
    BY <1>3, <1>7 DEF OnImagSaved
  <2>2. OnImag(i, r)'
    <3>1. starts[1] <= at' /\ at' <= NI /\ run.imag = at' - starts[1] /\ i = at'
      BY <1>1, <1>n, <2>1
    <3>2. starts'[2] = First(job.from)' + r
      BY <1>1, <1>5, <1>n, <2>1
    <3>3. run' = run /\ starts' = starts /\ ghosts' = ghosts /\ NoGhosts' = NoGhosts
      BY <1>1 DEF NoGhosts
    <3> QED
      BY <2>1, <3>1, <3>2, <3>3 DEF OnImag
  <2>3. place' = "imag"
    BY <1>1, <1>7
  <2>4. Progress(i, r)'
    BY <1>4, <1>5, <2>2, <2>3 DEF Progress
  <2> QED
    BY <2>4, <2>3
<1>8. ASSUME place = "realSaved" PROVE Progress(i, r)'
  <2>1. /\ i = NI \/ job.imag # None
        /\ run.imag <= NI /\ starts[2] <= at /\ at < NR
        /\ at + 1 = First(job.from) + r /\ run.real = at + 1 - starts[2]
        /\ ghosts.tail = TailAt(at + 1) /\ ghosts.rebuilt = None
    BY <1>3, <1>8 DEF OnRealSaved
  <2>2. OnReal(i, r)'
    <3>1. starts[2] <= at' /\ at' <= NR /\ run.real = at' - starts[2]
      BY <1>1, <1>n, <2>1
    <3>2. at' = First(job.from)' + r
      BY <1>1, <1>5, <2>1
    <3>3. run' = run /\ starts' = starts /\ ghosts' = ghosts /\ job' = job
      BY <1>1
    <3>4. ghosts'.tail = TailAt(at)'
      BY <1>5, <2>1, <3>3
    <3> QED
      BY <2>1, <3>1, <3>2, <3>3, <3>4 DEF OnReal
  <2>3. place' = "real"
    BY <1>1, <1>8
  <2>4. Progress(i, r)'
    BY <1>4, <1>5, <2>2, <2>3 DEF Progress
  <2> QED
    BY <2>4, <2>3
<1>9. ProgressOK'
  <2>1. Progress(i, r)'
    BY <1>1, <1>7, <1>8
  <2> QED
    BY <1>0, <2>1 DEF ProgressOK
<1>10. FileOK'
  <2>1. CASE job.mode = "off"
    BY <1>0, <1>1, <2>1 DEF FileOK, Saved, Reals, UpTo, Extended
  <2>2. CASE job.mode # "off"
    <3>1. file' = [axis |-> IF place = "imagSaved" THEN "imag" ELSE "real",
                   chunk |-> at, acc |-> acc, identity |-> Identity]
      BY <1>1, <2>2
    <3>2. /\ file'.chunk = at /\ file'.acc = acc
          /\ file'.identity.imag = job.imag /\ file'.identity.from = job.from
          /\ file'.axis = IF place = "imagSaved" THEN "imag" ELSE "real"
          /\ file'.identity \in Identities
      BY <1>n, <3>1 DEF Identity, Identities
    <3>3. Reals(r, file.identity.from)' = Reals(r, job.from) /\ UpTo(i)' = UpTo(i)
      BY <1>1, <3>2 DEF UpTo, Reals, Extended, First
    <3>5. file'.acc = [imag |-> UpTo(i), real |-> Reals(r, job.from)]
      BY <1>3, <3>2 DEF Has
    <3>4. Saved(i, r)'
      <4>1. CASE place = "imagSaved"
        <5>1. i # 0 /\ at = i - 1 /\ r = 0
          BY <1>3, <1>n, <4>1 DEF OnImagSaved
        <5> QED
          BY <3>2, <3>3, <3>5, <4>1, <5>1 DEF Saved
      <4>2. CASE place = "realSaved"
        <5>1. r # 0 /\ at = First(job.from) + r - 1 /\ at < NR /\ (i = NI \/ job.imag # None)
          BY <1>3, <1>n, <4>2 DEF OnRealSaved
        <5>2. First(file.identity.from)' = First(job.from)
          BY <3>2 DEF First
        <5> QED
          BY <3>2, <3>3, <3>5, <4>2, <5>1, <5>2 DEF Saved
      <4> QED
        BY <1>1, <4>1, <4>2
    <3> QED
      BY <1>0, <3>2, <3>4 DEF FileOK
  <2> QED
    BY <2>1, <2>2
<1>11. ProductionIsWhole'
  BY <1>0, <1>1 DEF ProductionIsWhole, Unbroken, UpTo, Extended
<1> QED
  BY <1>6, <1>9, <1>10, <1>11 DEF CdIInv

\* A process that finishes outside an instrument has added everything.
LEMMA FinishKeeps ==
    ASSUME CdIInv, Finish
    PROVE  CdIInv'
<1>0. CdTypes /\ ProgressOK /\ ProductionIsWhole /\ chunk \in Chunks
  BY DEF CdIInv, CdTypes
<1>1. /\ place = "real" /\ at >= NR
      /\ \/ sigmas' = sigmas
         \/ sigmas' = sigmas \cup {[acc |-> acc, identity |-> Identity]}
      /\ Gone /\ UNCHANGED <<chunk, leg, file>>
  BY DEF Finish
<1>2. PICK i \in 0 .. NI, r \in 0 .. NR : Progress(i, r)
  BY <1>0, <1>1 DEF ProgressOK
<1>3. Has(i, r) /\ OnReal(i, r)
  BY <1>1, <1>2 DEF Progress
<1>n. /\ starts[2] \in 0 .. NR /\ at \in Nat /\ NI \in Nat /\ NR \in Nat
      /\ First(job.from) \in 0 .. NR - 1
      /\ job.from = None => First(job.from) = 0
  BY <1>0, <1>1, CdNumbers
<1>4. /\ job.imag = None => i = NI
      /\ job.from = None => r = NR
  <2>1. (i = NI \/ job.imag # None) /\ at <= NR /\ at = First(job.from) + r
    BY <1>1, <1>3, <1>n DEF OnReal
  <2> QED
    BY <1>1, <1>n, <2>1
<1>5. \A s \in sigmas' :
        s.identity = [imag |-> None, from |-> None] => s.acc = Unbroken(NI, NR, None)
  <2> SUFFICES ASSUME NEW s \in sigmas', s.identity = [imag |-> None, from |-> None]
               PROVE  s.acc = Unbroken(NI, NR, None)
    OBVIOUS
  <2>1. CASE s \in sigmas
    BY <1>0, <2>1 DEF ProductionIsWhole
  <2>2. CASE s = [acc |-> acc, identity |-> Identity]
    <3>1. Identity.imag = None /\ Identity.from = None /\ s.acc = acc
      BY <2>2
    <3>2. job.imag = None /\ job.from = None
      BY <3>1 DEF Identity
    <3>3. acc = [imag |-> UpTo(NI), real |-> Reals(NR, None)]
      BY <1>3, <1>4, <3>2 DEF Has
    <3> QED
      BY <3>1, <3>3, UnbrokenIs
  <2> QED
    BY <1>1, <2>1, <2>2
<1>6. ProductionIsWhole'
  BY <1>1, <1>5 DEF ProductionIsWhole, Unbroken, UpTo, Extended
<1> QED
  BY <1>1, <1>6, GoneKeeps

\* A process that is stopped or killed leaves what it published.
LEMMA KillKeeps ==
    ASSUME CdIInv, StopAfter \/ Kill
    PROVE  CdIInv'
<1>1. Gone /\ UNCHANGED <<chunk, leg, file, sigmas>>
  BY DEF StopAfter, Kill
<1>2. ProductionIsWhole'
  BY <1>1, FilesStay
<1> QED
  BY <1>1, <1>2, GoneKeeps

\* Before the first process nothing is added or published.
LEMMA CdStart == ASSUME Init PROVE CdIInv
<1>1. /\ chunk \in Chunks /\ place = "idle" /\ leg = 0 /\ at = 0 /\ starts = <<0, 0>>
      /\ run = NotRun /\ ghosts = NoGhosts /\ acc = Empty /\ file = None /\ sigmas = {}
  BY DEF Init
<1>2. <<0, 0>> \in (0 .. NI) \X (0 .. NR) /\ 0 \in 0 .. Legs
  BY CountsAssumption, LegsAssumption
<1>3. CdTypes
  BY <1>1, <1>2, GhostTypes DEF CdTypes
<1> QED
  BY <1>1, <1>3 DEF CdIInv, ProgressOK, FileOK, ProductionIsWhole

\* Every step keeps the invariant.
LEMMA CdNext ==
    ASSUME CdIInv, [Next]_vars
    PROVE  CdIInv'
<1>1. CASE Next
  <2>1. ASSUME NEW mode \in {"off", "write", "resume"}, NEW s \in Stops, Launch(mode, s)
        PROVE  CdIInv'
    BY <2>1, LaunchKeeps
  <2> QED
    BY <1>1, <2>1, ImagKeeps, LeaveImagKeeps, ReplayKeeps, RealKeeps, OnChunkKeeps,
       FinishKeeps, KillKeeps DEF Next
<1>2. CASE UNCHANGED vars
  <2>1. /\ chunk' = chunk /\ leg' = leg /\ place' = place /\ at' = at /\ starts' = starts
        /\ run' = run /\ ghosts' = ghosts /\ job' = job /\ acc' = acc /\ file' = file
        /\ sigmas' = sigmas
    BY <1>2 DEF vars
  <2>2. CdTypes'
    BY <2>1 DEF CdIInv, CdTypes, NotRun, Empty, Runs, Ghosts, Stack, Jobs, Limit
  <2>3. ProgressOK'
    <3>1. CASE place # "idle"
      <4>1. PICK i \in 0 .. NI, r \in 0 .. NR : Progress(i, r)
        BY <3>1 DEF CdIInv, ProgressOK
      <4>2. Has(i, r)'
        BY <2>1, <4>1, NextHas DEF Progress, Has
      <4>3. First(job.from)' = First(job.from) /\ Rebuilt' = Rebuilt
            /\ ReplayStart(starts[2])' = ReplayStart(starts[2])
            /\ TailAt(at)' = TailAt(at) /\ TailAt(at + 1)' = TailAt(at + 1)
        BY <2>1 DEF First, Rebuilt, ReplayStart, TailAt, Window
      <4>4. /\ OnImag(i, r) => OnImag(i, r)'
            /\ OnImagSaved(i, r) => OnImagSaved(i, r)'
        BY <2>1, <4>3 DEF OnImag, OnImagSaved
      <4>5. /\ OnReal(i, r) => OnReal(i, r)'
            /\ OnRealSaved(i, r) => OnRealSaved(i, r)'
        BY <2>1, <4>3 DEF OnReal, OnRealSaved
      <4>6. Progress(i, r)'
        BY <2>1, <4>1, <4>2, <4>3, <4>4, <4>5 DEF Progress
      <4> QED
        BY <4>6 DEF ProgressOK
    <3>2. CASE place = "idle"
      BY <2>1, <3>2 DEF ProgressOK
    <3> QED
      BY <3>1, <3>2
  <2> QED
    BY <2>1, <2>2, <2>3, FilesStay DEF CdIInv
<1> QED
  BY <1>1, <1>2

\* Every reachable state of the stream satisfies the inductive invariant.
THEOREM CdInductive == Spec => []CdIInv
<1>1. Init => CdIInv
  BY CdStart
<1>2. CdIInv /\ [Next]_vars => CdIInv'
  BY CdNext
<1> QED
  BY <1>1, <1>2, PTL DEF Spec

\* The lists of an unbroken run are as long as they say.
LEMMA UnbrokenLengths ==
    ASSUME chunk \in Chunks, NEW i \in Nat, NEW r \in Nat, NEW from \in Limit, NEW a,
           a = [imag |-> UpTo(i), real |-> Reals(r, from)]
    PROVE  /\ Len(a.imag) = i /\ Len(a.real) = r
           /\ a = Unbroken(Len(a.imag), Len(a.real), from)
           /\ r = 0 => a.real = <<>>
<1>1. Len(UpTo(i)) = i /\ Len(Reals(r, from)) = r /\ (r = 0 => Reals(r, from) = <<>>)
  BY UpToList, RealsList DEF Limit
<1>2. a.imag = UpTo(i) /\ a.real = Reals(r, from)
  OBVIOUS
<1> QED
  BY <1>1, <1>2, UnbrokenIs

\* Whatever was killed and resumed before it, a process has added every chunk once
\* and in order, each real chunk with exactly its own knots and its ghosts.
THEOREM EveryChunkIsAddedOnce == Spec => []AddsLikeUnbroken
<1>1. CdIInv => AddsLikeUnbroken
  <2> SUFFICES ASSUME CdIInv, place # "idle"
               PROVE  acc = Unbroken(Len(acc.imag), Len(acc.real), job.from)
    BY DEF AddsLikeUnbroken
  <2>1. CdTypes /\ ProgressOK /\ chunk \in Chunks
    BY DEF CdIInv, CdTypes
  <2>2. PICK i \in 0 .. NI, r \in 0 .. NR : Progress(i, r)
    BY <2>1 DEF ProgressOK
  <2>3. i \in Nat /\ r \in Nat /\ job.from \in Limit
    BY <2>1, CdNumbers
  <2> QED
    BY <2>1, <2>2, <2>3, UnbrokenLengths DEF Progress, Has
<1> QED
  BY <1>1, CdInductive, PTL

\* The checkpoint names the last chunk in its accumulators.
LEMMA CheckpointNames == ASSUME CdIInv PROVE CheckpointIsItsChunk
<1> SUFFICES ASSUME file # None
             PROVE  /\ file.acc = Unbroken(Len(file.acc.imag), Len(file.acc.real), file.identity.from)
                    /\ IF file.axis = "imag"
                       THEN file.chunk = Len(file.acc.imag) - 1 /\ file.acc.real = <<>>
                       ELSE file.chunk = First(file.identity.from) + Len(file.acc.real) - 1
  BY DEF CheckpointIsItsChunk
<1>1. chunk \in Chunks /\ FileOK
  BY DEF CdIInv, CdTypes
<1>2. PICK i \in 0 .. NI, r \in 0 .. NR : Saved(i, r)
  BY <1>1 DEF FileOK
<1>3. file.identity.from \in Limit
  BY <1>1 DEF FileOK, Identities
<1>4. /\ Len(file.acc.imag) = i /\ Len(file.acc.real) = r
      /\ file.acc = Unbroken(Len(file.acc.imag), Len(file.acc.real), file.identity.from)
      /\ r = 0 => file.acc.real = <<>>
  BY <1>1, <1>2, <1>3, UnbrokenLengths DEF Saved
<1> QED
  BY <1>2, <1>4 DEF Saved

\* A replay reads nothing it does not need.
LEMMA ReplayIsShort == ASSUME CdIInv PROVE ReplaysNoMore
<1> SUFFICES ASSUME place = "real", at < starts[2], ghosts.rebuilt = None
             PROVE  Window(at)[2] > starts[2] * chunk - GH
  BY DEF ReplaysNoMore
<1>1. CdTypes /\ ProgressOK /\ chunk \in Chunks
  BY DEF CdIInv, CdTypes
<1>2. PICK i \in 0 .. NI, r \in 0 .. NR : Progress(i, r)
  BY <1>1 DEF ProgressOK
<1>3. starts[2] \in Nat /\ at \in Nat /\ NR \in Nat
  BY <1>1, CdNumbers
<1>4. ghosts.rebuilt = Rebuilt /\ starts[2] # 0
  BY <1>2, <1>3 DEF Progress, OnReal
<1>5. ReplayStart(starts[2]) \in 0 .. starts[2]
      /\ Window(ReplayStart(starts[2]))[2] > starts[2] * chunk - GH
  BY <1>1, <1>3, <1>4, ReplayCovers
<1>6. at = ReplayStart(starts[2])
  <2>1. ASSUME at # ReplayStart(starts[2]) PROVE FALSE
    <3>1. ghosts.rebuilt = <<Window(ReplayStart(starts[2]))[1], at * chunk + GH>>
      BY <1>4, <2>1 DEF Rebuilt
    <3>2. Window(ReplayStart(starts[2]))[1] \in Int /\ at * chunk + GH \in Int
      <4>1. at * chunk + GH \in Int
        BY <1>1, <1>3, ChunkSize
      <4>2. ReplayStart(starts[2]) \in Nat
        BY <1>3, <1>5
      <4> QED
        BY <1>1, <4>1, <4>2, GhostTypes
    <3> QED
      BY <3>1, <3>2, StackIsNotNone
  <2> QED
    BY <2>1
<1> QED
  BY <1>5, <1>6

\* The numbers stay within the axes.
LEMMA CdTypeOK == ASSUME CdIInv PROVE TypeOK
<1>1. CdTypes /\ ProgressOK /\ FileOK /\ chunk \in Chunks
  BY DEF CdIInv, CdTypes
<1>2. /\ starts[1] \in 0 .. NI /\ starts[2] \in 0 .. NR /\ at \in Nat
      /\ NI \in Nat \ {0} /\ NR \in Nat \ {0}
      /\ run.imag \in Nat /\ run.real \in Nat
      /\ place # "idle" => First(job.from) \in 0 .. NR - 1 /\ job.from \in Limit
  BY <1>1, CdNumbers
<1>3. /\ at \in 0 .. NI + NR /\ run.imag \in 0 .. NI /\ run.real \in 0 .. NR
      /\ Len(acc.imag) <= NI /\ Len(acc.real) <= NR
  <2>1. CASE place = "idle"
    <3>1. at = 0 /\ run.imag = 0 /\ run.real = 0 /\ acc.imag = <<>> /\ acc.real = <<>>
      BY <1>1, <2>1 DEF CdTypes, NotRun, Empty
    <3> QED
      BY <1>2, <3>1
  <2>2. CASE place # "idle"
    <3>1. PICK i \in 0 .. NI, r \in 0 .. NR : Progress(i, r)
      BY <1>1, <2>2 DEF ProgressOK
    <3>2. Len(acc.imag) = i /\ Len(acc.real) = r
      BY <1>1, <1>2, <2>2, <3>1, UnbrokenLengths DEF Progress, Has
    <3> DEFINE Within == at \in 0 .. NI + NR /\ run.imag \in 0 .. NI /\ run.real \in 0 .. NR
    <3>3. ASSUME place = "imag" PROVE Within
      <4>1. OnImag(i, r)
        BY <3>1, <3>3 DEF Progress
      <4> QED
        BY <1>2, <4>1 DEF OnImag
    <3>4. ASSUME place = "imagSaved" PROVE Within
      <4>1. OnImagSaved(i, r)
        BY <3>1, <3>4 DEF Progress
      <4> QED
        BY <1>2, <4>1 DEF OnImagSaved
    <3>5. ASSUME place = "real" PROVE Within
      <4>1. OnReal(i, r)
        BY <3>1, <3>5 DEF Progress
      <4> QED
        BY <1>2, <4>1 DEF OnReal
    <3>6. ASSUME place = "realSaved" PROVE Within
      <4>1. OnRealSaved(i, r)
        BY <3>1, <3>6 DEF Progress
      <4> QED
        BY <1>2, <4>1 DEF OnRealSaved
    <3>7. Within
      BY <1>1, <2>2, <3>3, <3>4, <3>5, <3>6 DEF CdTypes
    <3> QED
      BY <1>2, <3>2, <3>7
  <2> QED
    BY <2>1, <2>2
<1>4. file # None => file.axis \in {"imag", "real"} /\ file.chunk \in 0 .. NI + NR
  <2> SUFFICES ASSUME file # None
               PROVE  file.axis \in {"imag", "real"} /\ file.chunk \in 0 .. NI + NR
    OBVIOUS
  <2>1. PICK i \in 0 .. NI, r \in 0 .. NR : Saved(i, r)
    BY <1>1 DEF FileOK
  <2>2. First(file.identity.from) \in 0 .. NR - 1
    BY <1>1, FirstChunk DEF FileOK, Identities, Limit
  <2> QED
    BY <1>2, <2>1, <2>2 DEF Saved
<1> QED
  BY <1>1, <1>3, <1>4 DEF TypeOK, CdTypes

\* The checkpoint, the replay and the result keep their promises: nothing is added
\* twice, replayed without need, or missing from a production run's Sigma.
THEOREM StreamKeepsItsPromises == Spec => []CdInv
<1>1. CdIInv => CdInv
  BY CheckpointNames, ReplayIsShort, CdTypeOK DEF CdInv, CdIInv
<1> QED
  BY <1>1, CdInductive, PTL

-----------------------------------------------------------------------------
(* TdRestart: the inductive invariant *)

TdSample == Nat \cup {Lost}
TdRows == UNION {[0 .. n - 1 -> TdSample] : n \in Ends}
TdCarry == [step : Nat, state : Nat, fp : Decks \X (Ends \cup {None})]
TdRecord == [deck : Decks, n : Ends, rows : [Trials -> TdRows],
             next : [Trials -> Int], carry : TdCarry \cup {None}]
\* A leg that holds these samples.
TdLeg(h) == [at : {"load", "run", "write", "check", "drop", "carry", "done"}, k : Decks, n : Ends,
             chunk : TdChunks, out : Dirs, from : Dirs \cup {None}, i : Nat, s : Nat,
             state : Nat, todo : SUBSET Trials, lo : Nat, samples : {h}]

\* Of a run of k over n samples that samples next the one at i, from this step and
\* state: nothing that is still to be sampled lies behind it.
Behind(k, n, i, s, state) ==
    IF k.method = "fixed"
    THEN state = s /\ Td!SamplesBefore(k, n, s) <= i
    ELSE /\ s = 0 /\ i <= n
         /\ i < n => state <= Td!ReachedBy(k, i)

\* A carry is not ahead of its counter, and lies within the run.
TdCarryOK(f) ==
    f.carry # None =>
        /\ f.carry.fp = Td!Fingerprint(f.deck, f.n)
        /\ f.next[0] >= 0
        /\ f.deck.method = "fixed" => f.carry.step <= Td!StepsOf(f.deck, f.n)
        /\ Behind(f.deck, f.n, f.next[0], f.carry.step, f.carry.state)

\* The rows below j are the unbroken run's.
RightBelow(f, j) ==
    \A x \in 0 .. j - 1 : x < f.n => f.rows[0][x] = Td!Unbroken(f.deck, x)

TdFilesOK ==
    \A d \in Dirs : tdFile[d] # None =>
        /\ tdFile[d] \in TdRecord
        /\ tdFile[d].rows[0] \in [0 .. tdFile[d].n - 1 -> TdSample]
        /\ tdFile[d].next[0] \in -1 .. tdFile[d].n
        /\ RightBelow(tdFile[d], tdFile[d].next[0])
        /\ TdCarryOK(tdFile[d])

\* The running leg stands on the file it opened, and nothing it has still to sample
\* lies behind it, nor behind the carry it last wrote, which stays in the file until
\* the next is written.
TdJobOK ==
    tdJob # None =>
        LET f == tdFile[tdJob.out] IN
        /\ tdJob \in TdLeg(tdJob.samples)
        /\ f # None /\ f.deck = tdJob.k /\ f.n = tdJob.n
        /\ tdJob.at = "load" =>
             /\ tdJob.i = 0 /\ tdJob.s = 0 /\ tdJob.state = 0 /\ tdJob.todo = {}
             /\ tdJob.from # tdJob.out
             /\ tdJob.from # None => tdFile[tdJob.from] # None
             /\ f.next[0] = -1 /\ f.carry = None
        /\ tdJob.at # "load" => Behind(tdJob.k, tdJob.n, tdJob.i, tdJob.s, tdJob.state)
        /\ tdJob.at \in {"run", "done"} => RightBelow(f, tdJob.i)
        /\ tdJob.at = "done" => tdJob.i >= tdJob.n
        /\ tdJob.at \in {"write", "check", "drop", "carry"} =>
             /\ tdJob.todo = {0} /\ tdJob.i <= tdJob.n
             /\ tdJob.k.method = "fixed" => tdJob.s <= Td!StepsOf(tdJob.k, tdJob.n)
        /\ tdJob.at = "write" =>
             /\ RightBelow(f, tdJob.lo)
             /\ tdJob.samples \in [tdJob.lo .. tdJob.i - 1 -> TdSample]
             /\ \A x \in tdJob.lo .. tdJob.i - 1 : tdJob.samples[x] = Td!Unbroken(tdJob.k, x)
        /\ tdJob.at \in {"check", "drop", "carry"} => RightBelow(f, tdJob.i)
        /\ tdJob.at \in {"drop", "carry"} => f.next[0] = tdJob.i
        /\ f.carry # None =>
             /\ f.carry.step <= tdJob.s
             /\ Behind(tdJob.k, tdJob.n, tdJob.i, f.carry.step, f.carry.state)

TdIInv ==
    /\ tdFile \in [Dirs -> TdRecord \cup {None}]
    /\ tdLegs \in 0 .. Legs
    /\ TdFilesOK /\ TdJobOK

\* One drive, and the steps of a fixed grid divide every end time.
Divided == \A k \in Decks, n \in Ends :
    k.method = "fixed" => Td!StepOf(k, n) = Td!StepsOf(k, n)

-----------------------------------------------------------------------------
(* Steps and samples *)

\* Division rounds down.
LEMMA DivIs ==
    ASSUME NEW a \in Nat, NEW b \in Nat \ {0}
    PROVE  a \div b \in Nat /\ (a \div b) * b <= a /\ a < (a \div b) * b + b
OBVIOUS

\* Division is monotone.
LEMMA DivMono ==
    ASSUME NEW a \in Nat, NEW c \in Nat, a <= c, NEW b \in Nat \ {0}
    PROVE  a \div b <= c \div b
<1> DEFINE p == a \div b
           q == c \div b
<1>1. /\ p \in Nat /\ p * b <= a
      /\ q \in Nat /\ c < q * b + b
  BY DivIs
<1> HIDE DEF p, q
<1>2. ASSUME ~(p <= q) PROVE FALSE
  <2>1. (q + 1) * b <= p * b
    <3>1. q + 1 <= p
      BY <1>1, <1>2
    <3> QED BY <1>1, <3>1
  <2>2. (q + 1) * b = q * b + b /\ q * b \in Nat /\ p * b \in Nat
    BY <1>1
  <2> QED BY <1>1, <2>1, <2>2
<1> QED BY <1>2 DEF p, q

\* A deck has a method, a step and an interval.
LEMMA DeckIs ==
    ASSUME NEW k \in Decks
    PROVE  k.method \in {"fixed", "dp54"} /\ k.dt \in Nat \ {0} /\ k.dm \in Nat \ {0}
BY TdAssumption

\* The times of samples are ordered as they are.
LEMMA Times ==
    ASSUME NEW k \in Decks, NEW i \in Nat, NEW j \in Nat
    PROVE  /\ i * k.dm \in Nat
           /\ i <= j => i * k.dm <= j * k.dm
           /\ i < j => i * k.dm + 1 <= j * k.dm
<1> DEFINE d == k.dm
<1>1. d \in Nat \ {0}
  BY DeckIs
<1> HIDE DEF d
<1>2. i * d \in Nat /\ j * d \in Nat
  BY <1>1
<1>3. ASSUME i <= j PROVE i * d <= j * d
  BY <1>1, <1>3
<1>4. ASSUME i < j PROVE i * d + 1 <= j * d
  <2>1. (i + 1) * d <= j * d
    <3>1. i + 1 <= j
      BY <1>4
    <3> QED BY <1>1, <3>1
  <2>2. (i + 1) * d = i * d + d
    BY <1>1
  <2> QED BY <1>1, <1>2, <2>1, <2>2
<1> QED BY <1>2, <1>3, <1>4 DEF d

\* Later samples lie in later steps, and are reached by later steps.
LEMMA StepsGrow ==
    ASSUME NEW k \in Decks, NEW i \in Nat, NEW j \in Nat
    PROVE  /\ Td!StepOf(k, i) \in Nat /\ Td!ReachedBy(k, i) \in Nat
           /\ i <= j => /\ Td!StepOf(k, i) <= Td!StepOf(k, j)
                        /\ Td!ReachedBy(k, i) <= Td!ReachedBy(k, j)
           /\ Td!StepsOf(k, i) = Td!ReachedBy(k, i)
<1> DEFINE a == i * k.dm
           c == j * k.dm
           b == k.dt
<1>1. a \in Nat /\ c \in Nat /\ b \in Nat \ {0} /\ (i <= j => a <= c)
  BY Times, DeckIs
<1>2. /\ Td!StepOf(k, i) = a \div b /\ Td!StepOf(k, j) = c \div b
      /\ Td!ReachedBy(k, i) = (a + b - 1) \div b /\ Td!ReachedBy(k, j) = (c + b - 1) \div b
      /\ Td!StepsOf(k, i) = Td!ReachedBy(k, i)
  BY DEF Td!StepOf, Td!StepsOf, Td!ReachedBy, Td!Ceil
<1> HIDE DEF a, b, c
<1>3. a \div b \in Nat
  BY <1>1, DivIs
<1>4. (a + b - 1) \div b \in Nat
  <2>1. a + b - 1 \in Nat
    BY <1>1
  <2> HIDE <1>2
  <2> QED BY <1>1, <2>1, DivIs
<1>5. i <= j => a \div b <= c \div b
  BY <1>1, DivMono
<1>6. i <= j => (a + b - 1) \div b <= (c + b - 1) \div b
  <2>1. a + b - 1 \in Nat /\ c + b - 1 \in Nat /\ (a <= c => a + b - 1 <= c + b - 1)
    BY <1>1
  <2> QED BY <1>1, <2>1, DivMono
<1> QED BY <1>2, <1>3, <1>4, <1>5, <1>6

\* The steps of a run go past all its samples.
LEMMA StepsPass ==
    ASSUME NEW k \in Decks, NEW i \in Nat, NEW n \in Nat, i < n
    PROVE  Td!StepOf(k, i) < Td!StepsOf(k, n)
<1> DEFINE a == i * k.dm
           c == n * k.dm
           b == k.dt
           p == a \div b
           q == (c + b - 1) \div b
<1>1. a \in Nat /\ c \in Nat /\ b \in Nat \ {0} /\ a + 1 <= c
  BY Times, DeckIs
<1>2. Td!StepOf(k, i) = p /\ Td!StepsOf(k, n) = q
  BY DEF Td!StepOf, Td!StepsOf, Td!Ceil
<1> HIDE DEF a, b, c
<1>3. p \in Nat /\ p * b <= a
  BY <1>1, DivIs
<1>4. q \in Nat /\ c + b - 1 < q * b + b
  <2>1. c + b - 1 \in Nat
    BY <1>1
  <2> QED BY <1>1, <2>1, DivIs
<1> HIDE DEF p, q
<1>5. ASSUME q <= p PROVE FALSE
  <2>1. q * b <= p * b
    BY <1>1, <1>3, <1>4, <1>5
  <2>2. q * b \in Nat /\ p * b \in Nat
    BY <1>1, <1>3, <1>4
  <2> QED BY <1>1, <1>3, <1>4, <2>1, <2>2
<1> QED BY <1>2, <1>3, <1>4, <1>5

\* The samples before a step, counted.
LEMMA SamplesIf ==
    ASSUME NEW k \in Decks, NEW n \in Nat, NEW s \in Nat, NEW j \in 0 .. n,
           \A i \in 0 .. n - 1 : Td!StepOf(k, i) < s <=> i < j
    PROVE  Td!SamplesBefore(k, n, s) = j
<1>1. {i \in 0 .. n - 1 : Td!StepOf(k, i) < s} = 0 .. j - 1
  <2>1. \A i : i \in 0 .. j - 1 <=> i \in 0 .. n - 1 /\ i < j
    OBVIOUS
  <2> QED BY <2>1
<1>2. Cardinality(0 .. j - 1) = j
  BY FS_Interval
<1>3. \A set : Td!Cardinality(set) = Cardinality(set)
  BY Zenon DEF Cardinality, Td!Cardinality
<1> QED BY <1>1, <1>2, <1>3 DEF Td!SamplesBefore

\* They are the first ones.
LEMMA SamplesAre ==
    ASSUME NEW k \in Decks, NEW n \in Nat, NEW s \in Nat
    PROVE  /\ Td!SamplesBefore(k, n, s) \in 0 .. n
           /\ \A i \in 0 .. n - 1 :
                Td!StepOf(k, i) < s <=> i < Td!SamplesBefore(k, n, s)
<1> DEFINE Ahead == {i \in 0 .. n - 1 : ~(Td!StepOf(k, i) < s)}
<1>1. \A i, j \in 0 .. n - 1 : i <= j => Td!StepOf(k, i) <= Td!StepOf(k, j)
  BY StepsGrow
<1>2. \A i \in 0 .. n - 1 : Td!StepOf(k, i) \in Nat
  BY StepsGrow
<1>3. \E j \in 0 .. n : \A i \in 0 .. n - 1 : Td!StepOf(k, i) < s <=> i < j
  <2>1. CASE Ahead = {}
    <3>1. \A i \in 0 .. n - 1 : Td!StepOf(k, i) < s /\ i < n
      BY <2>1
    <3>2. n \in 0 .. n
      OBVIOUS
    <3> QED BY <3>1, <3>2
  <2>2. CASE Ahead # {}
    <3>1. PICK j \in Ahead : \A p \in Ahead : <<p, j>> \notin OpToRel(<, Nat)
      <4>1. Ahead \subseteq Nat
        OBVIOUS
      <4> HIDE DEF Ahead
      <4> QED BY <2>2, <4>1, NatLessThanWellFounded, WFMin
    <3>2. j \in 0 .. n - 1 /\ ~(Td!StepOf(k, j) < s)
      OBVIOUS
    <3>3. \A i \in 0 .. n - 1 : i < j => Td!StepOf(k, i) < s
      <4>1. \A p \in Ahead : ~(p < j)
        <5>1. Ahead \subseteq Nat
          OBVIOUS
        <5> HIDE DEF Ahead
        <5> QED BY <3>1, <3>2, <5>1 DEF OpToRel
      <4> QED BY <3>2, <4>1
    <3>4. \A i \in 0 .. n - 1 : ~(i < j) => ~(Td!StepOf(k, i) < s)
      <4> SUFFICES ASSUME NEW i \in 0 .. n - 1, ~(i < j) PROVE ~(Td!StepOf(k, i) < s)
        OBVIOUS
      <4>1. Td!StepOf(k, j) <= Td!StepOf(k, i)
        BY <1>1, <3>2
      <4> HIDE DEF Ahead
      <4> QED BY <1>2, <3>2, <4>1
    <3> QED BY <3>2, <3>3, <3>4
  <2> QED BY <2>1, <2>2
<1>4. PICK j \in 0 .. n : \A i \in 0 .. n - 1 : Td!StepOf(k, i) < s <=> i < j
  BY <1>3
<1>5. Td!SamplesBefore(k, n, s) = j
  BY <1>4, SamplesIf
<1> QED BY <1>4, <1>5

\* A later step has no fewer of them before it.
LEMMA SamplesGrow ==
    ASSUME NEW k \in Decks, NEW n \in Nat, NEW s \in Nat, NEW t \in Nat, s <= t
    PROVE  Td!SamplesBefore(k, n, s) <= Td!SamplesBefore(k, n, t)
<1> DEFINE a == Td!SamplesBefore(k, n, s)
           b == Td!SamplesBefore(k, n, t)
<1>1. /\ a \in 0 .. n /\ \A i \in 0 .. n - 1 : Td!StepOf(k, i) < s <=> i < a
      /\ b \in 0 .. n /\ \A i \in 0 .. n - 1 : Td!StepOf(k, i) < t <=> i < b
  BY SamplesAre
<1> HIDE DEF a, b
<1>2. ASSUME b < a PROVE FALSE
  <2>1. b \in 0 .. n - 1 /\ b \in Nat
    BY <1>1, <1>2
  <2>2. Td!StepOf(k, b) < s /\ ~(Td!StepOf(k, b) < t) /\ Td!StepOf(k, b) \in Nat
    BY <1>1, <1>2, <2>1, StepsGrow
  <2> QED BY <2>2
<1>3. a <= b
  BY <1>1, <1>2
<1> QED BY <1>3 DEF a, b

-----------------------------------------------------------------------------
(* TdRestart: the steps *)

\* What a leg opens is a file.
LEMMA FileIsNotNone == None \notin TdRecord
BY TdAssumption DEF TdRecord, TdRows, TdCarry, TdSample

\* Before any leg there is nothing.
LEMMA TdStart == ASSUME Td!Init PROVE TdIInv
<1>1. tdLegs \in 0 .. Legs
  BY LegsAssumption DEF Td!Init
<1> QED BY <1>1 DEF Td!Init, TdIInv, TdFilesOK, TdJobOK

\* A step that changes no file keeps the invariant if the leg stays right.
LEMMA TdFrame ==
    ASSUME TdIInv, UNCHANGED <<tdFile, tdLegs>>, TdJobOK'
    PROVE  TdIInv'
<1>1. TdFilesOK'
  BY DEF TdIInv, TdFilesOK
<1> QED BY <1>1 DEF TdIInv

\* A leg that is gone needs nothing.
LEMMA TdGone == ASSUME TdIInv, UNCHANGED <<tdFile, tdLegs>>, tdJob' = None PROVE TdIInv'
<1>1. TdJobOK'
  BY DEF TdJobOK
<1> QED BY <1>1, TdFrame

\* Of a step that changes the file of the leg and no other.
LEMMA TdFileFrame ==
    ASSUME TdIInv, tdJob # None, tdLegs' = tdLegs, NEW g \in TdRecord,
           tdFile' = [tdFile EXCEPT ![tdJob.out] = g], g.deck = tdJob.k, g.n = tdJob.n,
           g.rows[0] \in [0 .. g.n - 1 -> TdSample],
           g.next[0] \in -1 .. g.n,
           RightBelow(g, g.next[0]), TdCarryOK(g),
           TdJobOK'
    PROVE  TdIInv'
<1>1. tdFile \in [Dirs -> TdRecord \cup {None}] /\ tdJob.out \in Dirs
  BY DEF TdIInv, TdJobOK, TdLeg
<1>2. tdFile' \in [Dirs -> TdRecord \cup {None}]
  BY <1>1
<1>3. TdFilesOK'
  <2> SUFFICES ASSUME NEW d \in Dirs, tdFile'[d] # None
               PROVE  /\ tdFile'[d] \in TdRecord
                      /\ tdFile'[d].rows[0] \in [0 .. tdFile'[d].n - 1 -> TdSample]
                      /\ tdFile'[d].next[0] \in -1 .. tdFile'[d].n
                      /\ RightBelow(tdFile'[d], tdFile'[d].next[0])
                      /\ TdCarryOK(tdFile'[d])
    BY DEF TdFilesOK, RightBelow, TdCarryOK, Behind
  <2>1. CASE d = tdJob.out
    <3>1. tdFile'[d] = g
      BY <1>1, <2>1
    <3> QED BY <3>1
  <2>2. CASE d # tdJob.out
    <3>1. tdFile'[d] = tdFile[d]
      BY <1>1, <2>2
    <3> QED BY <3>1 DEF TdIInv, TdFilesOK
  <2> QED BY <2>1, <2>2
<1> QED BY <1>2, <1>3 DEF TdIInv

\* A leg begins with empty files of its own.
LEMMA TdOpens ==
    ASSUME TdIInv, NEW k \in Decks, NEW n \in Ends, NEW c \in TdChunks, NEW out \in Dirs,
           NEW from \in Dirs \cup {None}, Td!Open(k, n, c, out, from)
    PROVE  TdIInv'
<1> DEFINE g == [deck |-> k, n |-> n, rows |-> [t \in Trials |-> Td!Empty(n)],
                 next |-> [t \in Trials |-> -1], carry |-> None]
<1>1. /\ tdLegs' = tdLegs + 1 /\ tdLegs < Legs /\ from # out
      /\ from # None => tdFile[from] # None
      /\ tdFile' = [tdFile EXCEPT ![out] = g]
      /\ tdJob' = [at |-> "load", k |-> k, n |-> n, chunk |-> c, out |-> out, from |-> from,
                   i |-> 0, s |-> 0, state |-> 0, todo |-> {}, lo |-> 0,
                   samples |-> Td!Empty(0)]
  BY DEF Td!Open
<1>2. tdFile \in [Dirs -> TdRecord \cup {None}] /\ tdLegs \in 0 .. Legs /\ 0 \in Trials
  BY TdAssumption DEF TdIInv
<1>3. Td!Empty(n) \in [0 .. n - 1 -> TdSample] /\ Td!Empty(0) \in [0 .. -1 -> TdSample]
  BY DEF Td!Empty, TdSample
<1>4. g \in TdRecord
  <2>1. [t \in Trials |-> Td!Empty(n)] \in [Trials -> TdRows]
    BY <1>3 DEF TdRows
  <2>2. [t \in Trials |-> -1] \in [Trials -> Int]
    OBVIOUS
  <2> QED BY <2>1, <2>2 DEF TdRecord
<1>5. g # None /\ g.rows[0] = Td!Empty(n) /\ g.next[0] = -1 /\ g.carry = None
      /\ g.deck = k /\ g.n = n
  BY <1>2, <1>4, FileIsNotNone
<1>6. tdFile'[out] = g /\ \A d \in Dirs : d # out => tdFile'[d] = tdFile[d]
  BY <1>1, <1>2
<1>7. n \in Nat
  BY TdAssumption
<1> HIDE DEF g
<1>8. TdFilesOK'
  <2> SUFFICES ASSUME NEW d \in Dirs, tdFile'[d] # None
               PROVE  /\ tdFile'[d] \in TdRecord
                      /\ tdFile'[d].rows[0] \in [0 .. tdFile'[d].n - 1 -> TdSample]
                      /\ tdFile'[d].next[0] \in -1 .. tdFile'[d].n
                      /\ RightBelow(tdFile'[d], tdFile'[d].next[0])
                      /\ TdCarryOK(tdFile'[d])
    BY DEF TdFilesOK, RightBelow, TdCarryOK, Behind
  <2>1. CASE d = out
    <3>1. RightBelow(g, -1)
      BY DEF RightBelow
    <3>2. TdCarryOK(g)
      BY <1>5 DEF TdCarryOK
    <3>3. -1 \in -1 .. n
      BY <1>7
    <3> QED BY <1>3, <1>4, <1>5, <1>6, <2>1, <3>1, <3>2, <3>3
  <2>2. CASE d # out
    <3>1. tdFile'[d] = tdFile[d]
      BY <1>6, <2>2
    <3> QED BY <3>1 DEF TdIInv, TdFilesOK
  <2> QED BY <2>1, <2>2
<1>9. TdJobOK'
  <2> DEFINE p == [at |-> "load", k |-> k, n |-> n, chunk |-> c, out |-> out, from |-> from,
                   i |-> 0, s |-> 0, state |-> 0, todo |-> {}, lo |-> 0,
                   samples |-> Td!Empty(0)]
  <2>1. p \in TdLeg(p.samples)
    <3>1. {} \in SUBSET Trials
      OBVIOUS
    <3> DEFINE e == Td!Empty(0)
    <3>2. p = [at |-> "load", k |-> k, n |-> n, chunk |-> c, out |-> out, from |-> from,
               i |-> 0, s |-> 0, state |-> 0, todo |-> {}, lo |-> 0, samples |-> e]
      OBVIOUS
    <3> HIDE DEF e, p
    <3> QED BY <3>1, <3>2 DEF TdLeg
  <2>2. /\ p.at = "load" /\ p.k = k /\ p.n = n /\ p.out = out /\ p.from = from /\ p.i = 0
        /\ p.s = 0 /\ p.state = 0 /\ p.todo = {} /\ p.lo = 0
    OBVIOUS
  <2>3. tdJob' = p
    BY <1>1
  <2>4. from # None => tdFile'[from] # None
    <3>1. from # None => from \in Dirs /\ from # out
      BY <1>1
    <3> QED BY <1>1, <1>6, <3>1
  <2> HIDE DEF p
  <2>5. tdFile'[tdJob'.out] = g
    BY <1>6, <2>2, <2>3
  <2> QED BY <1>1, <1>5, <2>1, <2>2, <2>3, <2>4, <2>5 DEF TdJobOK
<1>10. tdFile' \in [Dirs -> TdRecord \cup {None}]
  BY <1>1, <1>2, <1>4
<1>11. tdLegs' \in 0 .. Legs
  BY <1>1, <1>2, LegsAssumption
<1> QED BY <1>8, <1>9, <1>10, <1>11 DEF TdIInv

\* What is known of a running leg and its file.
LEMMA TdAtWork ==
    ASSUME TdIInv, tdJob # None
    PROVE  LET f == tdFile[tdJob.out] IN
           /\ tdJob \in TdLeg(tdJob.samples) /\ f \in TdRecord
           /\ tdFile \in [Dirs -> TdRecord \cup {None}]
           /\ f # None /\ f.deck = tdJob.k /\ f.n = tdJob.n /\ tdJob.k \in Decks
           /\ tdJob.n \in Nat \ {0} /\ tdJob.chunk \in Nat \ {0} /\ tdJob.out \in Dirs
           /\ f.rows[0] \in [0 .. f.n - 1 -> TdSample]
           /\ f.next[0] \in -1 .. f.n
           /\ RightBelow(f, f.next[0]) /\ TdCarryOK(f)
           /\ tdJob.i \in Nat /\ tdJob.s \in Nat /\ tdJob.state \in Nat /\ tdJob.lo \in Nat
           /\ tdJob.from \in Dirs \cup {None}
<1>1. tdJob \in TdLeg(tdJob.samples)
  BY DEF TdIInv, TdJobOK
<1>2. tdJob.out \in Dirs /\ tdJob.n \in Ends /\ tdJob.chunk \in TdChunks
  BY <1>1 DEF TdLeg
<1>3. tdJob.n \in Nat \ {0} /\ tdJob.chunk \in Nat \ {0}
  BY <1>2, TdAssumption
<1>4. /\ tdJob.k \in Decks /\ tdJob.i \in Nat /\ tdJob.s \in Nat /\ tdJob.state \in Nat
      /\ tdJob.lo \in Nat /\ tdJob.from \in Dirs \cup {None}
  BY <1>1 DEF TdLeg
<1>5. /\ tdFile[tdJob.out] # None /\ tdFile[tdJob.out].deck = tdJob.k
      /\ tdFile[tdJob.out].n = tdJob.n
  BY DEF TdIInv, TdJobOK
<1>6. /\ tdFile[tdJob.out] \in TdRecord
      /\ tdFile[tdJob.out].rows[0] \in [0 .. tdFile[tdJob.out].n - 1 -> TdSample]
      /\ tdFile[tdJob.out].next[0] \in -1 .. tdFile[tdJob.out].n
      /\ RightBelow(tdFile[tdJob.out], tdFile[tdJob.out].next[0])
      /\ TdCarryOK(tdFile[tdJob.out])
  BY <1>2, <1>5 DEF TdIInv, TdFilesOK
<1>7. tdFile \in [Dirs -> TdRecord \cup {None}]
  BY DEF TdIInv
<1> QED BY <1>1, <1>2, <1>3, <1>4, <1>5, <1>6, <1>7

\* Nothing lies behind a run at its start.
LEMMA NothingBehind == ASSUME NEW k \in Decks, NEW n \in Nat PROVE Behind(k, n, 0, 0, 0)
<1>1. \A i \in 0 .. n - 1 : Td!StepOf(k, i) \in Nat
  BY StepsGrow
<1>2. Td!SamplesBefore(k, n, 0) = 0
  <2>1. \A i \in 0 .. n - 1 : Td!StepOf(k, i) < 0 <=> i < 0
    BY <1>1
  <2>2. 0 \in 0 .. n
    OBVIOUS
  <2> QED BY <2>1, <2>2, SamplesIf
<1>3. Td!ReachedBy(k, 0) \in Nat
  BY StepsGrow
<1> QED BY <1>2, <1>3 DEF Behind

\* A leg that continues nothing is at its start.
LEMMA TdFromStart == ASSUME TdIInv, Td!FromStart PROVE TdIInv'
<1> DEFINE p == [tdJob EXCEPT !.at = "run"]
<1>1. tdJob # None /\ tdJob.at = "load" /\ tdJob' = p /\ UNCHANGED <<tdFile, tdLegs>>
  BY DEF Td!FromStart
<1>2. tdJob \in TdLeg(tdJob.samples) /\ tdFile[tdJob.out] # None
      /\ tdFile[tdJob.out].deck = tdJob.k /\ tdFile[tdJob.out].n = tdJob.n
      /\ tdJob.k \in Decks /\ tdJob.n \in Nat
  BY <1>1, TdAtWork
<1>3. /\ tdJob.i = 0 /\ tdJob.s = 0 /\ tdJob.state = 0
      /\ tdFile[tdJob.out].carry = None
  BY <1>1 DEF TdIInv, TdJobOK
<1>4. /\ p \in TdLeg(p.samples) /\ p.at = "run" /\ p.k = tdJob.k /\ p.n = tdJob.n
      /\ p.out = tdJob.out /\ p.i = 0 /\ p.s = 0 /\ p.state = 0 /\ p.lo = tdJob.lo
  BY <1>2, <1>3 DEF TdLeg
<1> HIDE DEF p
<1>5. Behind(p.k, p.n, p.i, p.s, p.state)
  BY <1>2, <1>4, NothingBehind
<1>6. RightBelow(tdFile[tdJob.out], 0)
  BY DEF RightBelow
<1>7. TdJobOK'
  BY <1>1, <1>2, <1>3, <1>4, <1>5, <1>6 DEF TdJobOK
<1> QED BY <1>1, <1>7, TdFrame

\* A run that is over has all its samples.
LEMMA TdFinish == ASSUME TdIInv, Td!Finish PROVE TdIInv'
<1> DEFINE p == [tdJob EXCEPT !.at = "done"]
<1>1. tdJob # None /\ tdJob.at = "run" /\ tdJob' = p /\ UNCHANGED <<tdFile, tdLegs>>
  BY DEF Td!Finish
<1>2. tdJob \in TdLeg(tdJob.samples) /\ tdFile[tdJob.out] # None
      /\ tdFile[tdJob.out].deck = tdJob.k /\ tdFile[tdJob.out].n = tdJob.n
      /\ tdJob.k \in Decks /\ tdJob.n \in Nat \ {0} /\ tdJob.s \in Nat /\ tdJob.i \in Nat
  BY <1>1, TdAtWork
<1>3. /\ Behind(tdJob.k, tdJob.n, tdJob.i, tdJob.s, tdJob.state)
      /\ RightBelow(tdFile[tdJob.out], tdJob.i)
      /\ tdFile[tdJob.out].carry # None =>
           /\ tdFile[tdJob.out].carry.step <= tdJob.s
           /\ Behind(tdJob.k, tdJob.n, tdJob.i, tdFile[tdJob.out].carry.step,
                     tdFile[tdJob.out].carry.state)
  BY <1>1 DEF TdIInv, TdJobOK
<1>4. tdJob.i >= tdJob.n
  <2>1. CASE tdJob.k.method = "fixed"
    <3> DEFINE b == Td!SamplesBefore(tdJob.k, tdJob.n, tdJob.s)
    <3>1. tdJob.s >= Td!StepsOf(tdJob.k, tdJob.n)
      BY <2>1 DEF Td!Finish, Td!Over
    <3>2. b <= tdJob.i
      BY <1>3, <2>1 DEF Behind
    <3>5. /\ b \in 0 .. tdJob.n
          /\ \A i \in 0 .. tdJob.n - 1 : Td!StepOf(tdJob.k, i) < tdJob.s <=> i < b
      <4>1. tdJob.k \in Decks /\ tdJob.n \in Nat /\ tdJob.s \in Nat
        BY <1>2
      <4> HIDE DEF p
      <4> QED BY <4>1, SamplesAre, Zenon
    <3> HIDE DEF b
    <3>3. b \in 0 .. tdJob.n /\ (b < tdJob.n => ~(Td!StepOf(tdJob.k, b) < tdJob.s))
      BY <1>2, <3>5
    <3>4. b < tdJob.n =>
            /\ Td!StepOf(tdJob.k, b) < Td!StepsOf(tdJob.k, tdJob.n)
            /\ Td!StepOf(tdJob.k, b) \in Nat /\ Td!StepsOf(tdJob.k, tdJob.n) \in Nat
      BY <1>2, <3>3, StepsPass, StepsGrow
    <3> QED BY <1>2, <3>1, <3>2, <3>3, <3>4
  <2>2. CASE tdJob.k.method # "fixed"
    BY <2>2 DEF Td!Finish, Td!Over
  <2> QED BY <2>1, <2>2
<1>5. /\ p \in TdLeg(p.samples) /\ p.at = "done" /\ p.k = tdJob.k /\ p.n = tdJob.n
      /\ p.out = tdJob.out /\ p.i = tdJob.i /\ p.s = tdJob.s /\ p.state = tdJob.state
      /\ p.lo = tdJob.lo
  BY <1>2 DEF TdLeg
<1> HIDE DEF p
<1>6. TdJobOK'
  BY <1>1, <1>2, <1>3, <1>4, <1>5 DEF TdJobOK
<1> QED BY <1>1, <1>6, TdFrame

\* A fixed chunk goes to the step of a later sample, or to the end, and takes the
\* samples in between where the unbroken run does.
LEMMA TdFixedChunk == ASSUME TdIInv, Trials = {0}, Td!FixedChunk PROVE TdIInv'
<1> DEFINE k == tdJob.k
           n == tdJob.n
           s == Td!LastStep
           i == Td!LastSample(s)
           h == [x \in tdJob.i .. i - 1 |-> IF Td!StepOf(k, x) < s THEN Td!Emitted(x) ELSE Lost]
           p == [tdJob EXCEPT !.at = "write", !.todo = Trials, !.lo = tdJob.i, !.i = i, !.s = s,
                              !.state = @ + s - tdJob.s, !.samples = h]
<1>1. /\ tdJob # None /\ tdJob.at = "run" /\ k.method = "fixed"
      /\ tdJob.s < Td!StepsOf(k, n) /\ tdJob' = p /\ UNCHANGED <<tdFile, tdLegs>>
  BY DEF Td!FixedChunk
<1>2. /\ tdJob \in TdLeg(tdJob.samples) /\ tdFile[tdJob.out] # None
      /\ tdFile[tdJob.out].deck = k /\ tdFile[tdJob.out].n = n /\ k \in Decks
      /\ n \in Nat \ {0} /\ tdJob.chunk \in Nat \ {0} /\ tdJob.s \in Nat /\ tdJob.i \in Nat
      /\ tdJob.state \in Nat
  BY <1>1, TdAtWork
<1>3. /\ Td!StepsOf(k, n) \in Nat
      /\ \A x \in Nat : Td!StepOf(k, x) \in Nat
  BY <1>2, StepsGrow
<1>4. /\ tdJob.state = tdJob.s /\ Td!SamplesBefore(k, n, tdJob.s) <= tdJob.i
      /\ RightBelow(tdFile[tdJob.out], tdJob.i)
      /\ tdFile[tdJob.out].carry # None =>
           /\ tdFile[tdJob.out].carry.step <= tdJob.s
           /\ tdFile[tdJob.out].carry.state = tdFile[tdJob.out].carry.step
           /\ tdFile[tdJob.out].carry.step \in Nat
  <2>1. /\ Behind(k, n, tdJob.i, tdJob.s, tdJob.state)
        /\ RightBelow(tdFile[tdJob.out], tdJob.i)
        /\ tdFile[tdJob.out].carry # None =>
             /\ tdFile[tdJob.out].carry.step <= tdJob.s
             /\ Behind(k, n, tdJob.i, tdFile[tdJob.out].carry.step,
                       tdFile[tdJob.out].carry.state)
    BY <1>1 DEF TdIInv, TdJobOK
  <2>2. tdFile[tdJob.out].carry \in TdCarry \cup {None}
    BY <1>1, TdAtWork DEF TdRecord
  <2> QED BY <1>1, <2>1, <2>2 DEF Behind, TdCarry
<1>5. s \in Nat /\ s > tdJob.s /\ s <= Td!StepsOf(k, n)
  <2> DEFINE it == tdJob.i + tdJob.chunk
             e == IF it < n THEN Td!StepOf(k, it) ELSE Td!StepsOf(k, n)
  <2>1. s = IF e > tdJob.s + 1 THEN e ELSE tdJob.s + 1
    BY DEF Td!LastStep, Td!Larger
  <2>2. it \in Nat
    BY <1>2
  <2>3. it < n => Td!StepOf(k, it) < Td!StepsOf(k, n)
    BY <1>2, <2>2, StepsPass
  <2>4. e \in Nat /\ e <= Td!StepsOf(k, n)
    BY <1>3, <2>2, <2>3
  <2> HIDE DEF it, e, s
  <2> QED BY <1>1, <1>2, <1>3, <2>1, <2>4
<1>6. i = Td!SamplesBefore(k, n, s)
  BY DEF Td!LastSample
<1>7. i \in 0 .. n /\ \A x \in 0 .. n - 1 : Td!StepOf(k, x) < s <=> x < i
  <2> HIDE DEF s
  <2> QED BY <1>2, <1>5, <1>6, SamplesAre
<1>8. tdJob.i < n => ~(Td!StepOf(k, tdJob.i) < tdJob.s)
  <2> DEFINE b == Td!SamplesBefore(k, n, tdJob.s)
  <2>1. b \in 0 .. n /\ \A x \in 0 .. n - 1 : Td!StepOf(k, x) < tdJob.s <=> x < b
    BY <1>2, SamplesAre
  <2>2. b <= tdJob.i
    BY <1>4
  <2> HIDE DEF b, n, i, s
  <2> QED BY <1>2, <2>1, <2>2
<1>10. \A x \in tdJob.i .. i - 1 : h[x] = Td!StepOf(k, x)
  <2> SUFFICES ASSUME NEW x \in tdJob.i .. i - 1 PROVE h[x] = Td!StepOf(k, x)
    OBVIOUS
  <2>1. x \in 0 .. n - 1 /\ x < i /\ tdJob.i \in 0 .. n - 1 /\ x \in Nat
    <3> HIDE DEF n, i, s
    <3> QED BY <1>2, <1>7
  <2>2. Td!StepOf(k, x) < s
    BY <1>7, <2>1
  <2>3. Td!StepOf(k, tdJob.i) >= tdJob.s
    <3>1. ~(Td!StepOf(k, tdJob.i) < tdJob.s)
      BY <1>2, <1>8, <2>1
    <3> QED BY <1>2, <1>3, <3>1
  <2>4. Td!Emitted(x) = tdJob.state + Td!StepOf(k, x) - tdJob.s
    BY <2>3 DEF Td!Emitted
  <2>5. h[x] = Td!Emitted(x)
    BY <2>2
  <2>6. Td!StepOf(k, x) \in Nat
    BY <1>3, <2>1
  <2> HIDE DEF h, i, s
  <2> QED BY <1>2, <1>4, <2>4, <2>5, <2>6
<1>11. tdJob.state + s - tdJob.s = s
  <2> HIDE DEF s
  <2> QED BY <1>2, <1>4, <1>5
<1>12. /\ p.at = "write" /\ p.k = k /\ p.n = n /\ p.out = tdJob.out /\ p.i = i /\ p.s = s
       /\ p.state = s /\ p.todo = {0} /\ p.lo = tdJob.i /\ p.samples = h
       /\ p \in TdLeg(p.samples)
  <2> DEFINE a == i
             b == s
             c == h
  <2>1. p = [tdJob EXCEPT !.at = "write", !.todo = {0}, !.lo = tdJob.i, !.i = a, !.s = b,
                          !.state = b, !.samples = c]
    BY <1>2, <1>11 DEF TdLeg
  <2>2. a \in Nat /\ b \in Nat
    BY <1>5, <1>7
  <2>3. {0} \in SUBSET Trials
    OBVIOUS
  <2> HIDE DEF a, b, c, p
  <2>4. /\ p.at = "write" /\ p.k = k /\ p.n = n /\ p.out = tdJob.out /\ p.i = a /\ p.s = b
        /\ p.state = b /\ p.todo = {0} /\ p.lo = tdJob.i /\ p.samples = c
        /\ p \in TdLeg(c)
    BY <1>2, <2>1, <2>2, <2>3 DEF TdLeg
  <2> QED BY <2>4 DEF a, b, c
<1>13. h \in [tdJob.i .. i - 1 -> TdSample]
  <2>1. \A x \in tdJob.i .. i - 1 : x \in Nat
    <3> HIDE DEF i
    <3> QED BY <1>2, <1>7
  <2>2. \A x \in tdJob.i .. i - 1 : h[x] \in TdSample
    BY <1>3, <1>10, <2>1 DEF TdSample
  <2>3. h = [x \in tdJob.i .. i - 1 |-> h[x]]
    OBVIOUS
  <2> HIDE DEF h
  <2> QED BY <2>2, <2>3
<1>14. \A x \in tdJob.i .. i - 1 : h[x] = Td!Unbroken(k, x)
  <2> HIDE DEF h, i
  <2> QED BY <1>1, <1>10 DEF Td!Unbroken
<1> HIDE DEF p, h, i, s
<1>15. Behind(k, n, i, s, s)
  BY <1>1, <1>2, <1>6, <1>7 DEF Behind
<1>16. tdFile[tdJob.out].carry # None =>
         /\ tdFile[tdJob.out].carry.step <= s
         /\ Behind(k, n, i, tdFile[tdJob.out].carry.step, tdFile[tdJob.out].carry.state)
  <2> SUFFICES ASSUME tdFile[tdJob.out].carry # None
               PROVE  /\ tdFile[tdJob.out].carry.step <= s
                      /\ Behind(k, n, i, tdFile[tdJob.out].carry.step,
                                tdFile[tdJob.out].carry.state)
    OBVIOUS
  <2> DEFINE c == tdFile[tdJob.out].carry.step
  <2>1. c \in Nat /\ c <= tdJob.s /\ tdFile[tdJob.out].carry.state = c
    BY <1>4
  <2> HIDE DEF c
  <2>2. c <= s
    BY <1>2, <1>5, <2>1
  <2>3. Td!SamplesBefore(k, n, c) <= i
    BY <1>2, <1>5, <1>6, <2>1, <2>2, SamplesGrow
  <2> QED BY <1>1, <2>1, <2>2, <2>3 DEF Behind, c
<1>17. i <= n
  BY <1>2, <1>7
<1>18. TdJobOK'
  <2>1. tdJob' = p /\ tdFile' = tdFile /\ tdFile'[p.out] = tdFile[tdJob.out]
    BY <1>1, <1>12
  <2> QED BY <1>1, <1>2, <1>4, <1>5, <1>12, <1>13, <1>14, <1>15, <1>16, <1>17, <2>1
          DEF TdJobOK
<1> QED BY <1>1, <1>18, TdFrame

\* An adaptive chunk goes to its last sample, or to the end, and takes the samples
\* in between where the unbroken run does.
LEMMA TdAdaptiveChunk == ASSUME TdIInv, Trials = {0}, Td!AdaptiveChunk PROVE TdIInv'
<1> DEFINE k == tdJob.k
           n == tdJob.n
           i == Td!ChunkEnd
           e == IF i = n THEN Td!StepsOf(k, n) ELSE Td!ReachedBy(k, i - 1)
           t == Td!Larger(tdJob.state, e)
           h == [x \in tdJob.i .. i - 1 |-> Td!Larger(tdJob.state, Td!ReachedBy(k, x))]
           p == [tdJob EXCEPT !.at = "write", !.todo = Trials, !.lo = tdJob.i, !.i = i,
                              !.state = t, !.samples = h]
<1>1. /\ tdJob # None /\ tdJob.at = "run" /\ k.method = "dp54" /\ tdJob.i < n
      /\ tdJob' = p /\ UNCHANGED <<tdFile, tdLegs>>
  BY DEF Td!AdaptiveChunk
<1>2. /\ tdJob \in TdLeg(tdJob.samples) /\ tdFile[tdJob.out] # None
      /\ tdFile[tdJob.out].deck = k /\ tdFile[tdJob.out].n = n /\ k \in Decks
      /\ n \in Nat \ {0} /\ tdJob.chunk \in Nat \ {0} /\ tdJob.s \in Nat /\ tdJob.i \in Nat
      /\ tdJob.state \in Nat
  BY <1>1, TdAtWork
<1>3. /\ tdJob.s = 0 /\ (tdJob.i < n => tdJob.state <= Td!ReachedBy(k, tdJob.i))
      /\ RightBelow(tdFile[tdJob.out], tdJob.i)
      /\ tdFile[tdJob.out].carry # None =>
           /\ tdFile[tdJob.out].carry.step = 0
           /\ tdFile[tdJob.out].carry.state <= Td!ReachedBy(k, tdJob.i)
           /\ tdFile[tdJob.out].carry.state \in Nat
  <2>1. /\ Behind(k, n, tdJob.i, tdJob.s, tdJob.state)
        /\ RightBelow(tdFile[tdJob.out], tdJob.i)
        /\ tdFile[tdJob.out].carry # None =>
             Behind(k, n, tdJob.i, tdFile[tdJob.out].carry.step, tdFile[tdJob.out].carry.state)
    BY <1>1 DEF TdIInv, TdJobOK
  <2>2. tdFile[tdJob.out].carry \in TdCarry \cup {None}
    BY <1>1, TdAtWork DEF TdRecord
  <2> QED BY <1>1, <2>1, <2>2 DEF Behind, TdCarry
<1>4. i \in Nat /\ tdJob.i < i /\ i <= n
  <2> HIDE DEF n
  <2>1. i = IF tdJob.i + tdJob.chunk < n THEN tdJob.i + tdJob.chunk ELSE n
    BY DEF Td!ChunkEnd, n
  <2> HIDE DEF i
  <2> QED BY <1>1, <1>2, <2>1
<1>5. \A x, y \in Nat : /\ Td!ReachedBy(k, x) \in Nat /\ Td!StepsOf(k, x) = Td!ReachedBy(k, x)
                        /\ x <= y => Td!ReachedBy(k, x) <= Td!ReachedBy(k, y)
  BY <1>2, StepsGrow
<1> HIDE DEF i
<1>6. e \in Nat /\ Td!ReachedBy(k, i - 1) <= e /\ (i < n => e = Td!ReachedBy(k, i - 1))
  <2>1. i - 1 \in Nat /\ i - 1 <= n /\ n \in Nat
    BY <1>2, <1>4
  <2>2. Td!ReachedBy(k, i - 1) \in Nat /\ Td!ReachedBy(k, i - 1) <= Td!ReachedBy(k, n)
        /\ Td!StepsOf(k, n) = Td!ReachedBy(k, n) /\ Td!ReachedBy(k, n) \in Nat
    BY <1>5, <2>1
  <2> QED BY <1>2, <1>4, <2>2
<1> HIDE DEF e
<1>7. t \in Nat /\ Td!ReachedBy(k, i - 1) <= t /\ (i < n => t <= Td!ReachedBy(k, i))
  <2>1. i - 1 \in Nat /\ i - 1 <= i /\ tdJob.i <= i
    BY <1>2, <1>4
  <2>2. /\ Td!ReachedBy(k, i - 1) \in Nat /\ Td!ReachedBy(k, i) \in Nat
        /\ Td!ReachedBy(k, i - 1) <= Td!ReachedBy(k, i)
        /\ Td!ReachedBy(k, tdJob.i) \in Nat
        /\ Td!ReachedBy(k, tdJob.i) <= Td!ReachedBy(k, i)
    BY <1>2, <1>4, <1>5, <2>1
  <2>3. t = IF tdJob.state > e THEN tdJob.state ELSE e
    BY DEF Td!Larger
  <2> HIDE DEF t
  <2> QED BY <1>1, <1>2, <1>3, <1>6, <2>2, <2>3
<1>8. \A x \in tdJob.i .. i - 1 : h[x] = Td!ReachedBy(k, x) /\ Td!ReachedBy(k, x) \in Nat
  <2> SUFFICES ASSUME NEW x \in tdJob.i .. i - 1
               PROVE  h[x] = Td!ReachedBy(k, x) /\ Td!ReachedBy(k, x) \in Nat
    OBVIOUS
  <2>1. x \in Nat /\ tdJob.i <= x
    BY <1>2, <1>4
  <2>2. /\ Td!ReachedBy(k, x) \in Nat /\ Td!ReachedBy(k, tdJob.i) \in Nat
        /\ Td!ReachedBy(k, tdJob.i) <= Td!ReachedBy(k, x)
    BY <1>2, <1>5, <2>1
  <2>3. h[x] = IF tdJob.state > Td!ReachedBy(k, x) THEN tdJob.state ELSE Td!ReachedBy(k, x)
    BY DEF Td!Larger
  <2> HIDE DEF h
  <2> QED BY <1>1, <1>2, <1>3, <2>2, <2>3
<1>9. h \in [tdJob.i .. i - 1 -> TdSample]
  <2>1. \A x \in tdJob.i .. i - 1 : h[x] \in TdSample
    BY <1>8 DEF TdSample
  <2>2. h = [x \in tdJob.i .. i - 1 |-> h[x]]
    OBVIOUS
  <2> HIDE DEF h
  <2> QED BY <2>1, <2>2
<1>10. \A x \in tdJob.i .. i - 1 : h[x] = Td!Unbroken(k, x)
  <2> HIDE DEF h
  <2> QED BY <1>1, <1>8 DEF Td!Unbroken
<1> HIDE DEF h, t
<1>11. {0} \in SUBSET Trials
  OBVIOUS
<1>12. /\ p.at = "write" /\ p.k = k /\ p.n = n /\ p.out = tdJob.out /\ p.i = i /\ p.s = 0
       /\ p.state = t /\ p.todo = {0} /\ p.lo = tdJob.i /\ p.samples = h
       /\ p \in TdLeg(p.samples)
  BY <1>2, <1>3, <1>4, <1>7, <1>11 DEF TdLeg
<1> HIDE DEF p
<1>13. Behind(k, n, i, 0, t)
  BY <1>1, <1>2, <1>4, <1>7 DEF Behind
<1>14. tdFile[tdJob.out].carry # None =>
         /\ tdFile[tdJob.out].carry.step <= 0
         /\ Behind(k, n, i, tdFile[tdJob.out].carry.step, tdFile[tdJob.out].carry.state)
  <2>1. /\ Td!ReachedBy(k, tdJob.i) \in Nat /\ Td!ReachedBy(k, i) \in Nat
        /\ Td!ReachedBy(k, tdJob.i) <= Td!ReachedBy(k, i)
    BY <1>2, <1>4, <1>5
  <2> QED BY <1>1, <1>3, <1>4, <2>1 DEF Behind
<1>15. i <= n /\ k.method # "fixed"
  BY <1>1, <1>2, <1>4
<1>16. TdJobOK'
  <2>1. tdJob' = p /\ tdFile' = tdFile /\ tdFile'[p.out] = tdFile[tdJob.out]
    BY <1>1, <1>12
  <2> QED BY <1>1, <1>2, <1>3, <1>9, <1>10, <1>12, <1>13, <1>14, <1>15, <2>1 DEF TdJobOK
<1> QED BY <1>1, <1>16, TdFrame

\* The drive whose file is next.
LEMMA FirstIs == ASSUME tdJob.todo = {0} PROVE Td!First = 0
BY DEF Td!First

\* The rows of a chunk go into the file.
LEMMA TdWriteSamples == ASSUME TdIInv, Trials = {0}, Td!WriteSamples PROVE TdIInv'
<1> DEFINE f == tdFile[tdJob.out]
           lo == tdJob.lo
           hi == tdJob.i - 1
           w == [x \in 0 .. tdJob.n - 1 |-> IF x \in lo .. hi THEN tdJob.samples[x] ELSE f.rows[0][x]]
           g == [f EXCEPT !.rows[0] = w]
           p == [tdJob EXCEPT !.at = "check"]
<1>1. tdJob # None /\ tdJob.at = "write" /\ tdJob' = p /\ tdLegs' = tdLegs
  BY DEF Td!WriteSamples
<1>2. /\ tdJob \in TdLeg(tdJob.samples) /\ f \in TdRecord
      /\ tdFile \in [Dirs -> TdRecord \cup {None}]
      /\ f # None /\ f.deck = tdJob.k /\ f.n = tdJob.n /\ tdJob.k \in Decks
      /\ tdJob.n \in Nat \ {0} /\ tdJob.out \in Dirs
      /\ f.rows[0] \in [0 .. f.n - 1 -> TdSample]
      /\ f.next[0] \in -1 .. f.n /\ RightBelow(f, f.next[0]) /\ TdCarryOK(f)
      /\ tdJob.i \in Nat /\ lo \in Nat
  BY <1>1, TdAtWork
<1>3. /\ Behind(tdJob.k, tdJob.n, tdJob.i, tdJob.s, tdJob.state)
      /\ tdJob.todo = {0} /\ tdJob.i <= tdJob.n
      /\ tdJob.k.method = "fixed" => tdJob.s <= Td!StepsOf(tdJob.k, tdJob.n)
      /\ RightBelow(f, lo)
      /\ tdJob.samples \in [lo .. hi -> TdSample]
      /\ \A x \in lo .. hi : tdJob.samples[x] = Td!Unbroken(tdJob.k, x)
      /\ f.carry # None =>
           /\ f.carry.step <= tdJob.s
           /\ Behind(tdJob.k, tdJob.n, tdJob.i, f.carry.step, f.carry.state)
  BY <1>1 DEF TdIInv, TdJobOK
<1>4. tdFile' = [tdFile EXCEPT ![tdJob.out] = g]
  <2>1. tdFile' = [tdFile EXCEPT ![tdJob.out].rows[0] =
          [x \in 0 .. tdJob.n - 1 |-> IF x \in lo .. hi THEN tdJob.samples[x] ELSE @[x]]]
    BY <1>3, FirstIs DEF Td!WriteSamples
  <2> QED BY <1>2, <2>1
<1>5. w \in [0 .. f.n - 1 -> TdSample]
  <2>1. \A x \in 0 .. tdJob.n - 1 : w[x] \in TdSample
    BY <1>2, <1>3
  <2>2. w = [x \in 0 .. tdJob.n - 1 |-> w[x]]
    OBVIOUS
  <2> HIDE DEF w
  <2> QED BY <1>2, <2>1, <2>2
<1>6. \A x \in 0 .. tdJob.n - 1 : w[x] = IF x \in lo .. hi THEN tdJob.samples[x] ELSE f.rows[0][x]
  OBVIOUS
<1> HIDE DEF w
<1>7. tdJob.n \in Ends /\ f.rows \in [Trials -> TdRows]
  BY <1>2 DEF TdLeg, TdRecord
<1>8. g = [f EXCEPT !.rows = [f.rows EXCEPT ![0] = w]] /\ w \in TdRows
  BY <1>2, <1>5, <1>7 DEF TdRows
<1>9. /\ g \in TdRecord /\ g.deck = f.deck /\ g.n = f.n /\ g.next = f.next /\ g.carry = f.carry
      /\ g.rows[0] = w
  <2>1. [f.rows EXCEPT ![0] = w] \in [Trials -> TdRows] /\ [f.rows EXCEPT ![0] = w][0] = w
    BY <1>7, <1>8
  <2> DEFINE v == [f.rows EXCEPT ![0] = w]
  <2> HIDE DEF v
  <2>2. v \in [Trials -> TdRows] /\ v[0] = w /\ g = [f EXCEPT !.rows = v]
    BY <1>8, <2>1 DEF v
  <2> QED BY <1>2, <2>2 DEF TdRecord
<1> HIDE DEF g
<1>10. RightBelow(g, tdJob.i)
  <2> SUFFICES ASSUME NEW x \in 0 .. tdJob.i - 1, x < g.n
               PROVE  g.rows[0][x] = Td!Unbroken(g.deck, x)
    BY DEF RightBelow
  <2>1. x \in 0 .. tdJob.n - 1 /\ (x \in lo .. hi \/ x \in 0 .. lo - 1)
    BY <1>2, <1>3, <1>9
  <2>2. CASE x \in lo .. hi
    BY <1>2, <1>3, <1>6, <1>9, <2>1, <2>2
  <2>3. CASE x \notin lo .. hi
    <3>1. f.rows[0][x] = Td!Unbroken(f.deck, x)
      BY <1>3, <1>9, <2>1, <2>3 DEF RightBelow
    <3> QED BY <1>6, <1>9, <2>1, <2>3, <3>1
  <2> QED BY <2>2, <2>3
<1>11. RightBelow(g, g.next[0])
  <2> SUFFICES ASSUME NEW x \in 0 .. g.next[0] - 1, x < g.n
               PROVE  g.rows[0][x] = Td!Unbroken(g.deck, x)
    BY DEF RightBelow
  <2>1. x \in 0 .. tdJob.n - 1 /\ x \in 0 .. f.next[0] - 1 /\ x < f.n
    BY <1>2, <1>9
  <2>2. CASE x \in lo .. hi
    BY <1>2, <1>3, <1>6, <1>9, <2>1, <2>2
  <2>3. CASE x \notin lo .. hi
    <3>1. f.rows[0][x] = Td!Unbroken(f.deck, x)
      BY <1>2, <2>1 DEF RightBelow
    <3> QED BY <1>6, <1>9, <2>1, <2>3, <3>1
  <2> QED BY <2>2, <2>3
<1>12. TdCarryOK(g)
  BY <1>2, <1>9 DEF TdCarryOK
<1>13. /\ p \in TdLeg(p.samples) /\ p.at = "check" /\ p.k = tdJob.k /\ p.n = tdJob.n
       /\ p.out = tdJob.out /\ p.i = tdJob.i /\ p.s = tdJob.s /\ p.state = tdJob.state
       /\ p.lo = lo /\ p.todo = {0}
  BY <1>2, <1>3 DEF TdLeg
<1> HIDE DEF p
<1>14. g # None
  BY <1>9, FileIsNotNone
<1>15. TdJobOK'
  <2>1. tdJob' = p /\ tdFile'[p.out] = g
    BY <1>1, <1>2, <1>4, <1>13
  <2> HIDE DEF lo, hi
  <2>2. g.deck = p.k /\ g.n = p.n /\ g.carry = tdFile[tdJob.out].carry
    BY <1>2, <1>3, <1>9, <1>13 DEF f
  <2> QED BY <1>3, <1>10, <1>13, <1>14, <2>1, <2>2 DEF TdJobOK
<1>16. g.deck = tdJob.k /\ g.n = tdJob.n /\ g.rows[0] \in [0 .. g.n - 1 -> TdSample]
       /\ g.next[0] \in -1 .. g.n
  BY <1>2, <1>5, <1>9
<1> QED BY <1>1, <1>4, <1>9, <1>11, <1>12, <1>15, <1>16, TdFileFrame

\* The counter of a chunk counts its samples; the old carry is not ahead of it.
LEMMA TdWriteCounter == ASSUME TdIInv, Trials = {0}, Td!WriteCounter PROVE TdIInv'
<1> DEFINE f == tdFile[tdJob.out]
           v == [f.next EXCEPT ![0] = tdJob.i]
           g == [f EXCEPT !.next = v]
           p == [tdJob EXCEPT !.at = "drop"]
<1>1. tdJob # None /\ tdJob.at = "check" /\ tdLegs' = tdLegs
  BY DEF Td!WriteCounter
<1>2. /\ tdJob \in TdLeg(tdJob.samples) /\ f \in TdRecord
      /\ tdFile \in [Dirs -> TdRecord \cup {None}]
      /\ f # None /\ f.deck = tdJob.k /\ f.n = tdJob.n
      /\ tdJob.n \in Nat \ {0} /\ tdJob.out \in Dirs
      /\ f.rows[0] \in [0 .. f.n - 1 -> TdSample]
      /\ TdCarryOK(f) /\ tdJob.i \in Nat
  BY <1>1, TdAtWork
<1>3. /\ Behind(tdJob.k, tdJob.n, tdJob.i, tdJob.s, tdJob.state)
      /\ tdJob.todo = {0} /\ tdJob.i <= tdJob.n
      /\ tdJob.k.method = "fixed" => tdJob.s <= Td!StepsOf(tdJob.k, tdJob.n)
      /\ RightBelow(f, tdJob.i)
      /\ f.carry # None =>
           /\ f.carry.step <= tdJob.s
           /\ Behind(tdJob.k, tdJob.n, tdJob.i, f.carry.step, f.carry.state)
  BY <1>1 DEF TdIInv, TdJobOK
<1>4. tdJob' = p
  BY <1>3, FirstIs DEF Td!WriteCounter
<1>5. tdFile' = [tdFile EXCEPT ![tdJob.out] = g]
  <2>1. tdFile' = [tdFile EXCEPT ![tdJob.out].next[0] = tdJob.i]
    BY <1>3, FirstIs DEF Td!WriteCounter
  <2> QED BY <1>2, <2>1
<1>6. f.next \in [Trials -> Int]
  BY <1>2 DEF TdRecord
<1>7. v \in [Trials -> Int] /\ v[0] = tdJob.i
  BY <1>2, <1>6
<1> HIDE DEF v
<1>8. /\ g \in TdRecord /\ g.deck = f.deck /\ g.n = f.n /\ g.next = v /\ g.carry = f.carry
      /\ g.rows = f.rows
  BY <1>2, <1>7 DEF TdRecord
<1> HIDE DEF g
<1>9. RightBelow(g, tdJob.i)
  BY <1>3, <1>8 DEF RightBelow
<1>10. TdCarryOK(g)
  BY <1>2, <1>3, <1>7, <1>8 DEF TdCarryOK
<1>11. /\ p \in TdLeg(p.samples) /\ p.at = "drop" /\ p.k = tdJob.k /\ p.n = tdJob.n
       /\ p.out = tdJob.out /\ p.i = tdJob.i /\ p.s = tdJob.s /\ p.state = tdJob.state
       /\ p.todo = tdJob.todo
  BY <1>2 DEF TdLeg
<1> HIDE DEF p
<1>12. g # None
  BY <1>8, FileIsNotNone
<1>13. TdJobOK'
  <2>1. tdJob' = p /\ tdFile'[p.out] = g
    BY <1>2, <1>4, <1>5, <1>11
  <2>2. g.deck = p.k /\ g.n = p.n /\ g.next[0] = p.i
    BY <1>2, <1>7, <1>8, <1>11
  <2> QED BY <1>3, <1>8, <1>9, <1>11, <1>12, <2>1, <2>2 DEF TdJobOK
<1>14. /\ g.deck = tdJob.k /\ g.n = tdJob.n /\ g.rows[0] \in [0 .. g.n - 1 -> TdSample]
       /\ g.next[0] \in -1 .. g.n /\ RightBelow(g, g.next[0])
  BY <1>2, <1>3, <1>7, <1>8, <1>9
<1> QED BY <1>1, <1>5, <1>8, <1>10, <1>13, <1>14, TdFileFrame

\* A file without a carry is one no leg continues.
LEMMA TdDropCarry == ASSUME TdIInv, Trials = {0}, Td!DropCarry PROVE TdIInv'
<1> DEFINE f == tdFile[tdJob.out]
           g == [f EXCEPT !.carry = None]
           p == [tdJob EXCEPT !.at = "carry"]
<1>1. /\ tdJob # None /\ tdJob.at = "drop" /\ tdLegs' = tdLegs /\ tdJob' = p
      /\ tdFile' = [tdFile EXCEPT ![tdJob.out].carry = None]
  BY DEF Td!DropCarry
<1>2. /\ tdJob \in TdLeg(tdJob.samples) /\ f \in TdRecord
      /\ tdFile \in [Dirs -> TdRecord \cup {None}]
      /\ f # None /\ f.deck = tdJob.k /\ f.n = tdJob.n
      /\ tdJob.n \in Nat \ {0} /\ tdJob.out \in Dirs
      /\ f.rows[0] \in [0 .. f.n - 1 -> TdSample]
      /\ f.next[0] \in -1 .. f.n /\ RightBelow(f, f.next[0])
  BY <1>1, TdAtWork
<1>3. /\ Behind(tdJob.k, tdJob.n, tdJob.i, tdJob.s, tdJob.state)
      /\ tdJob.todo = {0} /\ tdJob.i <= tdJob.n
      /\ tdJob.k.method = "fixed" => tdJob.s <= Td!StepsOf(tdJob.k, tdJob.n)
      /\ RightBelow(f, tdJob.i) /\ f.next[0] = tdJob.i
  BY <1>1 DEF TdIInv, TdJobOK
<1>4. tdFile' = [tdFile EXCEPT ![tdJob.out] = g]
  BY <1>1, <1>2
<1>5. /\ g \in TdRecord /\ g.deck = f.deck /\ g.n = f.n /\ g.next = f.next /\ g.carry = None
      /\ g.rows = f.rows
  BY <1>2 DEF TdRecord
<1> HIDE DEF g
<1>6. RightBelow(g, tdJob.i) /\ RightBelow(g, g.next[0]) /\ TdCarryOK(g)
  BY <1>2, <1>3, <1>5 DEF RightBelow, TdCarryOK
<1>7. /\ p \in TdLeg(p.samples) /\ p.at = "carry" /\ p.k = tdJob.k /\ p.n = tdJob.n
      /\ p.out = tdJob.out /\ p.i = tdJob.i /\ p.s = tdJob.s /\ p.state = tdJob.state
      /\ p.todo = tdJob.todo
  BY <1>2 DEF TdLeg
<1> HIDE DEF p
<1>8. g # None
  BY <1>5, FileIsNotNone
<1>9. TdJobOK'
  <2>1. tdJob' = p /\ tdFile'[p.out] = g
    BY <1>1, <1>2, <1>4, <1>7
  <2>2. g.deck = p.k /\ g.n = p.n /\ g.next[0] = p.i
    BY <1>2, <1>3, <1>5, <1>7
  <2> QED BY <1>3, <1>5, <1>6, <1>7, <1>8, <2>1, <2>2 DEF TdJobOK
<1> QED BY <1>1, <1>2, <1>4, <1>5, <1>6, <1>9, TdFileFrame

\* The new carry is of the moment the leg stands at.
LEMMA TdWriteCarry == ASSUME TdIInv, Trials = {0}, Td!WriteCarry PROVE TdIInv'
<1> DEFINE f == tdFile[tdJob.out]
           fp == Td!Fingerprint(tdJob.k, tdJob.n)
           c == [step |-> tdJob.s, state |-> tdJob.state, fp |-> fp]
           g == [f EXCEPT !.carry = c]
           p == [tdJob EXCEPT !.at = "run", !.todo = {}]
<1>1. /\ tdJob # None /\ tdJob.at = "carry" /\ tdLegs' = tdLegs
      /\ tdFile' = [tdFile EXCEPT ![tdJob.out].carry = c]
  BY DEF Td!WriteCarry
<1>2. /\ tdJob \in TdLeg(tdJob.samples) /\ f \in TdRecord
      /\ tdFile \in [Dirs -> TdRecord \cup {None}]
      /\ f # None /\ f.deck = tdJob.k /\ f.n = tdJob.n /\ tdJob.k \in Decks
      /\ tdJob.n \in Nat \ {0} /\ tdJob.out \in Dirs
      /\ f.rows[0] \in [0 .. f.n - 1 -> TdSample]
      /\ f.next[0] \in -1 .. f.n /\ RightBelow(f, f.next[0])
      /\ tdJob.i \in Nat /\ tdJob.s \in Nat /\ tdJob.state \in Nat
  BY <1>1, TdAtWork
<1>3. /\ Behind(tdJob.k, tdJob.n, tdJob.i, tdJob.s, tdJob.state)
      /\ tdJob.todo = {0} /\ tdJob.i <= tdJob.n
      /\ tdJob.k.method = "fixed" => tdJob.s <= Td!StepsOf(tdJob.k, tdJob.n)
      /\ RightBelow(f, tdJob.i) /\ f.next[0] = tdJob.i
  BY <1>1 DEF TdIInv, TdJobOK
<1>4. tdJob' = p
  <2>1. tdJob' = [tdJob EXCEPT !.at = IF tdJob.todo = {0} THEN "run" ELSE "write",
                               !.todo = tdJob.todo \ {0}]
    BY <1>2, <1>3, FirstIs DEF Td!WriteCarry, Td!Written, TdLeg
  <2>2. tdJob.todo \ {0} = {}
    BY <1>3
  <2> QED BY <1>3, <2>1, <2>2
<1>5. c \in TdCarry /\ c.step = tdJob.s /\ c.state = tdJob.state /\ c.fp = fp
  <2>1. fp \in Decks \X (Ends \cup {None})
    BY <1>2 DEF Td!Fingerprint, TdLeg
  <2> HIDE DEF fp
  <2> QED BY <1>2, <2>1 DEF TdCarry
<1> HIDE DEF c
<1>6. tdFile' = [tdFile EXCEPT ![tdJob.out] = g]
  BY <1>1, <1>2
<1>7. /\ g \in TdRecord /\ g.deck = f.deck /\ g.n = f.n /\ g.next = f.next /\ g.carry = c
      /\ g.rows = f.rows
  BY <1>2, <1>5 DEF TdRecord
<1> HIDE DEF g
<1>8. RightBelow(g, tdJob.i) /\ RightBelow(g, g.next[0])
  BY <1>2, <1>3, <1>7 DEF RightBelow
<1>9. TdCarryOK(g)
  BY <1>2, <1>3, <1>5, <1>7 DEF TdCarryOK
<1>10. /\ p \in TdLeg(p.samples) /\ p.at = "run" /\ p.k = tdJob.k /\ p.n = tdJob.n
       /\ p.out = tdJob.out /\ p.i = tdJob.i /\ p.s = tdJob.s /\ p.state = tdJob.state
  <2>1. {} \in SUBSET Trials
    OBVIOUS
  <2> QED BY <1>2, <2>1 DEF TdLeg
<1> HIDE DEF p
<1>11. g # None
  BY <1>7, FileIsNotNone
<1>12. TdJobOK'
  <2>1. tdJob' = p /\ tdFile'[p.out] = g
    BY <1>2, <1>4, <1>6, <1>10
  <2>2. /\ g.deck = p.k /\ g.n = p.n /\ g.carry.step <= p.s
        /\ Behind(p.k, p.n, p.i, g.carry.step, g.carry.state)
    BY <1>2, <1>3, <1>5, <1>7, <1>10
  <2> QED BY <1>3, <1>8, <1>10, <1>11, <2>1, <2>2 DEF TdJobOK
<1> QED BY <1>1, <1>2, <1>6, <1>7, <1>8, <1>9, <1>12, TdFileFrame

\* Nothing lies behind a leg that continues a checkpoint, whatever its own end.
LEMMA BehindGoesOn ==
    ASSUME Divided, NEW k \in Decks, NEW n \in Ends, NEW next \in Ends,
           NEW i \in 0 .. n, NEW s \in Nat, NEW state \in Nat,
           Behind(k, n, i, s, state), k.method = "fixed", s <= Td!StepsOf(k, n)
    PROVE  Behind(k, next, i, s, state)
<1> DEFINE a == Td!SamplesBefore(k, n, s)
           b == Td!SamplesBefore(k, next, s)
<1>1. n \in Nat \ {0} /\ next \in Nat \ {0}
  BY TdAssumption
<1>2. state = s /\ a <= i
  BY DEF Behind
<1>3. /\ a \in 0 .. n /\ \A x \in 0 .. n - 1 : Td!StepOf(k, x) < s <=> x < a
      /\ b \in 0 .. next /\ \A x \in 0 .. next - 1 : Td!StepOf(k, x) < s <=> x < b
  BY <1>1, SamplesAre
<1> HIDE DEF a, b
<1>4. CASE b = 0
  <2>1. b <= i
    BY <1>4
  <2> QED BY <1>2, <2>1 DEF Behind, b
<1>5. CASE b > 0
  <2>1. b - 1 \in 0 .. next - 1 /\ b - 1 < b /\ b - 1 \in Nat
    BY <1>1, <1>3, <1>5
  <2>2. Td!StepOf(k, b - 1) < s /\ Td!StepOf(k, b - 1) \in Nat
    BY <1>3, <2>1, StepsGrow
  <2>3. b - 1 < n
    <3>1. Td!StepOf(k, n) = Td!StepsOf(k, n)
      BY DEF Divided
    <3>2. /\ Td!StepOf(k, n) \in Nat
          /\ n <= b - 1 => Td!StepOf(k, n) <= Td!StepOf(k, b - 1)
      BY <1>1, <2>1, StepsGrow
    <3> QED BY <1>1, <2>1, <2>2, <3>1, <3>2
  <2>4. b - 1 < a
    <3>1. b - 1 \in 0 .. n - 1
      BY <1>1, <2>1, <2>3
    <3> QED BY <1>3, <2>2, <3>1
  <2>5. b <= i
    BY <1>1, <1>2, <1>3, <2>1, <2>4
  <2> QED BY <1>2, <2>5 DEF Behind, b
<1> QED BY <1>3, <1>4, <1>5

\* A fingerprint tells the deck, and of an adaptive one the end.
LEMMA FingerprintTells ==
    ASSUME NEW k \in Decks, NEW n \in Ends, NEW l \in Decks, NEW x \in Ends,
           Td!Fingerprint(k, n) = Td!Fingerprint(l, x)
    PROVE  k = l /\ (k.method = "dp54" => n = x)
BY DEF Td!Fingerprint

\* A leg that continues a checkpoint copies its rows and takes its carry.
LEMMA TdLoad == ASSUME TdIInv, Trials = {0}, Divided, Td!Load PROVE TdIInv'
<1> DEFINE f == tdFile[tdJob.out]
           src == tdFile[tdJob.from]
           w == Td!Copied(0)
           v == [t \in Trials |-> Td!Copied(t)]
           g == [f EXCEPT !.rows = v]
           p == [tdJob EXCEPT !.at = "run", !.i = src.next[0], !.s = src.carry.step,
                              !.state = src.carry.state]
<1>1. /\ tdJob # None /\ tdJob.at = "load" /\ tdJob.from # None /\ tdLegs' = tdLegs
      /\ tdJob' = p /\ tdFile' = [tdFile EXCEPT ![tdJob.out].rows = v]
      /\ src.carry # None /\ src.next[0] >= 0
      /\ src.carry.fp = Td!Fingerprint(tdJob.k, tdJob.n)
  BY DEF Td!Load, Td!Continues, Td!Source
<1>2. /\ tdJob \in TdLeg(tdJob.samples) /\ f \in TdRecord
      /\ tdFile \in [Dirs -> TdRecord \cup {None}]
      /\ f # None /\ f.deck = tdJob.k /\ f.n = tdJob.n /\ tdJob.k \in Decks
      /\ tdJob.n \in Nat \ {0} /\ tdJob.out \in Dirs
      /\ tdJob.from \in Dirs /\ tdJob.lo \in Nat
  BY <1>1, TdAtWork
<1>3. /\ f.next[0] = -1 /\ f.carry = None /\ tdJob.from # tdJob.out
      /\ src # None
  BY <1>1 DEF TdIInv, TdJobOK
<1>4. /\ src \in TdRecord
      /\ src.rows[0] \in [0 .. src.n - 1 -> TdSample]
      /\ src.next[0] \in -1 .. src.n
      /\ RightBelow(src, src.next[0]) /\ TdCarryOK(src)
  BY <1>2, <1>3 DEF TdIInv, TdFilesOK
<1>5. tdJob.n \in Ends /\ src.n \in Ends /\ src.deck \in Decks /\ src.carry \in TdCarry
  BY <1>1, <1>2, <1>4 DEF TdLeg, TdRecord
<1>6. src.carry.step \in Nat /\ src.carry.state \in Nat
  BY <1>5 DEF TdCarry
<1>7. src.n \in Nat \ {0} /\ src.next[0] \in 0 .. src.n
  BY <1>1, <1>4, <1>5, TdAssumption
<1> HIDE DEF src
<1>8. /\ src.carry.fp = Td!Fingerprint(src.deck, src.n)
      /\ src.deck.method = "fixed" => src.carry.step <= Td!StepsOf(src.deck, src.n)
      /\ Behind(src.deck, src.n, src.next[0], src.carry.step, src.carry.state)
  BY <1>1, <1>4 DEF TdCarryOK
<1>9. src.deck = tdJob.k /\ (tdJob.k.method = "dp54" => src.n = tdJob.n)
  <2>1. Td!Fingerprint(tdJob.k, tdJob.n) = Td!Fingerprint(src.deck, src.n)
    BY <1>1, <1>8
  <2>2. tdJob.k = src.deck /\ (tdJob.k.method = "dp54" => tdJob.n = src.n)
    BY <1>2, <1>5, <2>1, FingerprintTells
  <2> QED BY <2>2
<1>10. tdJob.k.method \in {"fixed", "dp54"}
  BY <1>2, DeckIs
<1>11. Behind(tdJob.k, tdJob.n, src.next[0], src.carry.step, src.carry.state)
  <2>1. CASE tdJob.k.method = "dp54"
    BY <1>8, <1>9, <2>1
  <2>2. CASE tdJob.k.method = "fixed"
    BY <1>2, <1>5, <1>6, <1>7, <1>8, <1>9, <2>2, BehindGoesOn
  <2> QED BY <1>10, <2>1, <2>2
<1>12. \A x \in 0 .. tdJob.n - 1 :
          w[x] = IF x < src.next[0] /\ x < src.n THEN src.rows[0][x] ELSE Lost
  BY DEF Td!Copied, Td!Source, src
<1>13. w \in [0 .. tdJob.n - 1 -> TdSample]
  <2>1. \A x \in 0 .. tdJob.n - 1 : w[x] \in TdSample
    <3> SUFFICES ASSUME NEW x \in 0 .. tdJob.n - 1 PROVE w[x] \in TdSample
      OBVIOUS
    <3>1. CASE x < src.next[0] /\ x < src.n
      <4>1. x \in 0 .. src.n - 1
        BY <1>2, <1>7, <3>1
      <4> HIDE DEF w
      <4> QED BY <1>4, <1>12, <3>1, <4>1 DEF src
    <3>2. CASE ~(x < src.next[0] /\ x < src.n)
      <4> HIDE DEF w
      <4> QED BY <1>12, <3>2 DEF TdSample
    <3> QED BY <3>1, <3>2
  <2>2. w = [x \in 0 .. tdJob.n - 1 |-> w[x]]
    BY DEF Td!Copied
  <2> HIDE DEF w
  <2> QED BY <2>1, <2>2
<1>14. v[0] = w /\ v \in [Trials -> TdRows]
  <2>1. \A t \in Trials : v[t] = w
    OBVIOUS
  <2>2. w \in TdRows
    <3> HIDE DEF w
    <3> QED BY <1>5, <1>13 DEF TdRows
  <2>3. v = [t \in Trials |-> v[t]] /\ 0 \in Trials
    OBVIOUS
  <2> HIDE DEF v, w
  <2> QED BY <2>1, <2>2, <2>3
<1> HIDE DEF w, v
<1>15. tdFile' = [tdFile EXCEPT ![tdJob.out] = g]
  BY <1>1, <1>2
<1>16. /\ g \in TdRecord /\ g.deck = f.deck /\ g.n = f.n /\ g.next = f.next
       /\ g.carry = f.carry /\ g.rows = v
  BY <1>2, <1>14 DEF TdRecord
<1>17. /\ p \in TdLeg(p.samples) /\ p.at = "run" /\ p.k = tdJob.k /\ p.n = tdJob.n
       /\ p.out = tdJob.out /\ p.i = src.next[0] /\ p.s = src.carry.step
       /\ p.state = src.carry.state /\ p.lo = tdJob.lo
  <2>1. src.next[0] \in Nat
    BY <1>7
  <2> QED BY <1>2, <1>6, <2>1 DEF TdLeg
<1> HIDE DEF g, p
<1>18. RightBelow(g, src.next[0])
  <2> SUFFICES ASSUME NEW x \in 0 .. src.next[0] - 1, x < g.n
               PROVE  g.rows[0][x] = Td!Unbroken(g.deck, x)
    BY DEF RightBelow
  <2>1. x \in 0 .. tdJob.n - 1 /\ x < src.next[0] /\ x < src.n
    BY <1>2, <1>7, <1>16
  <2>2. w[x] = src.rows[0][x]
    BY <1>12, <2>1
  <2>3. src.rows[0][x] = Td!Unbroken(src.deck, x)
    BY <1>4, <2>1 DEF RightBelow, src
  <2> QED BY <1>2, <1>9, <1>14, <1>16, <2>2, <2>3
<1>19. g # None
  BY <1>16, FileIsNotNone
<1>20. TdJobOK'
  <2>1. tdJob' = p /\ tdFile'[p.out] = g
    BY <1>1, <1>2, <1>15, <1>17
  <2> HIDE DEF f
  <2>2. g.deck = p.k /\ g.n = p.n /\ g.carry = None
    BY <1>2, <1>3, <1>16, <1>17
  <2> QED BY <1>11, <1>17, <1>18, <1>19, <2>1, <2>2 DEF TdJobOK
<1>21. /\ g.deck = tdJob.k /\ g.n = tdJob.n /\ g.rows[0] \in [0 .. g.n - 1 -> TdSample]
       /\ g.next[0] \in -1 .. g.n /\ RightBelow(g, g.next[0]) /\ TdCarryOK(g)
  <2>1. g.next[0] = -1 /\ g.carry = None
    BY <1>3, <1>16
  <2>2. -1 \in -1 .. tdJob.n
    BY <1>2
  <2>3. RightBelow(g, -1)
    BY DEF RightBelow
  <2>4. TdCarryOK(g)
    BY <2>1 DEF TdCarryOK
  <2> QED BY <1>2, <1>13, <1>14, <1>16, <2>1, <2>2, <2>3, <2>4
<1> QED BY <1>1, <1>15, <1>16, <1>20, <1>21, TdFileFrame

\* Every step keeps the invariant.
LEMMA TdNext ==
    ASSUME TdIInv, Trials = {0}, Divided, Td!Next \/ UNCHANGED <<tdFile, tdJob, tdLegs>>
    PROVE  TdIInv'
<1>1. ASSUME NEW k \in Decks, NEW n \in Ends, NEW c \in TdChunks, NEW out \in Dirs,
             NEW from \in Dirs \cup {None}, Td!Open(k, n, c, out, from)
      PROVE  TdIInv'
  BY <1>1, TdOpens
<1>2. ASSUME Td!Refuse \/ Td!Leave \/ Td!Kill PROVE TdIInv'
  BY <1>2, TdGone DEF Td!Refuse, Td!Leave, Td!Kill
<1>3. ASSUME UNCHANGED <<tdFile, tdJob, tdLegs>> PROVE TdIInv'
  <2>1. TdJobOK'
    BY <1>3 DEF TdIInv, TdJobOK
  <2> QED BY <1>3, <2>1, TdFrame
<1> QED BY <1>1, <1>2, <1>3, TdFromStart, TdLoad, TdFixedChunk, TdAdaptiveChunk,
           TdWriteSamples, TdWriteCounter, TdDropCarry, TdWriteCarry, TdFinish DEF Td!Next

\* The invariant gives the rows, the carries and the finished run.
LEMMA TdGives == ASSUME TdIInv, Trials = {0} PROVE TdInv
<1>1. Td!TypeOK
  <2>1. tdLegs \in 0 .. Legs
    BY DEF TdIInv
  <2>2. ASSUME NEW d \in Dirs, tdFile[d] # None
        PROVE  /\ tdFile[d].deck \in Decks /\ tdFile[d].n \in Ends
               /\ \A t \in Trials : /\ tdFile[d].rows[t] \in [0 .. tdFile[d].n - 1 -> Td!Sample]
                                    /\ tdFile[d].next[t] \in -1 .. tdFile[d].n
               /\ tdFile[d].carry # None =>
                    tdFile[d].carry.step \in Nat /\ tdFile[d].carry.state \in Nat
    <3>1. /\ tdFile[d] \in TdRecord
          /\ tdFile[d].rows[0] \in [0 .. tdFile[d].n - 1 -> TdSample]
          /\ tdFile[d].next[0] \in -1 .. tdFile[d].n
      BY <2>2 DEF TdIInv, TdFilesOK
    <3>2. /\ tdFile[d].deck \in Decks /\ tdFile[d].n \in Ends
          /\ tdFile[d].carry \in TdCarry \cup {None}
      BY <3>1 DEF TdRecord
    <3>3. tdFile[d].carry # None =>
            tdFile[d].carry.step \in Nat /\ tdFile[d].carry.state \in Nat
      BY <3>2 DEF TdCarry
    <3> QED BY <3>1, <3>2, <3>3 DEF Td!Sample, TdSample
  <2>3. ASSUME tdJob # None
        PROVE  /\ tdJob.at \in {"load", "run", "write", "check", "drop", "carry", "done"}
               /\ tdFile[tdJob.out] # None /\ tdFile[tdJob.out].n = tdJob.n
               /\ tdJob.lo \in Nat /\ tdJob.todo \subseteq Trials
    BY <2>3, TdAtWork DEF TdLeg
  <2> QED BY <2>1, <2>2, <2>3 DEF Td!TypeOK
<1>2. Td!RowsAsUnbroken
  BY DEF Td!RowsAsUnbroken, TdIInv, TdFilesOK, RightBelow
<1>3. Td!CarryIsNotAhead
  <2> SUFFICES ASSUME NEW d \in Dirs, tdFile[d] # None, tdFile[d].carry # None
               PROVE  LET c == tdFile[d].carry
                          k == tdFile[d].deck
                          n == tdFile[d].n
                      IN  IF k.method = "fixed"
                          THEN /\ c.state = c.step
                               /\ Td!SamplesBefore(k, n, c.step) <= tdFile[d].next[0]
                          ELSE /\ c.step = 0
                               /\ tdFile[d].next[0] < n =>
                                    c.state <= Td!ReachedBy(k, tdFile[d].next[0])
    BY DEF Td!CarryIsNotAhead
  <2>1. TdCarryOK(tdFile[d])
    BY DEF TdIInv, TdFilesOK
  <2> QED BY <2>1 DEF TdCarryOK, Behind
<1>4. Td!FinishedIsWhole
  <2> SUFFICES ASSUME tdJob # None, tdJob.at = "done", NEW t \in Trials,
                      NEW i \in 0 .. tdJob.n - 1
               PROVE  tdFile[tdJob.out].rows[t][i] = Td!Unbroken(tdJob.k, i)
    BY DEF Td!FinishedIsWhole
  <2>1. /\ tdFile[tdJob.out].deck = tdJob.k /\ tdFile[tdJob.out].n = tdJob.n
        /\ tdJob.n \in Nat /\ tdJob.i \in Nat
    BY TdAtWork
  <2>2. RightBelow(tdFile[tdJob.out], tdJob.i) /\ tdJob.i >= tdJob.n
    BY DEF TdIInv, TdJobOK
  <2>3. i \in 0 .. tdJob.i - 1 /\ i < tdJob.n
    BY <2>1, <2>2
  <2> QED BY <2>1, <2>2, <2>3 DEF RightBelow
<1> QED BY <1>1, <1>2, <1>3, <1>4 DEF TdInv, Td!TdInv

\* A propagation of one drive, on fixed steps that divide the end times or on adaptive
\* ones, has the rows of the unbroken run wherever a checkpoint counts them and when
\* it is finished, however it is chunked, killed and continued, also to another end and
\* also from a checkpoint a kill cut between its counter and its carry.
THEOREM PropagationIsUnbroken ==
    ASSUME Trials = {0}, Divided
    PROVE  Td!Spec => []TdInv
<1>1. Td!Init => TdIInv
  BY TdStart
<1>2. TdIInv /\ [Td!Next]_(Td!vars) => TdIInv'
  BY TdNext DEF Td!vars
<1>3. TdIInv => TdInv
  BY TdGives
<1> QED BY <1>1, <1>2, <1>3, PTL DEF Td!Spec

-----------------------------------------------------------------------------
(* MpaStore: the inductive invariant *)

\* The parts of a build.
MpaPart == {"start", "allocate", "headers", "check", "write", "validate", "resume",
          "allocateFit", "epoch", "block", "commit", "abort", "body", "head", "finalize", "end"}

\* How many steps a part has.
MpaSize(w) ==
    CASE w.part \in {"resume", "block", "end"} -> 1
      [] w.part \in {"start", "headers", "validate"} -> 2
      [] w.part = "finalize" -> 3
      [] w.part = "check" -> IF Mpa!Slab(w.left)[1] = "chi" THEN 2 ELSE 6
      [] w.part = "epoch" -> 7
      [] w.part \in {"allocate", "commit", "abort"} -> 8
      [] w.part \in {"write", "body"} -> 9
      [] w.part = "head" -> 10
      [] w.part = "allocateFit" -> 11

\* What of the sample store may be left to allocate: chi makes a new file.
Lefts == {left \in SUBSET {"chi", "wc", "new"} : "new" \in left => "chi" \in left}

\* w is a place of a rank's program: the part's loop has something left wherever the
\* part needs it, and a part has steps at its positions only.
MpaPlaceOK(w) ==
    /\ w = [part |-> w.part, left |-> w.left, put |-> w.put, at |-> w.at]
    /\ w.part \in MpaPart
    /\ w.part = "allocate" => w.left \in Lefts /\ w.left # {}
    /\ w.part \in {"check", "write"} => w.left \in SUBSET Mpa!Slabs /\ w.left # {}
    /\ w.part \in {"resume", "epoch", "block", "commit", "abort"} => w.left \in SUBSET (1..Blocks)
    /\ w.part = "block" => w.put \in SUBSET Mpa!Whole(Mpa!Few(w.left)) /\ w.put # {}
    /\ w.part = "commit" => Mpa!Whole(Mpa!Few(w.left)) = Mpa!Few(w.left)
    /\ w.at \in 1..MpaSize(w)

\* The step at a place, whether a rank takes it on its own, and whether it changes a file.
Doing(w) == Mpa!Steps(w)[w.at]
Alone(w) == Doing(w).op \in {"read", "root"}
Writes(w) == Doing(w).op = "root" /\ Doing(w).do # "check"

\* A rank at w is at v or up to two steps that a rank takes alone beyond it: the others
\* never run further ahead of the slowest, for the third step is a meeting.
Near(v, w, d) ==
    \/ w = v
    \/ Alone(v) /\ w = Mpa!Onward(v, d)
    \/ Alone(v) /\ Alone(Mpa!Onward(v, d)) /\ w = Mpa!Onward(Mpa!Onward(v, d), d)

\* How the ranks at a place hold the files through the collective library: a property
\* of the place, by the program text.
NativeSample(w) ==
    IF w.part \in {"allocate", "write"} /\ w.at \in {4, 5} THEN "nativeA"
    ELSE IF \/ w.part = "check" /\ w.at = 5
            \/ w.part = "block"
            \/ w.part \in {"commit", "abort"} /\ w.at = 1 THEN "nativeR"
    ELSE "none"
NativeFit(w) ==
    IF \/ w.part = "allocateFit" /\ w.at \in {4, 5}
       \/ w.part = "epoch" /\ w.at \in {6, 7}
       \/ w.part = "block"
       \/ w.part \in {"commit", "abort"} /\ w.at \in {1, 2}
       \/ w.part = "head" /\ w.at = 6 THEN "nativeA"
    ELSE "none"
Held(w, f) == IF f = "sample" THEN NativeSample(w) ELSE NativeFit(w)

\* A fit store whose ledger is empty, and one whose parts agree and which a build is filling.
NoLedger(c) == c.done = {} /\ c.journal = {} /\ c.condition = {} /\ c.backward = {} /\ ~c.complete
Clean(c) == /\ c.state = "stamped" /\ ~c.complete
           /\ c.journal = c.done /\ c.condition = c.done /\ c.backward = c.done

\* A commit of the ledger cut by a kill leaves its four parts one inside the other.
Chain(c) == \A a, b \in {c.done, c.journal, c.condition, c.backward} : a \subseteq b \/ b \subseteq a
\* The chi slab that a slab of Wc is solved from.
ChiOf(s) == <<"chi", s[2]>>

\* The types of the two stores.
SampleType == [there : BOOLEAN, sound : BOOLEAN,
               comps : [{"chi", "wc"} -> {"none", "bare", "stamped"}], committed : BOOLEAN,
               slabs : [Mpa!Slabs -> Nat], ready : SUBSET Mpa!Slabs]
FitType == [there : BOOLEAN,
            state : {"none", "bare", "stamped"}, committed : BOOLEAN, poles : [1..Blocks -> Nat],
            done : SUBSET (1..Blocks), journal : SUBSET (1..Blocks),
            condition : SUBSET (1..Blocks), backward : SUBSET (1..Blocks),
            head : {"none", "unready", "ready"}, headData : BOOLEAN,
            receipt : {"none", "unready", "ready"}, complete : BOOLEAN, certified : BOOLEAN]
\* What is true of the stores at every moment, whatever part of a write a kill has left:
\* what is marked is written, what is complete is whole.
SampleOK(c) ==
    /\ c \in SampleType
    /\ c.comps["chi"] # "none" => c.there
    /\ c.ready # {} => c.comps["chi"] # "none"
    /\ \A s \in c.ready : c.slabs[s] > 0 /\ ChiOf(s) \in c.ready
FitOK(c) ==
    /\ c \in FitType
    /\ \A b \in c.done \cup c.journal : c.poles[b] > 0
    /\ c.head = "ready" => c.headData
    /\ c.complete =>
        /\ c.done = 1..Blocks /\ c.journal = c.done
        /\ c.condition = c.done /\ c.backward = c.done
        /\ c.head = "ready" /\ c.receipt = "ready"
    /\ c.state # "none" => c.there
    /\ c.state = "none" => NoLedger(c)
    /\ Chain(c)
DiskOK(d) ==
    /\ d = [sample |-> d.sample, fit |-> d.fit]
    /\ SampleOK(d.sample) /\ FitOK(d.fit)

\* What rank 0's place in the program knows of the sample store c.
SampleFacts(w, c) ==
    /\ w.part = "allocate" /\ w.at <= 2 /\ "new" \in w.left /\ ~overwrite => c.ready = {}
    /\ w.part = "allocate" /\ ("chi" \notin w.left \/ w.at >= 5) => c.comps["chi"] # "none"
    /\ w.part \in {"headers", "check", "write"} => c.comps["chi"] # "none"
    /\ w.part = "check" /\ w.at >= 3 => ChiOf(Mpa!Slab(w.left)) \in c.ready
    /\ w.part = "write" =>
        /\ Mpa!Slab(w.left) \notin c.ready
        /\ Mpa!Slab(w.left)[1] = "wc" => ChiOf(Mpa!Slab(w.left)) \in c.ready
        /\ w.at >= 5 => c.slabs[Mpa!Slab(w.left)] > 0
\* What rank 0's place in the program knows of the fit store c.
FitFacts(w, c) ==
    /\ w.part = "allocateFit" /\ (w.at >= 3 \/ ~overwrite) => NoLedger(c)
    /\ w.part = "allocateFit" /\ w.at >= 5 => c.there
    /\ w.part = "allocateFit" /\ w.at >= 10 => c.state = "stamped"
    /\ w.part \in {"resume", "epoch", "block", "commit", "abort", "body", "head"} => Clean(c)
    /\ w.part \in {"resume", "epoch", "block", "abort"} => w.left \cap c.done = {}
    /\ w.part = "commit" =>
        IF w.at <= 6 THEN w.left \cap c.done = {}
        ELSE (w.left \ Mpa!Few(w.left)) \cap c.done = {}
    /\ w.part = "block" => \A b \in Mpa!Whole(Mpa!Few(w.left)) \ w.put : c.poles[b] > 0
    /\ w.part = "commit" /\ w.at <= 6 => \A b \in Mpa!Few(w.left) : c.poles[b] > 0
    /\ w.part = "body" /\ w.at >= 7 => c.receipt = "ready"
    /\ w.part = "head" =>
        /\ c.done = 1..Blocks /\ c.receipt = "ready"
        /\ IF w.at <= 2 THEN c.head # "ready" ELSE c.head = "unready"
        /\ w.at >= 8 => c.headData
    /\ w.part = "finalize" /\ w.at <= 2 =>
        /\ Clean(c)
        /\ c.done = 1..Blocks /\ c.receipt = "ready" /\ c.head = "ready"

\* A handle of a serial open, which lasts while the rank's step does.
Transient(r, w, h, f) ==
    /\ Held(w, f) = "none" /\ Alone(w) /\ Doing(w).file = f
    /\ Doing(w).op = "root" => r = Zero
    /\ h = IF Writes(w) THEN "editing" ELSE "reading"
\* A rank at w holds h of a file.
HandleOK(r, w, h, f, state) == h = Held(w, f) \/ (state = "running" /\ Transient(r, w, h, f))
\* Every rank holds every file as its place says.
HandlesOK ==
    \A r \in Ranks : \A f \in {"sample", "fit"} : HandleOK(r, where[r], using[r][f], f, fate[r])
\* The ranks walk side by side with rank 0.
Beside(v, w, d) == Near(v, w, d) \/ Near(w, v, d)
TogetherOK == \A r \in Ranks : Beside(where[r], where[Zero], disk)
\* The types of what the ranks are at.
MpaTypes ==
    /\ where = [r \in Ranks |-> where[r]]
    /\ using \in [Ranks -> [{"sample", "fit"} ->
                {"none", "reading", "editing", "nativeR", "nativeA"}]]
    /\ fate \in [Ranks -> {"running", "done", "refused", "failed", "uncommitted"}]
    /\ mpaLeg \in 1..Legs

\* The inductive invariant: the stores are sound, the ranks are side by side, hold what
\* their places say, and rank 0 knows of the stores what its place says.
MpaIInv ==
    /\ MpaTypes /\ DiskOK(disk)
    /\ \A r \in Ranks : MpaPlaceOK(where[r])
    /\ TogetherOK /\ HandlesOK
    /\ SampleFacts(where[Zero], disk.sample) /\ FitFacts(where[Zero], disk.fit)

-----------------------------------------------------------------------------
(* MpaStore: the programs *)

USE MpaAssumption

\* A set of numbers that is not empty has a least one.
LEMMA LeastIs ==
    ASSUME NEW ns \in SUBSET Nat, ns # {}
    PROVE  Mpa!Least(ns) \in ns
<1>1. PICK x \in ns : \A y \in ns : <<y, x>> \notin OpToRel(<, Nat)
  BY NatLessThanWellFounded, WFMin
<1>2. x \in Nat /\ ns \subseteq Nat
  OBVIOUS
<1>3. \A y \in ns : ~(y < x)
  BY <1>1, <1>2 DEF OpToRel
<1>4. \A y \in ns : x <= y
  BY <1>2, <1>3
<1> QED
  BY <1>4 DEF Mpa!Least

\* The next slab of a walk is one of those left.
LEMMA SlabIs ==
    ASSUME NEW left \in SUBSET Mpa!Slabs, left # {}
    PROVE  LET s == Mpa!Slab(left) IN
           /\ s \in left /\ s = <<s[1], s[2]>>
           /\ s[1] \in {"chi", "wc"} /\ s[2] \in 1..Freqs
<1> DEFINE c == IF \E i \in 1..Freqs : <<"chi", i>> \in left THEN "chi" ELSE "wc"
           ns == {i \in 1..Freqs : <<c, i>> \in left}
<1>1. ns # {} /\ ns \in SUBSET Nat /\ c \in {"chi", "wc"}
  <2>1. PICK s \in left : TRUE
    OBVIOUS
  <2>2. s = <<s[1], s[2]>> /\ s[1] \in {"chi", "wc"} /\ s[2] \in 1..Freqs
    BY DEF Mpa!Slabs
  <2> QED
    BY <2>1, <2>2
<1>2. Mpa!Least(ns) \in ns
  BY <1>1, LeastIs
<1>3. Mpa!Slab(left) = <<c, Mpa!Least(ns)>>
  BY DEF Mpa!Slab
<1> HIDE DEF c
<1>4. Mpa!Least(ns) \in 1..Freqs /\ <<c, Mpa!Least(ns)>> \in left
  BY <1>2
<1> QED
  BY <1>1, <1>3, <1>4

\* Every part is as long as MpaSize says.
LEMMA PartIsSized ==
    ASSUME NEW w, MpaPlaceOK(w)
    PROVE  Len(Mpa!Steps(w)) = MpaSize(w)
<1>1. CASE w.part = "start"
  BY <1>1 DEF MpaSize, Mpa!Steps
<1>2. CASE w.part = "allocate"
  BY <1>2 DEF MpaSize, Mpa!Steps, Mpa!AllocateW
<1>3. CASE w.part = "headers"
  BY <1>3 DEF MpaSize, Mpa!Steps
<1>4. CASE w.part = "check"
  BY <1>4 DEF MpaSize, Mpa!Steps, Mpa!CheckW
<1>5. CASE w.part = "write"
  BY <1>5 DEF MpaSize, Mpa!Steps, Mpa!WriteW
<1>6. CASE w.part = "validate"
  BY <1>6 DEF MpaSize, Mpa!Steps
<1>7. CASE w.part = "resume"
  BY <1>7 DEF MpaSize, Mpa!Steps
<1>8. CASE w.part = "allocateFit"
  BY <1>8 DEF MpaSize, Mpa!Steps, Mpa!AllocateFit
<1>9. CASE w.part = "epoch"
  BY <1>9 DEF MpaSize, Mpa!Steps, Mpa!EnterEpoch
<1>10. CASE w.part = "block"
  BY <1>10 DEF MpaSize, Mpa!Steps
<1>11. CASE w.part = "commit"
  BY <1>11 DEF MpaSize, Mpa!Steps, Mpa!LeaveEpoch
<1>12. CASE w.part = "abort"
  BY <1>12 DEF MpaSize, Mpa!Steps, Mpa!Abort
<1>13. CASE w.part = "body"
  BY <1>13 DEF MpaSize, Mpa!Steps, Mpa!FitBody
<1>14. CASE w.part = "head"
  BY <1>14 DEF MpaSize, Mpa!Steps, Mpa!WriteHead
<1>15. CASE w.part = "finalize"
  BY <1>15 DEF MpaSize, Mpa!Steps, Mpa!Finalize
<1>16. CASE w.part = "end"
  BY <1>16 DEF MpaSize, Mpa!Steps
<1> QED
  BY <1>1, <1>2, <1>3, <1>4, <1>5, <1>6, <1>7, <1>8, <1>9, <1>10, <1>11, <1>12, <1>13,
     <1>14, <1>15, <1>16 DEF MpaPlaceOK, MpaPart

\* Where a part reads, where rank 0 writes, and where all ranks move together.
AtRead(w) ==
    LET s == Doing(w) IN
    \/ /\ s.file = "sample"
       /\ \/ w.part = "start" /\ w.at = 2 /\ s.do = "prepare"
          \/ w.part = "headers" /\ w.at = 2 /\ s.do = "headers"
          \/ w.part = "check" /\ w.at = 2 /\ Mpa!Slab(w.left)[1] # "chi"
               /\ s.do = "load" /\ s.arg = ChiOf(Mpa!Slab(w.left))
          \/ w.part = "check" /\ w.at = MpaSize(w) /\ s.do = "unready" /\ s.arg = Mpa!Slab(w.left)
    \/ /\ s.file = "fit"
       /\ \/ w.part = "start" /\ w.at = 1 /\ s.do = "protected"
          \/ w.part = "validate" /\ w.at = 2 /\ s.do = "validate"
          \/ w.part = "allocateFit" /\ w.at = 11 /\ s.do = "ledger"
          \/ w.part = "epoch" /\ w.at = 2 /\ s.do = "writer"
          \/ w.part = "commit" /\ w.at = 8 /\ s.do = "closed"
          \/ w.part = "abort" /\ w.at = 6 /\ s.do = "aborted"
          \/ w.part = "body" /\ w.at = 3 /\ s.do = "body"
          \/ w.part = "body" /\ w.at = 9 /\ s.do = "head"
AtRoot(w) ==
    LET s == Doing(w) IN
    \/ /\ s.file = "sample"
       /\ \/ w.part = "allocate" /\ w.at = 2 /\ s.do = IF "new" \in w.left THEN "unlink" ELSE "begin"
          \/ w.part = "allocate" /\ w.at = 8 /\ s.do = "stamp" /\ s.arg = Mpa!Comp(w.left)
          \/ w.part = "write" /\ w.at = 2 /\ s.do = "begin"
          \/ w.part \in {"allocate", "write"} /\ w.at = 6 /\ s.do = "publish"
          \/ w.part = "write" /\ w.at = 9 /\ s.do = "mark" /\ s.arg = Mpa!Slab(w.left)
          \/ w.part = "check" /\ w.at = 3 /\ Mpa!Slab(w.left)[1] # "chi" /\ s.do = "check"
          \/ w.part = "epoch" /\ w.at = 6 /\ s.do = "check"
    \/ /\ s.file = "fit"
       /\ \/ w.part = "allocateFit" /\ w.at = 2 /\ s.do = "unlink"
          \/ w.part = "allocateFit" /\ w.at = 6 /\ s.do = "publish"
          \/ w.part = "allocateFit" /\ w.at = 9 /\ s.do = "initialise"
          \/ w.part \in {"epoch", "head"} /\ w.at = 4 /\ s.do = "begin"
          \/ w.part \in {"commit", "abort"} /\ w.at = 3 /\ s.do = "publish"
          \/ w.part = "commit" /\ w.at = 6 /\ s.do = "commit" /\ s.arg = Mpa!Few(w.left)
          \/ w.part = "body" /\ w.at = 5 /\ s.do = "stage"
          \/ w.part = "body" /\ w.at = 6 /\ s.do = "receipt"
          \/ w.part = "head" /\ w.at = 2 /\ s.do = "headGroup"
          \/ w.part = "head" /\ w.at = 7 /\ s.do = "publish"
          \/ w.part = "head" /\ w.at = 10 /\ s.do = "headReady"
          \/ w.part = "finalize" /\ w.at = 2 /\ s.do = "finalize"
AtOpen(w) ==
    LET s == Doing(w) IN
    \/ /\ s.file = "sample" /\ s.do # "r"
       /\ w.part \in {"allocate", "write"} /\ w.at = 3
    \/ /\ s.file = "sample" /\ s.do = "r"
       /\ \/ w.part = "check" /\ w.at = 4 /\ Mpa!Slab(w.left)[1] # "chi"
          \/ w.part = "epoch" /\ w.at = 7
    \/ /\ s.file = "fit" /\ s.do # "r"
       /\ \/ w.part = "allocateFit" /\ w.at = 3
          \/ w.part \in {"epoch", "head"} /\ w.at = 5
AtPut(w) ==
    LET s == Doing(w) IN
    \/ s.file = "sample" /\ w.part = "allocate" /\ w.at = 4 /\ s.do = "create" /\ s.arg = Mpa!Comp(w.left)
    \/ s.file = "sample" /\ w.part = "write" /\ w.at = 4 /\ s.do = "slab" /\ s.arg = Mpa!Slab(w.left)
    \/ s.file = "fit" /\ w.part = "allocateFit" /\ w.at = 4 /\ s.do = "allocate"
    \/ s.file = "fit" /\ w.part = "block" /\ w.at = 1 /\ s.do = "block" /\ s.arg = Mpa!Least(w.put)
AtClose(w) ==
    LET s == Doing(w) IN
    \/ /\ s.file = "sample"
       /\ \/ w.part \in {"allocate", "write"} /\ w.at = 5
          \/ w.part = "check" /\ w.at = 5 /\ Mpa!Slab(w.left)[1] # "chi"
          \/ w.part \in {"commit", "abort"} /\ w.at = 1
    \/ /\ s.file = "fit"
       /\ \/ w.part = "allocateFit" /\ w.at = 5
          \/ w.part \in {"commit", "abort"} /\ w.at = 2
          \/ w.part = "head" /\ w.at = 6
AtMeet(w) ==
    \/ w.part \in {"allocate", "headers", "check", "write", "validate", "resume", "allocateFit",
                   "epoch", "body", "head", "finalize"} /\ w.at = 1
    \/ w.part \in {"allocate", "write", "allocateFit", "commit", "abort", "body"} /\ w.at = 7
    \/ w.part \in {"write", "allocateFit", "body", "head"} /\ w.at = 8
    \/ w.part \in {"epoch", "head", "finalize"} /\ w.at = 3
    \/ w.part \in {"commit", "abort"} /\ w.at \in {4, 5}
    \/ w.part = "allocateFit" /\ w.at = 10
    \/ w.part = "body" /\ w.at \in {2, 4}
    \/ w.part = "head" /\ w.at = 9

\* Every step is where these say.
StepIs(w) ==
    /\ Doing(w).op \in {"read", "root", "open", "put", "close", "meet", "raise", "return"}
    /\ Doing(w).op = "read" => AtRead(w)
    /\ Doing(w).op = "root" => AtRoot(w)
    /\ Doing(w).op = "open" => AtOpen(w)
    /\ Doing(w).op = "put" => AtPut(w)
    /\ Doing(w).op = "close" => AtClose(w)
    /\ Doing(w).op = "meet" => AtMeet(w)
    /\ Doing(w).op = "raise" <=> w.part = "abort" /\ w.at = 8
    /\ Doing(w).op = "return" <=> w.part = "end"

\* The steps of a part, one after the other.
LEMMA StepsAre ==
    ASSUME NEW w, MpaPlaceOK(w)
    PROVE  StepIs(w)
<1> USE DEF MpaPlaceOK, MpaSize, Doing, Mpa!Meet, Mpa!Step, Mpa!Put, Mpa!Opened,
        Mpa!Closed, Mpa!Publish, Mpa!Prepared, Mpa!Root, Mpa!Read,
        StepIs, AtRead, AtRoot, AtOpen, AtPut, AtClose, AtMeet, ChiOf
<1>1. CASE w.part = "start"
  <2>1. Mpa!Steps(w) = <<Mpa!Read("fit", "protected", {}), Mpa!Read("sample", "prepare", {})>>
    BY <1>1 DEF Mpa!Steps
  <2> QED
    BY <1>1, <2>1
<1>2. CASE w.part = "allocate"
  <2>1. Mpa!Steps(w) = Mpa!AllocateW(w.left)
    BY <1>2 DEF Mpa!Steps
  <2> QED
    BY <1>2, <2>1 DEF Mpa!AllocateW
<1>3. CASE w.part = "headers"
  <2>1. Mpa!Steps(w) = <<Mpa!Meet, Mpa!Read("sample", "headers", {})>>
    BY <1>3 DEF Mpa!Steps
  <2> QED
    BY <1>3, <2>1
<1>4. CASE w.part = "check"
  <2>1. Mpa!Steps(w) = Mpa!CheckW(Mpa!Slab(w.left))
    BY <1>4 DEF Mpa!Steps
  <2>2. CASE Mpa!Slab(w.left)[1] = "chi"
    BY <1>4, <2>1, <2>2 DEF Mpa!CheckW
  <2>3. CASE Mpa!Slab(w.left)[1] # "chi"
    <3> HIDE DEF StepIs
    <3>1. /\ Mpa!Steps(w) = <<Mpa!Meet, Mpa!Read("sample", "load", <<"chi", Mpa!Slab(w.left)[2]>>),
                              Mpa!Prepared("sample", "r"), Mpa!Opened("sample", "r"),
                              Mpa!Closed("sample"), Mpa!Read("sample", "unready", Mpa!Slab(w.left))>>
          /\ w.at \in 1..6
      BY <1>4, <2>1, <2>3 DEF Mpa!CheckW
    <3> USE DEF StepIs
    <3>2. CASE w.at \in {1, 2, 3}
      BY <1>4, <2>3, <3>1, <3>2
    <3>3. CASE w.at \in {4, 5, 6}
      BY <1>4, <2>3, <3>1, <3>3
    <3> HIDE DEF StepIs
    <3> QED
      BY ONLY <3>1, <3>2, <3>3
  <2> QED
    BY ONLY <2>2, <2>3
<1>5. CASE w.part = "write"
  <2>1. Mpa!Steps(w) = Mpa!WriteW(Mpa!Slab(w.left))
    BY <1>5 DEF Mpa!Steps
  <2> QED
    BY <1>5, <2>1 DEF Mpa!WriteW
<1>6. CASE w.part = "validate"
  <2>1. Mpa!Steps(w) = <<Mpa!Meet, Mpa!Read("fit", "validate", {})>>
    BY <1>6 DEF Mpa!Steps
  <2> QED
    BY <1>6, <2>1
<1>7. CASE w.part = "resume"
  <2>1. Mpa!Steps(w) = <<Mpa!Meet>>
    BY <1>7 DEF Mpa!Steps
  <2> QED
    BY <1>7, <2>1
<1>8. CASE w.part = "allocateFit"
  <2>1. Mpa!Steps(w) = Mpa!AllocateFit
    BY <1>8 DEF Mpa!Steps
  <2>2. w.at \in 1..11
    BY <1>8
  <2>3. CASE w.at \in {1, 2, 3, 4}
    BY <1>8, <2>1, <2>3 DEF Mpa!AllocateFit
  <2>4. CASE w.at \in {5, 6, 7, 8}
    BY <1>8, <2>1, <2>4 DEF Mpa!AllocateFit
  <2>5. CASE w.at \in {9, 10, 11}
    BY <1>8, <2>1, <2>5 DEF Mpa!AllocateFit
  <2> QED
    BY ONLY <2>2, <2>3, <2>4, <2>5
<1>9. CASE w.part = "epoch"
  <2>1. Mpa!Steps(w) = Mpa!EnterEpoch
    BY <1>9 DEF Mpa!Steps
  <2> QED
    BY <1>9, <2>1 DEF Mpa!EnterEpoch
<1>10. CASE w.part = "block"
  <2>1. Mpa!Steps(w) = <<Mpa!Put("fit", "block", Mpa!Least(w.put))>>
    BY <1>10 DEF Mpa!Steps
  <2> QED
    BY <1>10, <2>1
<1>11. CASE w.part = "commit"
  <2>1. Mpa!Steps(w) = Mpa!LeaveEpoch(Mpa!Few(w.left), Mpa!Few(w.left) = w.left)
    BY <1>11 DEF Mpa!Steps
  <2> QED
    BY <1>11, <2>1 DEF Mpa!LeaveEpoch
<1>12. CASE w.part = "abort"
  <2>1. Mpa!Steps(w) = Mpa!Abort
    BY <1>12 DEF Mpa!Steps
  <2> QED
    BY <1>12, <2>1 DEF Mpa!Abort
<1>13. CASE w.part = "body"
  <2>1. Mpa!Steps(w) = Mpa!FitBody
    BY <1>13 DEF Mpa!Steps
  <2> QED
    BY <1>13, <2>1 DEF Mpa!FitBody
<1>14. CASE w.part = "head"
  <2>1. Mpa!Steps(w) = Mpa!WriteHead
    BY <1>14 DEF Mpa!Steps
  <2> QED
    BY <1>14, <2>1 DEF Mpa!WriteHead
<1>15. CASE w.part = "finalize"
  <2>1. Mpa!Steps(w) = Mpa!Finalize
    BY <1>15 DEF Mpa!Steps
  <2> QED
    BY <1>15, <2>1 DEF Mpa!Finalize
<1>16. CASE w.part = "end"
  <2>1. Mpa!Steps(w) = <<Mpa!Step("return", "none", "none", {})>>
    BY <1>16 DEF Mpa!Steps
  <2> QED
    BY <1>16, <2>1
<1>17. w.part \in MpaPart
  OBVIOUS
<1> HIDE DEF StepIs
<1> QED
  BY ONLY <1>1, <1>2, <1>3, <1>4, <1>5, <1>6, <1>7, <1>8, <1>9, <1>10, <1>11, <1>12, <1>13,
     <1>14, <1>15, <1>16, <1>17 DEF MpaPart

\* The place of a rank is within its part.
LEMMA SizeIs ==
    ASSUME NEW w, MpaPlaceOK(w)
    PROVE  MpaSize(w) \in 1..11 /\ w.at \in 1..MpaSize(w) /\ w.part \in MpaPart
<1>1. w.part \in MpaPart /\ w.at \in 1..MpaSize(w)
  BY DEF MpaPlaceOK
<1>2. MpaSize(w) \in 1..11
  BY <1>1 DEF MpaSize, MpaPart
<1> QED
  BY <1>1, <1>2

\* A place is followed by the next one of its part, or by the first of another.
LEMMA OnwardIs ==
    ASSUME NEW w, MpaPlaceOK(w), NEW d
    PROVE  IF w.at < MpaSize(w)
           THEN Mpa!Onward(w, d) = [part |-> w.part, left |-> w.left, put |-> w.put, at |-> w.at + 1]
           ELSE Mpa!Onward(w, d) = Mpa!After(w, d)
<1>1. Len(Mpa!Steps(w)) = MpaSize(w)
  BY PartIsSized
<1>2. [w EXCEPT !.at = @ + 1] = [part |-> w.part, left |-> w.left, put |-> w.put, at |-> w.at + 1]
  <2>1. w = [part |-> w.part, left |-> w.left, put |-> w.put, at |-> w.at]
    BY DEF MpaPlaceOK
  <2> QED
    BY <2>1
<1> QED
  BY <1>1, <1>2 DEF Mpa!Onward

\* The parts a part may be followed by.
LEMMA FirstPlaceOK ==
    /\ \A left \in Lefts : MpaPlaceOK(Mpa!Allocating(left))
    /\ \A left \in SUBSET Mpa!Slabs : MpaPlaceOK(Mpa!Sampling(left))
    /\ \A left \in SUBSET (1..Blocks) : MpaPlaceOK(Mpa!Fitting(left))
    /\ \A left \in SUBSET (1..Blocks) : \A put \in SUBSET Mpa!Whole(Mpa!Few(left)) :
          MpaPlaceOK(Mpa!Putting(left, put))
<1> USE DEF MpaPlaceOK, MpaPart, MpaSize, Mpa!Place
<1>1. \A left \in Lefts : MpaPlaceOK(Mpa!Allocating(left))
  BY DEF Mpa!Allocating
<1>2. ASSUME NEW left \in SUBSET Mpa!Slabs PROVE MpaPlaceOK(Mpa!Sampling(left))
  BY <1>2 DEF Mpa!Sampling
<1>3. ASSUME NEW left \in SUBSET (1..Blocks) PROVE MpaPlaceOK(Mpa!Fitting(left))
  BY <1>3 DEF Mpa!Fitting
<1>4. ASSUME NEW left \in SUBSET (1..Blocks), NEW put \in SUBSET Mpa!Whole(Mpa!Few(left))
      PROVE  MpaPlaceOK(Mpa!Putting(left, put))
  BY <1>4 DEF Mpa!Putting
<1> HIDE DEF MpaPlaceOK
<1> QED
  BY <1>1, <1>2, <1>3, <1>4

\* A program stays a program.
LEMMA PlaceOnward ==
    ASSUME NEW w, MpaPlaceOK(w), NEW d,
           w.at = MpaSize(w) => w.part \notin {"abort", "end"}
    PROVE  MpaPlaceOK(Mpa!Onward(w, d))
<1>1. CASE w.at < MpaSize(w)
  <2> DEFINE v == [part |-> w.part, left |-> w.left, put |-> w.put, at |-> w.at + 1]
  <2>1. v.part = w.part /\ v.left = w.left /\ v.put = w.put /\ v.at = w.at + 1
        /\ v = [part |-> v.part, left |-> v.left, put |-> v.put, at |-> v.at]
    OBVIOUS
  <2>2. Mpa!Onward(w, d) = v
    BY <1>1, OnwardIs
  <2> HIDE DEF v
  <2>3. MpaSize(v) = MpaSize(w)
    BY <2>1 DEF MpaSize
  <2>4. v.at \in 1..MpaSize(v)
    BY <1>1, <2>1, <2>3, SizeIs
  <2>5. MpaPlaceOK(v)
    BY <2>1, <2>4 DEF MpaPlaceOK
  <2> QED
    BY <2>2, <2>5
<1>2. CASE ~(w.at < MpaSize(w))
  <2>1. Mpa!Onward(w, d) = Mpa!After(w, d) /\ w.at = MpaSize(w)
    BY <1>2, OnwardIs, SizeIs
  <2>2. w.part \in MpaPart \ {"abort", "end"}
    BY <2>1, SizeIs
  <2> DEFINE p == Mpa!After(w, d)
  <2>3. w.part \in {"start", "allocate"} => MpaPlaceOK(p)
    <3>1. Mpa!Prepare(d.sample) \in Lefts
      BY DEF Mpa!Prepare, Lefts
    <3>2. w.part = "allocate" => w.left \ {Mpa!Comp(w.left), "new"} \in Lefts
      BY DEF MpaPlaceOK, Lefts
    <3> QED
      BY <3>1, <3>2, FirstPlaceOK DEF Mpa!After
  <2>4. w.part \in {"headers", "write"} => MpaPlaceOK(p)
    <3>1. w.part = "write" => w.left \ {Mpa!Slab(w.left)} \in SUBSET Mpa!Slabs
      BY DEF MpaPlaceOK
    <3> QED
      BY <3>1, FirstPlaceOK DEF Mpa!After
  <2>5. w.part = "check" => MpaPlaceOK(p)
    BY DEF MpaPlaceOK, MpaPart, MpaSize, Mpa!After, Mpa!Place
  <2>6. w.part = "validate" => MpaPlaceOK(p)
    BY DEF MpaPlaceOK, MpaPart, MpaSize, Mpa!After, Mpa!Place, Mpa!Pending
  <2>7. w.part \in {"resume", "allocateFit", "commit"} => MpaPlaceOK(p)
    <3>1. Mpa!Pending(d.fit.done) \in SUBSET (1..Blocks)
      BY DEF Mpa!Pending
    <3>2. w.part \in {"resume", "commit"} => w.left \in SUBSET (1..Blocks)
      BY DEF MpaPlaceOK
    <3> QED
      BY <3>1, <3>2, FirstPlaceOK DEF Mpa!After
  <2>8. w.part = "epoch" => MpaPlaceOK(p)
    <3>1. w.part = "epoch" => w.left \in SUBSET (1..Blocks)
      BY DEF MpaPlaceOK
    <3> QED
      BY <3>1, FirstPlaceOK DEF Mpa!After
  <2>9. w.part = "block" => MpaPlaceOK(p)
    <3>1. w.part = "block" => w.left \in SUBSET (1..Blocks) /\ w.put \in SUBSET Mpa!Whole(Mpa!Few(w.left))
      BY DEF MpaPlaceOK
    <3> QED
      BY <3>1, FirstPlaceOK DEF Mpa!After
  <2>10. w.part \in {"body", "head", "finalize"} => MpaPlaceOK(p)
    <3>1. \A part \in {"finalize", "head", "end"} : MpaPlaceOK(Mpa!Place(part, {}, {}))
      BY DEF MpaPlaceOK, MpaPart, MpaSize, Mpa!Place
    <3> QED
      BY <3>1 DEF Mpa!After
  <2> HIDE DEF p
  <2>11. MpaPlaceOK(p)
    BY <2>2, <2>3, <2>4, <2>5, <2>6, <2>7, <2>8, <2>9, <2>10 DEF MpaPart
  <2> QED
    BY <2>1, <2>11 DEF p
<1> QED
  BY <1>1, <1>2

\* What follows each part.
LEMMA NextPart ==
    ASSUME NEW w, MpaPlaceOK(w), w.part \notin {"abort", "end"}, NEW d
    PROVE  LET p == Mpa!After(w, d) IN
           /\ p.at = 1
           /\ w.part \in {"start", "allocate"} => p.part \in {"headers", "allocate"}
           /\ w.part \in {"headers", "write"} => p.part \in {"check", "validate"}
           /\ w.part = "check" => p.part = "write" /\ p.left = w.left
           /\ w.part = "validate" => p.part \in {"resume", "allocateFit"}
           /\ w.part \in {"resume", "allocateFit", "commit"} => p.part \in {"body", "epoch"}
           /\ w.part \in {"epoch", "block"} =>
                p.part \in {"block", "commit", "abort"} /\ p.left = w.left
           /\ w.part = "body" => p.part \in {"head", "finalize"}
           /\ w.part = "head" => p.part = "finalize"
           /\ w.part = "finalize" => p.part = "end"
<1> USE DEF Mpa!After, Mpa!Place
<1>1. CASE w.part \in {"start", "allocate"}
  BY <1>1 DEF Mpa!Allocating
<1>2. CASE w.part \in {"headers", "write"}
  BY <1>2 DEF Mpa!Sampling
<1>3. CASE w.part = "check"
  BY <1>3
<1>4. CASE w.part = "validate"
  BY <1>4
<1>5. CASE w.part \in {"resume", "allocateFit", "commit"}
  BY <1>5 DEF Mpa!Fitting
<1>6. CASE w.part \in {"epoch", "block"}
  BY <1>6 DEF Mpa!Putting
<1>7. CASE w.part \in {"body", "head", "finalize"}
  BY <1>7
<1>8. w.part \in MpaPart
  BY SizeIs
<1> HIDE DEF Mpa!After
<1> QED
  BY <1>1, <1>2, <1>3, <1>4, <1>5, <1>6, <1>7, <1>8 DEF MpaPart

\* A rank alone is not yet at the end of the build.
LEMMA AloneGoesOn ==
    ASSUME NEW w, MpaPlaceOK(w), Alone(w), NEW d
    PROVE  /\ MpaPlaceOK(Mpa!Onward(w, d))
           /\ w.at = MpaSize(w) => w.part \notin {"abort", "end"}
<1>1. w.at = MpaSize(w) => w.part \notin {"abort", "end"}
  <2>1. AtRead(w) \/ AtRoot(w)
    BY StepsAre DEF Alone, StepIs
  <2>2. w.part = "abort" => MpaSize(w) = 8
    BY DEF MpaSize
  <2> QED
    BY <2>1, <2>2 DEF AtRead, AtRoot
<1> QED
  BY <1>1, PlaceOnward

\* A part begins with a step all ranks make together.
LEMMA FirstIsJoint ==
    ASSUME NEW w, MpaPlaceOK(w), w.at = 1, w.part # "start"
    PROVE  ~Alone(w)
<1>1. Alone(w) => AtRead(w) \/ AtRoot(w)
  BY StepsAre DEF Alone, StepIs
<1>2. w.part = "check" => MpaSize(w) # 1
  BY DEF MpaSize
<1> QED
  BY <1>1, <1>2 DEF AtRead, AtRoot

\* Two steps alone follow each other only at the start, where both read, in a check,
\* where one reads before rank 0 looks, and at the receipt.
LEMMA TwoAlone ==
    ASSUME NEW w, MpaPlaceOK(w), NEW d, Alone(w), Alone(Mpa!Onward(w, d))
    PROVE  /\ w.at < MpaSize(w)
           /\ \/ w.part = "check" /\ w.at = 2 /\ Doing(w).op = "read" /\ MpaSize(w) = 6
              \/ w.part = "body" /\ w.at = 5 /\ Doing(w).op = "root"
              \/ w.part = "start" /\ w.at = 1 /\ Doing(w).op = "read"
           /\ ~Alone(Mpa!Onward(Mpa!Onward(w, d), d))
           /\ ~Writes(Mpa!Onward(w, d)) \/ w.part = "body"
           /\ w.part # "start" => Doing(Mpa!Onward(w, d)).op = "root"
<1> DEFINE v == Mpa!Onward(w, d)
           u == Mpa!Onward(v, d)
<1>1. MpaPlaceOK(v) /\ MpaPlaceOK(u)
  BY AloneGoesOn
<1>2. w.at < MpaSize(w)
  <2> SUFFICES ASSUME ~(w.at < MpaSize(w)) PROVE FALSE
    OBVIOUS
  <2>1. w.at = MpaSize(w) /\ v = Mpa!After(w, d)
    BY OnwardIs, SizeIs
  <2>2. v.at = 1 /\ v.part # "start"
    BY <2>1, NextPart, AloneGoesOn, SizeIs DEF MpaPart
  <2> QED
    BY <1>1, <2>2, FirstIsJoint
<1>3. v.part = w.part /\ v.left = w.left /\ v.at = w.at + 1 /\ w.at \in Int
  BY <1>2, OnwardIs, SizeIs
<1>4. MpaSize(v) = MpaSize(w)
  BY <1>3 DEF MpaSize
<1>5. (AtRead(w) \/ AtRoot(w)) /\ (AtRead(v) \/ AtRoot(v))
  BY <1>1, StepsAre DEF Alone, StepIs
<1> HIDE DEF v
<1>6. /\ w.part = "check" => MpaSize(w) = IF Mpa!Slab(w.left)[1] = "chi" THEN 2 ELSE 6
      /\ w.part = "start" => MpaSize(w) = 2
  BY DEF MpaSize
<1>7. \/ w.part = "check" /\ w.at = 2 /\ MpaSize(w) = 6
      \/ w.part = "body" /\ w.at = 5
      \/ w.part = "start" /\ w.at = 1
  BY <1>2, <1>3, <1>4, <1>5, <1>6, SizeIs DEF AtRead, AtRoot
<1>8. /\ w.part \in {"check", "start"} => Doing(w).op = "read"
      /\ w.part = "body" => Doing(w).op = "root"
      /\ w.part = "start" => Doing(v).op = "read"
      /\ w.part # "start" => Doing(v).op = "root" /\ (w.part = "check" => Doing(v).do = "check")
  <2>1. /\ Doing(w).op = "read" \/ Doing(w).op = "root"
        /\ Doing(v).op = "read" \/ Doing(v).op = "root"
    BY DEF Alone, v
  <2>2. /\ Doing(w).op = "read" => AtRead(w)
        /\ Doing(w).op = "root" => AtRoot(w)
        /\ Doing(v).op = "read" => AtRead(v)
        /\ Doing(v).op = "root" => AtRoot(v)
    BY <1>1, StepsAre DEF StepIs
  <2> QED
    BY <1>3, <1>4, <1>7, <2>1, <2>2 DEF AtRead, AtRoot
<1>9. w.part # "start" => u.part = w.part /\ u.left = w.left /\ u.at = w.at + 2
  <2> HAVE w.part # "start"
  <2>1. v.at < MpaSize(v)
    BY <1>3, <1>4, <1>7 DEF MpaSize
  <2> QED
    BY <1>1, <1>3, <2>1, OnwardIs
<1>10. w.part = "start" => ~Alone(u)
  <2> HAVE w.part = "start"
  <2>1. v.part = "start" /\ ~(v.at < MpaSize(v))
    BY <1>3, <1>4, <1>6, <1>7
  <2>2. u = Mpa!After(v, d)
    BY <1>1, <2>1, OnwardIs
  <2>3. u.at = 1 /\ u.part # "start"
    BY <1>1, <2>1, <2>2, NextPart
  <2> QED
    BY <1>1, <2>3, FirstIsJoint
<1>11. w.part # "start" => ~Alone(u)
  <2> HAVE w.part # "start"
  <2>1. MpaSize(u) = MpaSize(w)
    BY <1>9 DEF MpaSize
  <2>2. Alone(u) => AtRead(u) \/ AtRoot(u)
    BY <1>1, StepsAre DEF Alone, StepIs
  <2> HIDE DEF u
  <2> QED
    BY <1>7, <1>9, <2>1, <2>2 DEF AtRead, AtRoot
<1> QED
  BY <1>2, <1>7, <1>8, <1>10, <1>11 DEF v, Writes

\* Nobody reads within a step of a write of rank 0's.
LEMMA WritesApart ==
    ASSUME NEW v, MpaPlaceOK(v), NEW d, Alone(v)
    PROVE  LET w == Mpa!Onward(v, d) IN
           /\ Writes(v) => Doing(w).op # "read"
           /\ Alone(w) => (Writes(w) => Doing(v).op # "read")
<1> DEFINE w == Mpa!Onward(v, d)
<1>1. CASE Alone(w)
  BY <1>1, TwoAlone DEF Writes
<1>2. CASE ~Alone(w)
  BY <1>2 DEF Alone
<1> QED
  BY <1>1, <1>2

\* What a rank does after a step that reads nothing does not depend on the files.
LEMMA WritesGoOn ==
    ASSUME NEW w, MpaPlaceOK(w), Doing(w).op = "root", NEW d, NEW e
    PROVE  Mpa!Onward(w, d) = Mpa!Onward(w, e)
<1>1. AtRoot(w)
  BY StepsAre DEF StepIs
<1>2. CASE w.at < MpaSize(w)
  BY <1>2, OnwardIs
<1>3. CASE ~(w.at < MpaSize(w))
  <2>1. Mpa!Onward(w, d) = Mpa!After(w, d) /\ Mpa!Onward(w, e) = Mpa!After(w, e)
    BY <1>3, OnwardIs
  <2>2. w.at = MpaSize(w)
    BY <1>3, SizeIs
  <2>3. w.part \in {"allocate", "write", "head"}
    BY <1>1, <2>2 DEF AtRoot, MpaSize
  <2>4. \A x : Mpa!After(w, x) =
                IF w.part = "allocate" THEN Mpa!Allocating(w.left \ {Mpa!Comp(w.left), "new"})
                ELSE IF w.part = "write" THEN Mpa!Sampling(w.left \ {Mpa!Slab(w.left)})
                ELSE Mpa!Place("finalize", {}, {})
    BY <2>3 DEF Mpa!After
  <2> QED
    BY <2>1, <2>4
<1> QED
  BY <1>2, <1>3

\* Two ranks side by side are still so when one goes on alone, and when what it
\* did was a write.
LEMMA SideBySide ==
    ASSUME NEW v, MpaPlaceOK(v), NEW w, MpaPlaceOK(w), NEW d, NEW e,
           Near(v, w, d) \/ Near(w, v, d), Alone(v), e = d \/ Writes(v)
    PROVE  LET u == Mpa!Onward(v, d) IN Near(u, w, e) \/ Near(w, u, e)
<1> DEFINE u == Mpa!Onward(v, d)
<1>1. u = Mpa!Onward(v, e)
  BY WritesGoOn DEF Writes
<1>2. CASE w = v
  BY <1>1, <1>2 DEF Near
<1>3. CASE w = u
  BY <1>3 DEF Near
<1>4. CASE Alone(u) /\ w = Mpa!Onward(u, d)
  <2>1. MpaPlaceOK(u)
    BY AloneGoesOn
  <2>2. e = d \/ Doing(u).op = "root"
    BY <1>4, TwoAlone DEF Writes
  <2>3. w = Mpa!Onward(u, e)
    BY <1>4, <2>1, <2>2, WritesGoOn
  <2> QED
    BY <1>4, <2>3 DEF Near
<1>5. CASE Alone(w) /\ v = Mpa!Onward(w, d)
  <2>1. e = d \/ Doing(w).op # "read"
    BY <1>5, WritesApart
  <2>2. v = Mpa!Onward(w, e)
    BY <1>5, <2>1, WritesGoOn DEF Alone
  <2> QED
    BY <1>1, <1>5, <2>2 DEF Near
<1>6. CASE Alone(w) /\ Alone(Mpa!Onward(w, d)) /\ v = Mpa!Onward(Mpa!Onward(w, d), d)
  BY <1>6, TwoAlone
<1> QED
  BY <1>2, <1>3, <1>4, <1>5, <1>6 DEF Near

\* What a rank holds through a session does not change while it is alone.
LEMMA AloneHolds ==
    ASSUME NEW w, MpaPlaceOK(w), Alone(w), NEW d, NEW f \in {"sample", "fit"}
    PROVE  Held(Mpa!Onward(w, d), f) = Held(w, f)
<1> DEFINE v == Mpa!Onward(w, d)
<1>1. AtRead(w) \/ AtRoot(w)
  BY StepsAre DEF Alone, StepIs
<1>2. CASE w.at < MpaSize(w)
  <2>1. v.part = w.part /\ v.at = w.at + 1 /\ w.at \in Int
    BY <1>2, OnwardIs, SizeIs
  <2> HIDE DEF v
  <2>2. w.part # "block"
    BY <1>1 DEF AtRead, AtRoot
  <2>3. NativeSample(v) = NativeSample(w)
    <3>1. CASE AtRead(w)
      BY <1>2, <2>1, <2>2, <3>1 DEF AtRead, NativeSample
    <3>2. CASE AtRoot(w)
      BY <2>1, <2>2, <3>2 DEF AtRoot, NativeSample
    <3> QED
      BY <1>1, <3>1, <3>2
  <2>4. NativeFit(v) = NativeFit(w)
    <3>1. CASE AtRead(w)
      BY <2>1, <2>2, <3>1 DEF AtRead, NativeFit
    <3>2. CASE AtRoot(w)
      BY <2>1, <2>2, <3>2 DEF AtRoot, NativeFit
    <3> QED
      BY <1>1, <3>1, <3>2
  <2> QED
    BY <2>3, <2>4 DEF v, Held
<1>3. CASE ~(w.at < MpaSize(w))
  <2>1. v = Mpa!After(w, d) /\ w.at = MpaSize(w) /\ w.part \notin {"abort", "end"}
    BY <1>3, OnwardIs, SizeIs, AloneGoesOn
  <2>2. Held(w, f) = "none" /\ w.part \notin {"epoch", "block"}
    BY <1>1, <2>1 DEF Held, NativeSample, NativeFit, AtRead, AtRoot, MpaSize
  <2>3. v.at = 1 /\ v.part \notin {"block", "commit", "abort"}
    BY <2>1, <2>2, NextPart, SizeIs DEF MpaPart
  <2> HIDE DEF v
  <2>4. Held(v, f) = "none"
    BY <2>3 DEF Held, NativeSample, NativeFit
  <2> QED
    BY <2>2, <2>4 DEF v
<1> QED
  BY <1>2, <1>3

\* After a collective open a rank holds the file, after a collective close no more.
LEMMA TogetherHolds ==
    ASSUME NEW w, MpaPlaceOK(w), NEW d, NEW f \in {"sample", "fit"},
           Doing(w).op \in {"open", "put", "close", "meet"}
    PROVE  LET v == Mpa!Onward(w, d) IN
           /\ MpaPlaceOK(v)
           /\ Doing(w).op = "open" =>
                Held(v, f) = IF f = Doing(w).file
                             THEN IF Doing(w).do = "r" THEN "nativeR" ELSE "nativeA"
                             ELSE Held(w, f)
           /\ Doing(w).op = "close" =>
                Held(v, f) = IF f = Doing(w).file THEN "none" ELSE Held(w, f)
           /\ Doing(w).op \in {"put", "meet"} => Held(v, f) = Held(w, f)
<1> DEFINE v == Mpa!Onward(w, d)
           Opened(g) == Held(v, g) = IF g = Doing(w).file
                                     THEN IF Doing(w).do = "r" THEN "nativeR" ELSE "nativeA"
                                     ELSE Held(w, g)
           Closed(g) == Held(v, g) = IF g = Doing(w).file THEN "none" ELSE Held(w, g)
<1>1. StepIs(w)
  BY StepsAre
<1>2. /\ w.part \in {"allocate", "commit", "abort"} => MpaSize(w) = 8
      /\ w.part = "write" => MpaSize(w) = 9
      /\ w.part = "allocateFit" => MpaSize(w) = 11
      /\ w.part = "epoch" => MpaSize(w) = 7
      /\ w.part = "head" => MpaSize(w) = 10
      /\ w.part = "block" => MpaSize(w) = 1
      /\ w.part = "check" => MpaSize(w) = IF Mpa!Slab(w.left)[1] = "chi" THEN 2 ELSE 6
  BY DEF MpaSize
<1>3. w.at = MpaSize(w) => w.part \notin {"abort", "end"}
  BY <1>1, <1>2 DEF StepIs
<1>4. MpaPlaceOK(v)
  BY <1>3, PlaceOnward
<1>5. CASE w.at < MpaSize(w)
  <2>1. v.part = w.part /\ v.left = w.left /\ v.at = w.at + 1 /\ w.at \in Int
    BY <1>5, OnwardIs, SizeIs
  <2> HIDE DEF v
  <2>2. CASE Doing(w).op = "open"
    <3>1. AtOpen(w) /\ w.part # "block"
      BY <1>1, <2>2 DEF StepIs, AtOpen
    <3>2. Opened("sample")
      BY <1>2, <1>5, <2>1, <3>1 DEF AtOpen, Held, NativeSample
    <3>3. Opened("fit")
      BY <2>1, <3>1, <1>2, <1>5 DEF AtOpen, Held, NativeFit
    <3> QED
      BY <1>4, <2>2, <3>2, <3>3 DEF v
  <2>3. CASE Doing(w).op = "close"
    <3>1. AtClose(w)
      BY <1>1, <2>3 DEF StepIs
    <3>2. Closed("sample")
      BY <2>1, <3>1 DEF AtClose, Held, NativeSample
    <3>3. Closed("fit")
      BY <2>1, <3>1 DEF AtClose, Held, NativeFit
    <3> QED
      BY <1>4, <2>3, <3>2, <3>3 DEF v
  <2>4. CASE Doing(w).op \in {"put", "meet"}
    <3>1. (AtPut(w) /\ w.part # "block") \/ AtMeet(w)
      BY <1>1, <1>2, <1>5, <2>4 DEF StepIs, AtPut
    <3>2. NativeSample(v) = NativeSample(w)
      BY <2>1, <3>1 DEF AtPut, AtMeet, NativeSample
    <3>3. NativeFit(v) = NativeFit(w)
      BY <2>1, <3>1 DEF AtPut, AtMeet, NativeFit
    <3> QED
      BY <1>4, <2>4, <3>2, <3>3 DEF v, Held
  <2> QED
    BY <2>2, <2>3, <2>4
<1>6. CASE ~(w.at < MpaSize(w))
  <2>1. v = Mpa!After(w, d) /\ w.at = MpaSize(w) /\ w.part \notin {"abort", "end"}
    BY <1>3, <1>6, OnwardIs, SizeIs
  <2>2. \/ w.part = "epoch" /\ Doing(w).op = "open" /\ AtOpen(w)
        \/ w.part = "block" /\ Doing(w).op = "put"
        \/ w.part \in {"resume", "finalize"} /\ Doing(w).op = "meet"
    <3>1. /\ w.part \in {"headers", "validate"} => MpaSize(w) = 2
          /\ w.part = "finalize" => MpaSize(w) = 3
          /\ w.part = "body" => MpaSize(w) = 9
      BY DEF MpaSize
    <3> QED
      BY <1>1, <1>2, <2>1, <3>1 DEF StepIs, AtOpen, AtPut, AtClose, AtMeet
  <2>3. CASE w.part = "epoch"
    <3>1. v.part \in {"block", "commit", "abort"} /\ v.at = 1
      BY <2>1, <2>3, NextPart
    <3> HIDE DEF v
    <3>2. Opened("sample") /\ Opened("fit")
      BY <1>2, <2>1, <2>2, <2>3, <3>1 DEF Held, NativeSample, NativeFit, AtOpen
    <3> QED
      BY <1>4, <2>2, <2>3, <3>2 DEF v
  <2>4. CASE w.part = "block"
    <3>1. v.part \in {"block", "commit", "abort"} /\ v.at = 1
      BY <2>1, <2>4, NextPart
    <3> HIDE DEF v
    <3>2. NativeSample(v) = NativeSample(w) /\ NativeFit(v) = NativeFit(w)
      BY <2>4, <3>1 DEF NativeSample, NativeFit
    <3> QED
      BY <1>4, <2>2, <2>4, <3>2 DEF v, Held
  <2>5. CASE w.part \in {"resume", "finalize"}
    <3>1. v.part \in {"body", "epoch", "end"} /\ v.at = 1
      BY <2>1, <2>5, NextPart
    <3> HIDE DEF v
    <3>2. NativeSample(v) = NativeSample(w) /\ NativeFit(v) = NativeFit(w)
      BY <2>5, <3>1 DEF NativeSample, NativeFit
    <3> QED
      BY <1>4, <2>2, <2>5, <3>2 DEF v, Held
  <2> QED
    BY <2>2, <2>3, <2>4, <2>5
<1> QED
  BY <1>5, <1>6, SizeIs

-----------------------------------------------------------------------------
(* MpaStore: what a write does to a store *)

\* A file c of which a write s changed these fields.
Over(c, s, fields) ==
    [x \in DOMAIN c |-> IF x \in fields THEN Mpa!Changes(s, c)[x] ELSE c[x]]

\* A write reaches its own file.
LEMMA LandIs ==
    ASSUME DiskOK(disk), NEW s, s.file \in {"sample", "fit"}, NEW fields
    PROVE  LET e == Mpa!Land(s, fields) IN
           /\ e = [sample |-> e.sample, fit |-> e.fit]
           /\ e.sample = IF s.file = "sample" THEN Over(disk.sample, s, fields) ELSE disk.sample
           /\ e.fit = IF s.file = "fit" THEN Over(disk.fit, s, fields) ELSE disk.fit
<1> DEFINE e == Mpa!Land(s, fields)
           o == Over(disk[s.file], s, fields)
<1>1. disk = [sample |-> disk.sample, fit |-> disk.fit]
  BY DEF DiskOK
<1>2. e = [disk EXCEPT ![s.file] = o]
  BY DEF Mpa!Land, Over
<1> HIDE DEF o
<1>3. CASE s.file = "sample"
  <2>1. e = [sample |-> o, fit |-> disk.fit]
    BY <1>1, <1>2, <1>3
  <2> HIDE DEF e
  <2>2. e = [sample |-> e.sample, fit |-> e.fit] /\ e.sample = o /\ e.fit = disk.fit
    BY <2>1
  <2> QED
    BY <1>3, <2>2 DEF e, o
<1>4. CASE s.file = "fit"
  <2>1. e = [sample |-> disk.sample, fit |-> o]
    BY <1>1, <1>2, <1>4
  <2> HIDE DEF e
  <2>2. e = [sample |-> e.sample, fit |-> e.fit] /\ e.fit = o /\ e.sample = disk.sample
    BY <2>1
  <2> QED
    BY <1>4, <2>2 DEF e, o
<1> QED
  BY <1>3, <1>4

\* The fields of the sample store after a write.
LEMMA OverSample ==
    ASSUME NEW c \in SampleType, NEW s, NEW fields
    PROVE  LET e == Over(c, s, fields) n == Mpa!Changes(s, c) IN
           /\ e.there = IF "there" \in fields THEN n.there ELSE c.there
           /\ e.sound = IF "sound" \in fields THEN n.sound ELSE c.sound
           /\ e.comps = IF "comps" \in fields THEN n.comps ELSE c.comps
           /\ e.committed = IF "committed" \in fields THEN n.committed ELSE c.committed
           /\ e.slabs = IF "slabs" \in fields THEN n.slabs ELSE c.slabs
           /\ e.ready = IF "ready" \in fields THEN n.ready ELSE c.ready
           /\ e = [there |-> e.there, sound |-> e.sound, comps |-> e.comps,
                   committed |-> e.committed, slabs |-> e.slabs, ready |-> e.ready]
<1> DEFINE n == Mpa!Changes(s, c)
           e == Over(c, s, fields)
<1>1. DOMAIN c = {"there", "sound", "comps", "committed", "slabs", "ready"}
  BY DEF SampleType
<1> HIDE DEF n
<1>2. e = [x \in {"there", "sound", "comps", "committed", "slabs", "ready"} |-> IF x \in fields THEN n[x] ELSE c[x]]
  BY <1>1 DEF Over, n
<1> HIDE DEF e
<1> QED
  BY <1>2 DEF n, e

\* The fields of the fit store after a write.
LEMMA OverFit ==
    ASSUME NEW c \in FitType, NEW s, NEW fields
    PROVE  LET e == Over(c, s, fields) n == Mpa!Changes(s, c) IN
           /\ e.there = IF "there" \in fields THEN n.there ELSE c.there
           /\ e.state = IF "state" \in fields THEN n.state ELSE c.state
           /\ e.committed = IF "committed" \in fields THEN n.committed ELSE c.committed
           /\ e.poles = IF "poles" \in fields THEN n.poles ELSE c.poles
           /\ e.done = IF "done" \in fields THEN n.done ELSE c.done
           /\ e.journal = IF "journal" \in fields THEN n.journal ELSE c.journal
           /\ e.condition = IF "condition" \in fields THEN n.condition ELSE c.condition
           /\ e.backward = IF "backward" \in fields THEN n.backward ELSE c.backward
           /\ e.head = IF "head" \in fields THEN n.head ELSE c.head
           /\ e.headData = IF "headData" \in fields THEN n.headData ELSE c.headData
           /\ e.receipt = IF "receipt" \in fields THEN n.receipt ELSE c.receipt
           /\ e.complete = IF "complete" \in fields THEN n.complete ELSE c.complete
           /\ e.certified = IF "certified" \in fields THEN n.certified ELSE c.certified
           /\ e = [there |-> e.there,
                   state |-> e.state, committed |-> e.committed, poles |-> e.poles,
                   done |-> e.done, journal |-> e.journal, condition |-> e.condition,
                   backward |-> e.backward, head |-> e.head, headData |-> e.headData,
                   receipt |-> e.receipt, complete |-> e.complete, certified |-> e.certified]
<1> DEFINE Fields == {"there", "state", "committed", "poles", "done", "journal", "condition",
                      "backward", "head", "headData", "receipt", "complete", "certified"}
           n == Mpa!Changes(s, c)
           e == Over(c, s, fields)
<1>1. DOMAIN c = Fields
  BY DEF FitType
<1> HIDE DEF n
<1>2. e = [x \in Fields |-> IF x \in fields THEN n[x] ELSE c[x]]
  BY <1>1 DEF Over, n
<1> HIDE DEF e
<1> QED
  BY <1>2 DEF n, e

\* What a write needs to leave a store in order, whole or in part.
SampleMay(s, c) ==
    /\ s.file = "sample"
    /\ s.do \in {"unlink", "begin", "check", "publish", "create", "stamp", "slab", "mark"}
    /\ s.do \in {"create", "stamp"} => s.arg \in {"chi", "wc"}
    /\ s.do = "stamp" => c.comps["chi"] # "none"
    /\ s.do = "slab" => s.arg \in Mpa!Slabs
    /\ s.do = "mark" =>
        /\ s.arg \in Mpa!Slabs /\ c.slabs[s.arg] > 0
        /\ ChiOf(s.arg) \in c.ready \cup {s.arg} /\ c.comps["chi"] # "none"
FitMay(s, c) ==
    /\ s.file = "fit"
    /\ s.do \in {"unlink", "begin", "publish", "allocate", "initialise", "block", "commit",
                 "stage", "receipt", "headGroup", "headReady", "finalize"}
    /\ s.do = "initialise" => c.there
    /\ s.do = "block" => s.arg \in 1..Blocks
    /\ s.do = "commit" =>
        /\ s.arg \in SUBSET (1..Blocks) /\ Clean(c)
        /\ \A b \in s.arg : c.poles[b] > 0
    /\ s.do = "headGroup" => ~c.complete /\ c.head # "ready"
    /\ s.do = "headReady" => c.headData
    /\ s.do = "finalize" =>
        /\ Clean(c) /\ c.done = 1..Blocks /\ c.head = "ready" /\ c.receipt = "ready"

\* The part of a write that a kill leaves.
Partly(s, c, fields) ==
    IF s.do = "unlink" THEN fields \in {{}, DOMAIN Mpa!Changes(s, c)}
    ELSE /\ fields \in SUBSET DOMAIN Mpa!Changes(s, c)
         /\ s.do = "create" /\ "comps" \in fields => "there" \in fields
         /\ s.do = "allocate" /\ "state" \in fields => "there" \in fields

\* A part of a write the step may make keeps the sample store sound.
LEMMA SampleStays ==
    ASSUME NEW c, SampleOK(c), NEW s, SampleMay(s, c), NEW fields, Partly(s, c, fields)
    PROVE  SampleOK(Over(c, s, fields))
<1> DEFINE n == Mpa!Changes(s, c)
           e == Over(c, s, fields)
<1>1. c \in SampleType
  BY DEF SampleOK
<1>2. /\ e.there = IF "there" \in fields THEN n.there ELSE c.there
      /\ e.sound = IF "sound" \in fields THEN n.sound ELSE c.sound
      /\ e.comps = IF "comps" \in fields THEN n.comps ELSE c.comps
      /\ e.committed = IF "committed" \in fields THEN n.committed ELSE c.committed
      /\ e.slabs = IF "slabs" \in fields THEN n.slabs ELSE c.slabs
      /\ e.ready = IF "ready" \in fields THEN n.ready ELSE c.ready
      /\ e = [there |-> e.there, sound |-> e.sound, comps |-> e.comps,
              committed |-> e.committed, slabs |-> e.slabs, ready |-> e.ready]
  BY <1>1, OverSample
<1> SUFFICES SampleOK(e)
  OBVIOUS
<1> HIDE DEF e
<1>3. CASE s.do = "unlink"
  <2>1. n = Mpa!NoSample
    BY <1>3 DEF Mpa!Changes, Mpa!NoFile, SampleMay
  <2>2. fields = {} \/ fields = {"there", "sound", "comps", "committed", "slabs", "ready"}
    BY <1>3, <2>1 DEF Partly, Mpa!NoSample
  <2> HIDE DEF n
  <2>3. CASE fields = {}
    <3>1. /\ e.there = c.there /\ e.sound = c.sound /\ e.comps = c.comps
          /\ e.committed = c.committed /\ e.slabs = c.slabs /\ e.ready = c.ready
      BY <1>2, <2>3
    <3>2. e \in SampleType
      BY <1>1, <1>2, <3>1 DEF SampleType
    <3>3. (e.ready # {} => e.comps["chi"] # "none") /\ (e.comps["chi"] # "none" => e.there)
      BY <3>1 DEF SampleOK
    <3>4. ASSUME NEW x \in e.ready PROVE e.slabs[x] > 0 /\ ChiOf(x) \in e.ready
      BY <3>1, <3>4 DEF SampleOK
    <3> QED
      BY <3>2, <3>3, <3>4 DEF SampleOK
  <2>4. CASE fields = {"there", "sound", "comps", "committed", "slabs", "ready"}
    <3>1. /\ e.there = FALSE /\ e.sound = FALSE
          /\ e.comps = [k \in {"chi", "wc"} |-> "none"] /\ e.committed = TRUE
          /\ e.slabs = [x \in Mpa!Slabs |-> 0] /\ e.ready = {}
      BY <1>2, <2>1, <2>4 DEF Mpa!NoSample
    <3>2. e \in SampleType
      <4>1. e.comps \in [{"chi", "wc"} -> {"none", "bare", "stamped"}]
        BY <3>1
      <4>2. e.slabs \in [Mpa!Slabs -> Nat]
        BY <3>1
      <4>3. /\ e.there \in BOOLEAN /\ e.sound \in BOOLEAN /\ e.committed \in BOOLEAN
            /\ e.ready \in SUBSET Mpa!Slabs
        BY <3>1
      <4> QED
        BY <1>2, <4>1, <4>2, <4>3 DEF SampleType
    <3> QED
      BY <3>1, <3>2 DEF SampleOK
  <2> QED
    BY <2>2, <2>3, <2>4
<1>4. CASE s.do \in {"begin", "check", "publish"}
  <2>1. DOMAIN n \subseteq {"committed"} /\ (s.do # "check" => n.committed \in BOOLEAN)
    BY <1>4 DEF Mpa!Changes, Mpa!Published, SampleMay
  <2>2. fields \subseteq DOMAIN n /\ (s.do = "check" => DOMAIN n = {})
    BY <1>4 DEF Partly, Mpa!Changes
  <2> HIDE DEF n
  <2> QED
    BY <1>1, <1>2, <1>4, <2>1, <2>2 DEF SampleOK, SampleType
<1>5. CASE s.do \in {"create", "stamp"}
  <2> DEFINE mark == IF s.do = "create" THEN "bare" ELSE "stamped"
  <2>1. /\ DOMAIN n \subseteq {"there", "sound", "comps", "committed"}
        /\ n.comps = [c.comps EXCEPT ![s.arg] = mark]
        /\ "committed" \in DOMAIN n => n.committed = FALSE
        /\ "there" \in DOMAIN n => n.there = TRUE
        /\ "sound" \in DOMAIN n => n.sound = TRUE
    BY <1>5 DEF Mpa!Changes
  <2>2. /\ fields \subseteq DOMAIN n
        /\ "comps" \in fields => "there" \in fields \/ c.there
    BY <1>1, <1>5 DEF Partly, SampleMay, SampleOK
  <2> HIDE DEF n
  <2>3. n.comps \in [{"chi", "wc"} -> {"none", "bare", "stamped"}]
        /\ (c.comps["chi"] # "none" => n.comps["chi"] # "none")
    BY <1>1, <1>5, <2>1 DEF SampleType, SampleMay
  <2> HIDE DEF mark
  <2> QED
    <3>1. /\ e.comps \in {c.comps, n.comps} /\ e.committed \in {c.committed, FALSE}
          /\ e.there \in {c.there, TRUE} /\ e.sound \in {c.sound, TRUE}
          /\ e.slabs = c.slabs /\ e.ready = c.ready
          /\ e.comps = c.comps \/ e.there
      BY <1>2, <2>1, <2>2, ZenonT(60)
    <3>2. e \in SampleType
      BY <1>1, <1>2, <2>3, <3>1 DEF SampleType
    <3> QED
      BY <2>3, <3>1, <3>2 DEF SampleOK
<1>6. CASE s.do = "slab"
  <2>1. n = [slabs |-> [c.slabs EXCEPT ![s.arg] = @ + 1]]
    BY <1>6 DEF Mpa!Changes
  <2>2. fields \subseteq {"slabs"}
    BY <1>6, <2>1 DEF Partly
  <2> HIDE DEF n
  <2>3. n.slabs \in [Mpa!Slabs -> Nat] /\ \A x \in Mpa!Slabs : c.slabs[x] > 0 => n.slabs[x] > 0
    BY <1>1, <1>6, <2>1 DEF SampleType, SampleMay
  <2>4. /\ e.there = c.there /\ e.sound = c.sound /\ e.comps = c.comps
        /\ e.committed = c.committed /\ e.ready = c.ready /\ e.slabs \in {c.slabs, n.slabs}
    BY <1>2, <2>2
  <2>5. e \in SampleType
    BY <1>1, <1>2, <2>3, <2>4 DEF SampleType
  <2>6. c.ready \subseteq Mpa!Slabs
    BY <1>1 DEF SampleType
  <2> QED
    BY <2>3, <2>4, <2>5, <2>6 DEF SampleOK
<1>7. CASE s.do = "mark"
  <2>1. n = [ready |-> c.ready \cup {s.arg}]
    BY <1>7 DEF Mpa!Changes, Mpa!Marked
  <2>2. fields \subseteq {"ready"}
    BY <1>7, <2>1 DEF Partly
  <2> HIDE DEF n
  <2>3. /\ e.there = c.there /\ e.sound = c.sound /\ e.comps = c.comps
        /\ e.committed = c.committed /\ e.slabs = c.slabs
        /\ (e.ready = c.ready \/ e.ready = c.ready \cup {s.arg})
    BY <1>2, <2>1, <2>2
  <2>4. e \in SampleType
    BY <1>1, <1>2, <1>7, <2>3 DEF SampleType, SampleMay
  <2> QED
    BY <1>7, <2>3, <2>4 DEF SampleOK, SampleMay
<1> QED
  BY <1>3, <1>4, <1>5, <1>6, <1>7 DEF SampleMay

\* A part of a write the step may make keeps the fit store sound.
LEMMA FitStays ==
    ASSUME NEW c, FitOK(c), NEW s, FitMay(s, c), NEW fields, Partly(s, c, fields)
    PROVE  FitOK(Over(c, s, fields))
<1> DEFINE n == Mpa!Changes(s, c)
           e == Over(c, s, fields)
<1>1. c \in FitType
  BY DEF FitOK
<1>2. /\ e.there = IF "there" \in fields THEN n.there ELSE c.there
      /\ e.state = IF "state" \in fields THEN n.state ELSE c.state
      /\ e.committed = IF "committed" \in fields THEN n.committed ELSE c.committed
      /\ e.poles = IF "poles" \in fields THEN n.poles ELSE c.poles
      /\ e.done = IF "done" \in fields THEN n.done ELSE c.done
      /\ e.journal = IF "journal" \in fields THEN n.journal ELSE c.journal
      /\ e.condition = IF "condition" \in fields THEN n.condition ELSE c.condition
      /\ e.backward = IF "backward" \in fields THEN n.backward ELSE c.backward
      /\ e.head = IF "head" \in fields THEN n.head ELSE c.head
      /\ e.headData = IF "headData" \in fields THEN n.headData ELSE c.headData
      /\ e.receipt = IF "receipt" \in fields THEN n.receipt ELSE c.receipt
      /\ e.complete = IF "complete" \in fields THEN n.complete ELSE c.complete
      /\ e.certified = IF "certified" \in fields THEN n.certified ELSE c.certified
      /\ e = [there |-> e.there,
              state |-> e.state, committed |-> e.committed, poles |-> e.poles,
              done |-> e.done, journal |-> e.journal, condition |-> e.condition,
              backward |-> e.backward, head |-> e.head, headData |-> e.headData,
              receipt |-> e.receipt, complete |-> e.complete, certified |-> e.certified]
  BY <1>1, OverFit
<1> SUFFICES FitOK(e)
  OBVIOUS
<1> HIDE DEF e
<1> DEFINE Fields == {"there", "state", "committed", "poles", "done", "journal", "condition",
                      "backward", "head", "headData", "receipt", "complete", "certified"}
           Same(F) == \A f \in Fields \ F : e[f] = c[f]
<1>3. CASE s.do = "unlink"
  <2>1. n = Mpa!NoFit
    BY <1>3 DEF Mpa!Changes, Mpa!NoFile, FitMay
  <2>2. fields = {} \/ fields = Fields
    BY <1>3, <2>1 DEF Partly, Mpa!NoFit
  <2> HIDE DEF n
  <2>3. CASE fields = {}
    <3>1. Same({})
      BY <1>2, <2>3
    <3>2. e \in FitType
      BY <1>1, <1>2, <3>1 DEF FitType
    <3> QED
      BY <3>1, <3>2 DEF FitOK, NoLedger, Chain
  <2>4. CASE fields = Fields
    <3>1. /\ e.there = FALSE /\ e.state = "none" /\ e.committed = TRUE /\ e.poles = [b \in 1..Blocks |-> 0]
          /\ e.done = {} /\ e.journal = {} /\ e.condition = {} /\ e.backward = {}
          /\ e.head = "none" /\ e.headData = FALSE /\ e.receipt = "none"
          /\ e.complete = FALSE /\ e.certified = FALSE
      BY <1>2, <2>1, <2>4 DEF Mpa!NoFit
    <3>2. e \in FitType
      <4>1. e.poles \in [1..Blocks -> Nat]
        BY <3>1
      <4>2. /\ e.there \in BOOLEAN /\ e.committed \in BOOLEAN /\ e.headData \in BOOLEAN
            /\ e.complete \in BOOLEAN /\ e.certified \in BOOLEAN
        BY <3>1
      <4> QED
        BY <1>2, <3>1, <4>1, <4>2 DEF FitType
    <3> QED
      BY <3>1, <3>2 DEF FitOK, NoLedger, Chain
  <2> QED
    BY <2>2, <2>3, <2>4
<1>4. CASE s.do \in {"begin", "publish"}
  <2>1. /\ DOMAIN n \subseteq {"committed", "headData"} /\ n.committed \in BOOLEAN
        /\ "headData" \in DOMAIN n => n.headData = TRUE
    BY <1>4 DEF Mpa!Changes, Mpa!Published
  <2>2. fields \subseteq DOMAIN n
    BY <1>4 DEF Partly
  <2> HIDE DEF n
  <2>3. /\ Same({"committed", "headData"}) /\ e.committed \in BOOLEAN
        /\ e.headData = c.headData \/ e.headData = TRUE
    BY <1>1, <1>2, <2>1, <2>2 DEF FitType
  <2>4. e \in FitType
    BY <1>1, <1>2, <2>3 DEF FitType
  <2> QED
    BY <2>3, <2>4 DEF FitOK, NoLedger, Chain
<1>5. CASE s.do \in {"allocate", "initialise"}
  <2>1. /\ DOMAIN n \subseteq {"there", "state", "committed"} /\ n.state \in {"bare", "stamped"}
        /\ "committed" \in DOMAIN n => n.committed = FALSE
        /\ "there" \in DOMAIN n => n.there = TRUE
    BY <1>5 DEF Mpa!Changes
  <2>2. /\ fields \subseteq DOMAIN n
        /\ "state" \in fields => "there" \in fields \/ c.there
    BY <1>5 DEF Partly, FitMay
  <2> HIDE DEF n
  <2>3. /\ Same({"there", "state", "committed"}) /\ e.committed \in BOOLEAN
        /\ e.there \in BOOLEAN /\ (c.there => e.there)
        /\ e.state = c.state \/ (e.state \in {"bare", "stamped"} /\ e.there)
    BY <1>1, <1>2, <2>1, <2>2, ZenonT(60) DEF FitType
  <2>4. e \in FitType
    BY <1>1, <1>2, <2>3 DEF FitType
  <2> QED
    BY <2>3, <2>4 DEF FitOK, NoLedger, Chain
<1>6. CASE s.do = "block"
  <2>1. n = [poles |-> [c.poles EXCEPT ![s.arg] = @ + 1]]
    BY <1>6 DEF Mpa!Changes
  <2>2. fields \subseteq {"poles"}
    BY <1>6, <2>1 DEF Partly
  <2> HIDE DEF n
  <2>3. n.poles \in [1..Blocks -> Nat] /\ \A b \in 1..Blocks : c.poles[b] > 0 => n.poles[b] > 0
    BY <1>1, <1>6, <2>1 DEF FitType, FitMay
  <2>4. Same({"poles"}) /\ (e.poles = c.poles \/ e.poles = n.poles)
    BY <1>2, <2>2
  <2>5. e \in FitType
    BY <1>1, <1>2, <2>3, <2>4 DEF FitType
  <2>6. c.done \cup c.journal \subseteq 1..Blocks
    BY <1>1 DEF FitType
  <2>7. \A b \in e.done \cup e.journal : e.poles[b] > 0
    BY <2>3, <2>4, <2>6 DEF FitOK
  <2> QED
    BY <2>4, <2>5, <2>7 DEF FitOK, NoLedger, Chain
<1>7. CASE s.do = "commit"
  <2> DEFINE m == c.done \cup s.arg
  <2>1. /\ Clean(c) /\ s.arg \in SUBSET (1..Blocks) /\ \A b \in s.arg : c.poles[b] > 0
    BY <1>7 DEF FitMay
  <2>2. n = [done |-> m, journal |-> m, condition |-> m, backward |-> m]
    BY <1>7, <2>1 DEF Mpa!Changes, Mpa!Committed, Clean
  <2>3. fields \subseteq {"done", "journal", "condition", "backward"}
    BY <1>7, <2>2 DEF Partly
  <2> HIDE DEF n
  <2>4. n.done = m /\ n.journal = m /\ n.condition = m /\ n.backward = m
    BY <2>2
  <2> HIDE DEF m
  <2>5. /\ Same({"done", "journal", "condition", "backward"})
        /\ e.done \in {c.done, m} /\ e.journal \in {c.done, m}
        /\ e.condition \in {c.done, m} /\ e.backward \in {c.done, m}
    BY <1>2, <2>1, <2>3, <2>4 DEF Clean
  <2>6. m \in SUBSET (1..Blocks) /\ c.done \subseteq m
    BY <1>1, <2>1 DEF m, FitType
  <2>7. e \in FitType
    BY <1>1, <1>2, <2>5, <2>6 DEF FitType
  <2>8. \A b \in m : c.poles[b] > 0
    BY <2>1 DEF m, FitOK
  <2>9. \A b \in e.done \cup e.journal : e.poles[b] > 0
    BY <2>5, <2>6, <2>8
  <2>10. Chain(e)
    BY <2>5, <2>6 DEF Chain
  <2>11. ~e.complete /\ e.state # "none" /\ e.there /\ (e.head = "ready" => e.headData)
    BY <2>1, <2>5 DEF Clean, FitOK
  <2> QED
    BY <2>7, <2>9, <2>10, <2>11 DEF FitOK
<1>8. CASE s.do \in {"stage", "receipt"}
  <2>1. /\ DOMAIN n = {"receipt"} /\ n.receipt \in {"unready", "ready"}
        /\ c.receipt = "ready" => n.receipt = "ready"
    BY <1>8 DEF Mpa!Changes, Mpa!Staged
  <2>2. fields \subseteq DOMAIN n
    BY <1>8 DEF Partly
  <2> HIDE DEF n
  <2>3. Same({"receipt"}) /\ (e.receipt = c.receipt \/ e.receipt = n.receipt)
    BY <1>2, <2>1, <2>2
  <2>4. e \in FitType
    BY <1>1, <1>2, <2>1, <2>3 DEF FitType
  <2> QED
    BY <2>1, <2>3, <2>4 DEF FitOK, NoLedger, Chain
<1>9. CASE s.do = "headGroup"
  <2>1. n = [head |-> "unready", headData |-> FALSE] /\ ~c.complete /\ c.head # "ready"
    BY <1>9 DEF Mpa!Changes, FitMay
  <2>2. fields \subseteq {"head", "headData"}
    BY <1>9, <2>1 DEF Partly
  <2> HIDE DEF n
  <2>3. Same({"head", "headData"}) /\ (e.head = c.head \/ e.head = "unready") /\ e.headData \in BOOLEAN
    BY <1>1, <1>2, <2>1, <2>2 DEF FitType
  <2>4. e \in FitType
    BY <1>1, <1>2, <2>3 DEF FitType
  <2> QED
    BY <2>1, <2>3, <2>4 DEF FitOK, NoLedger, Chain
<1>10. CASE s.do = "headReady"
  <2>1. c.headData /\ DOMAIN n = {"head"} /\ n.head = "ready"
    BY <1>10 DEF Mpa!Changes, FitMay
  <2>2. fields \subseteq {"head"}
    BY <1>10, <2>1 DEF Partly
  <2> HIDE DEF n
  <2>3. Same({"head"}) /\ (e.head = c.head \/ e.head = "ready")
    BY <1>2, <2>1, <2>2
  <2>4. e \in FitType
    BY <1>1, <1>2, <2>3 DEF FitType
  <2> QED
    BY <2>1, <2>3, <2>4 DEF FitOK, NoLedger, Chain
<1>11. CASE s.do = "finalize"
  <2>1. n = [complete |-> TRUE, certified |-> TRUE]
    BY <1>11 DEF Mpa!Changes, Mpa!Finalized
  <2>2. fields \subseteq {"complete", "certified"}
    BY <1>11, <2>1 DEF Partly
  <2> HIDE DEF n
  <2>3. Same({"complete", "certified"}) /\ e.complete \in BOOLEAN /\ e.certified \in BOOLEAN
    BY <1>1, <1>2, <2>1, <2>2 DEF FitType
  <2>4. e \in FitType
    BY <1>1, <1>2, <2>3 DEF FitType
  <2>5. Clean(c) /\ c.done = 1..Blocks /\ c.head = "ready" /\ c.receipt = "ready"
    BY <1>11 DEF FitMay
  <2> QED
    BY <2>3, <2>4, <2>5 DEF FitOK, NoLedger, Chain, Clean
<1> QED
  BY <1>3, <1>4, <1>5, <1>6, <1>7, <1>8, <1>9, <1>10, <1>11 DEF FitMay

\* What is next in an epoch is left, and what is left is a set of blocks.
LEMMA FewIs ==
    ASSUME NEW left \in SUBSET (1..Blocks)
    PROVE  /\ Mpa!Few(left) \in SUBSET left
           /\ Mpa!Whole(Mpa!Few(left)) \in SUBSET Mpa!Few(left)
  BY DEF Mpa!Few, Mpa!Whole

\* A program writes only what leaves the stores in order.
LEMMA WritesAreInOrder ==
    ASSUME NEW w, MpaPlaceOK(w), Doing(w).op \in {"root", "put"},
           NEW c, NEW d, SampleOK(c), FitOK(d), SampleFacts(w, c), FitFacts(w, d)
    PROVE  SampleMay(Doing(w), c) \/ FitMay(Doing(w), d)
<1> DEFINE s == Doing(w)
<1>1. AtRoot(w) \/ AtPut(w)
  BY StepsAre DEF StepIs
<1>2. CASE w.part = "allocate"
  <2>1. w.at = 8 => c.comps["chi"] # "none"
    BY <1>2 DEF SampleFacts
  <2>2. Mpa!Comp(w.left) \in {"chi", "wc"}
    BY DEF Mpa!Comp
  <2> HIDE DEF s
  <2> QED
    BY <1>1, <1>2, <2>1, <2>2 DEF AtRoot, AtPut, SampleMay, s
<1>3. CASE w.part \in {"check", "write"}
  <2> DEFINE x == Mpa!Slab(w.left)
  <2>1. w.left \in SUBSET Mpa!Slabs /\ w.left # {}
    BY <1>3 DEF MpaPlaceOK
  <2>2. x \in Mpa!Slabs /\ x = <<x[1], x[2]>> /\ x[1] \in {"chi", "wc"}
    BY <2>1, SlabIs
  <2>3. x[1] = "chi" => ChiOf(x) = x
    BY <2>2 DEF ChiOf
  <2>4. w.part = "write" /\ w.at = 9 =>
          c.slabs[x] > 0 /\ ChiOf(x) \in c.ready \cup {x} /\ c.comps["chi"] # "none"
    BY <2>2, <2>3 DEF SampleFacts
  <2> HIDE DEF x
  <2>5. /\ s.file = "sample" /\ s.do \in {"begin", "check", "publish", "slab", "mark"}
        /\ s.do \in {"slab", "mark"} => s.arg = x
        /\ s.do = "mark" => w.part = "write" /\ w.at = 9
    BY <1>1, <1>3 DEF AtRoot, AtPut, x
  <2>6. s.do = "mark" => ChiOf(s.arg) \in c.ready \cup {s.arg}
    BY <2>4, <2>5
  <2> HIDE DEF s
  <2> QED
    BY <2>2, <2>4, <2>5, <2>6 DEF SampleMay, s
<1>4. CASE w.part = "allocateFit"
  <2>1. w.at = 9 => d.there
    BY <1>4 DEF FitFacts
  <2> QED
    BY <1>1, <1>4, <2>1 DEF AtRoot, AtPut, FitMay
<1>5. CASE w.part = "epoch"
  <2>1. \/ s.file = "sample" /\ s.do = "check"
        \/ s.file = "fit" /\ s.do = "begin"
    BY <1>1, <1>5 DEF AtRoot, AtPut
  <2> HIDE DEF s
  <2> QED
    BY <2>1 DEF SampleMay, FitMay, s
<1>6. CASE w.part = "block"
  <2>1. w.left \in SUBSET (1..Blocks) /\ w.put \in SUBSET Mpa!Whole(Mpa!Few(w.left)) /\ w.put # {}
    BY <1>6 DEF MpaPlaceOK
  <2>2. w.put \in SUBSET (1..Blocks) /\ w.put \in SUBSET Nat
    BY <2>1, FewIs
  <2>3. Mpa!Least(w.put) \in w.put
    BY <2>1, <2>2, LeastIs
  <2>4. s.file = "fit" /\ s.do = "block" /\ s.arg = Mpa!Least(w.put)
    BY <1>1, <1>6 DEF AtRoot, AtPut
  <2> HIDE DEF s
  <2> QED
    BY <2>2, <2>3, <2>4 DEF FitMay, s
<1>7. CASE w.part \in {"commit", "abort"}
  <2>1. w.left \in SUBSET (1..Blocks)
    BY <1>7 DEF MpaPlaceOK
  <2>2. Mpa!Few(w.left) \in SUBSET (1..Blocks)
    BY <2>1, FewIs
  <2>3. /\ s.file = "fit" /\ s.do \in {"publish", "commit"}
        /\ s.do = "commit" => w.part = "commit" /\ w.at = 6 /\ s.arg = Mpa!Few(w.left)
    BY <1>1, <1>7 DEF AtRoot, AtPut
  <2>4. w.part = "commit" /\ w.at = 6 => Clean(d) /\ \A b \in Mpa!Few(w.left) : d.poles[b] > 0
    BY DEF FitFacts
  <2> HIDE DEF s
  <2> QED
    BY <2>2, <2>3, <2>4 DEF FitMay, s
<1>8. CASE w.part = "body"
  <2>1. s.file = "fit" /\ s.do \in {"stage", "receipt"}
    BY <1>1, <1>8 DEF AtRoot, AtPut
  <2> HIDE DEF s
  <2> QED
    BY <2>1 DEF FitMay, s
<1>9. CASE w.part = "head"
  <2>1. /\ s.file = "fit" /\ s.do \in {"headGroup", "begin", "publish", "headReady"}
        /\ s.do = "headGroup" => w.at = 2
        /\ s.do = "headReady" => w.at = 10
    BY <1>1, <1>9 DEF AtRoot, AtPut
  <2>2. /\ w.at = 2 => ~d.complete /\ d.head # "ready"
        /\ w.at = 10 => d.headData
    BY <1>9 DEF FitFacts, Clean
  <2> HIDE DEF s
  <2> QED
    BY <2>1, <2>2 DEF FitMay, s
<1>10. CASE w.part = "finalize"
  <2>1. s.file = "fit" /\ s.do = "finalize" /\ w.at = 2
    BY <1>1, <1>10 DEF AtRoot, AtPut
  <2>2. Clean(d) /\ d.done = 1..Blocks /\ d.head = "ready" /\ d.receipt = "ready"
    BY <1>10, <2>1 DEF FitFacts
  <2> HIDE DEF s
  <2> QED
    BY <2>1, <2>2 DEF FitMay, s
<1>11. w.part \notin {"start", "headers", "validate", "resume", "end"}
  BY <1>1 DEF AtRoot, AtPut
<1> QED
  BY <1>2, <1>3, <1>4, <1>5, <1>6, <1>7, <1>8, <1>9, <1>10, <1>11, SizeIs DEF MpaPart

\* However a kill cuts a write, the stores stay in order.
LEMMA LandsInOrder ==
    ASSUME NEW w, MpaPlaceOK(w), Doing(w).op \in {"root", "put"}, DiskOK(disk),
           SampleFacts(w, disk.sample), FitFacts(w, disk.fit), NEW fields,
           \/ fields \in Mpa!PartOf(Doing(w))
           \/ fields = DOMAIN Mpa!Changes(Doing(w), disk[Doing(w).file])
    PROVE  DiskOK(Mpa!Land(Doing(w), fields))
<1> DEFINE s == Doing(w)
           e == Mpa!Land(s, fields)
<1>1. SampleMay(s, disk.sample) \/ FitMay(s, disk.fit)
  BY WritesAreInOrder DEF DiskOK
<1> HIDE DEF s
<1>2. s.file \in {"sample", "fit"} /\ s.do # "none"
  BY <1>1 DEF SampleMay, FitMay
<1>3. Partly(s, disk[s.file], fields)
  BY DEF Partly, Mpa!PartOf, Mpa!Inode, Mpa!Changes, s
<1>4. /\ e = [sample |-> e.sample, fit |-> e.fit]
      /\ e.sample = IF s.file = "sample" THEN Over(disk.sample, s, fields) ELSE disk.sample
      /\ e.fit = IF s.file = "fit" THEN Over(disk.fit, s, fields) ELSE disk.fit
  BY <1>2, LandIs
<1> HIDE DEF e
<1>5. CASE SampleMay(s, disk.sample)
  <2>1. s.file = "sample"
    BY <1>5 DEF SampleMay
  <2>2. SampleOK(Over(disk.sample, s, fields))
    BY <1>3, <1>5, <2>1, SampleStays DEF DiskOK
  <2> QED
    BY <1>4, <2>1, <2>2 DEF DiskOK, e, s
<1>6. CASE FitMay(s, disk.fit)
  <2>1. s.file = "fit"
    BY <1>6 DEF FitMay
  <2>2. FitOK(Over(disk.fit, s, fields))
    BY <1>3, <1>6, <2>1, FitStays DEF DiskOK
  <2> QED
    BY <1>4, <2>1, <2>2 DEF DiskOK, e, s
<1> QED
  BY <1>1, <1>5, <1>6

\* What a whole write leaves of a store.
SampleWritten(s, c, e) ==
    /\ s.do \in {"begin", "check", "publish", "create", "stamp", "slab"} => e.ready = c.ready
    /\ s.do \in {"begin", "check", "publish", "create", "stamp", "mark"} => e.slabs = c.slabs
    /\ s.do \in {"begin", "check", "publish", "slab", "mark"} => e.comps = c.comps
    /\ s.do = "create" => e.comps = [c.comps EXCEPT ![s.arg] = "bare"]
    /\ s.do = "stamp" => e.comps = [c.comps EXCEPT ![s.arg] = "stamped"]
    /\ s.do = "slab" => e.slabs = [c.slabs EXCEPT ![s.arg] = @ + 1]
    /\ s.do = "mark" => e.ready = c.ready \cup {s.arg}
FitWritten(s, c, e) ==
    /\ s.do = "unlink" => NoLedger(e)
    /\ s.do \in {"begin", "publish", "block", "commit", "stage", "receipt", "headGroup",
                 "headReady"} => e.state = c.state
    /\ s.do \notin {"unlink", "finalize"} => e.complete = c.complete
    /\ s.do \notin {"unlink", "commit"} =>
        /\ e.done = c.done /\ e.journal = c.journal
        /\ e.condition = c.condition /\ e.backward = c.backward
    /\ s.do \notin {"unlink", "allocate"} => e.there = c.there
    /\ s.do = "allocate" => e.there = TRUE
    /\ s.do = "initialise" => e.state = "stamped"
    /\ s.do = "commit" =>
        /\ e.done = c.done \cup s.arg /\ e.journal = c.journal \cup s.arg
        /\ e.condition = c.condition \cup s.arg /\ e.backward = c.backward \cup s.arg
    /\ s.do = "block" => e.poles = [c.poles EXCEPT ![s.arg] = @ + 1]
    /\ s.do \notin {"unlink", "block"} => e.poles = c.poles
    /\ s.do \notin {"unlink", "stage", "receipt"} => e.receipt = c.receipt
    /\ s.do = "receipt" => e.receipt = "ready"
    /\ s.do \notin {"unlink", "headGroup", "headReady"} => e.head = c.head
    /\ s.do = "headGroup" => e.head = "unready"
    /\ s.do = "headReady" => e.head = "ready"
    /\ s.do = "publish" /\ c.head = "unready" => e.headData = TRUE
    /\ s.do \notin {"unlink", "publish", "headGroup"} => e.headData = c.headData

\* A whole write of a step leaves the sample store as SampleWritten says.
LEMMA SampleIsWritten ==
    ASSUME NEW c \in SampleType, NEW s, SampleMay(s, c)
    PROVE  SampleWritten(s, c, Over(c, s, DOMAIN Mpa!Changes(s, c)))
<1> DEFINE n == Mpa!Changes(s, c)
           e == Over(c, s, DOMAIN n)
<1>1. /\ e.comps = IF "comps" \in DOMAIN n THEN n.comps ELSE c.comps
      /\ e.slabs = IF "slabs" \in DOMAIN n THEN n.slabs ELSE c.slabs
      /\ e.ready = IF "ready" \in DOMAIN n THEN n.ready ELSE c.ready
  BY OverSample
<1>2. /\ s.do \in {"begin", "check", "publish"} => DOMAIN n \subseteq {"committed"}
      /\ s.do = "create" =>
           /\ DOMAIN n = {"there", "sound", "comps", "committed"}
           /\ n.comps = [c.comps EXCEPT ![s.arg] = "bare"]
      /\ s.do = "stamp" =>
           DOMAIN n = {"comps"} /\ n.comps = [c.comps EXCEPT ![s.arg] = "stamped"]
      /\ s.do = "slab" => DOMAIN n = {"slabs"} /\ n.slabs = [c.slabs EXCEPT ![s.arg] = @ + 1]
      /\ s.do = "mark" => DOMAIN n = {"ready"} /\ n.ready = c.ready \cup {s.arg}
  BY DEF Mpa!Changes, Mpa!Published, Mpa!Marked, SampleMay
<1> HIDE DEF n
<1> SUFFICES SampleWritten(s, c, e)
  BY DEF n
<1> HIDE DEF e
<1> QED
  BY <1>1, <1>2 DEF SampleWritten

\* A whole write of a step leaves the fit store as FitWritten says.
LEMMA FitIsWritten ==
    ASSUME NEW c \in FitType, NEW s, FitMay(s, c)
    PROVE  FitWritten(s, c, Over(c, s, DOMAIN Mpa!Changes(s, c)))
<1> DEFINE n == Mpa!Changes(s, c)
           e == Over(c, s, DOMAIN n)
<1>1. /\ e.there = IF "there" \in DOMAIN n THEN n.there ELSE c.there
      /\ e.state = IF "state" \in DOMAIN n THEN n.state ELSE c.state
      /\ e.poles = IF "poles" \in DOMAIN n THEN n.poles ELSE c.poles
      /\ e.done = IF "done" \in DOMAIN n THEN n.done ELSE c.done
      /\ e.journal = IF "journal" \in DOMAIN n THEN n.journal ELSE c.journal
      /\ e.condition = IF "condition" \in DOMAIN n THEN n.condition ELSE c.condition
      /\ e.backward = IF "backward" \in DOMAIN n THEN n.backward ELSE c.backward
      /\ e.head = IF "head" \in DOMAIN n THEN n.head ELSE c.head
      /\ e.headData = IF "headData" \in DOMAIN n THEN n.headData ELSE c.headData
      /\ e.receipt = IF "receipt" \in DOMAIN n THEN n.receipt ELSE c.receipt
      /\ e.complete = IF "complete" \in DOMAIN n THEN n.complete ELSE c.complete
  BY OverFit
<1>2. s.do = "unlink" =>
        /\ {"done", "journal", "condition", "backward", "complete"} \subseteq DOMAIN n
        /\ n.done = {} /\ n.journal = {} /\ n.condition = {} /\ n.backward = {}
        /\ n.complete = FALSE
  BY DEF Mpa!Changes, Mpa!NoFile, Mpa!NoFit, FitMay
<1>3. /\ s.do = "begin" => DOMAIN n \subseteq {"committed"}
      /\ s.do = "publish" => DOMAIN n \subseteq {"committed", "headData"}
      /\ s.do = "publish" /\ c.head = "unready" => "headData" \in DOMAIN n /\ n.headData = TRUE
  BY DEF Mpa!Changes, Mpa!Published, FitMay
<1>4. /\ s.do = "allocate" => DOMAIN n = {"there", "state", "committed"} /\ n.there = TRUE
      /\ s.do = "initialise" => DOMAIN n = {"state"} /\ n.state = "stamped"
      /\ s.do = "block" => DOMAIN n = {"poles"} /\ n.poles = [c.poles EXCEPT ![s.arg] = @ + 1]
      /\ s.do = "stage" => DOMAIN n = {"receipt"}
      /\ s.do = "receipt" => DOMAIN n = {"receipt"} /\ n.receipt = "ready"
      /\ s.do = "headGroup" => DOMAIN n = {"head", "headData"} /\ n.head = "unready"
      /\ s.do = "headReady" => DOMAIN n = {"head"} /\ n.head = "ready"
      /\ s.do = "finalize" => DOMAIN n = {"complete", "certified"}
  BY DEF Mpa!Changes, Mpa!Staged, Mpa!Finalized
<1>5. s.do = "commit" =>
        /\ DOMAIN n = {"done", "journal", "condition", "backward"}
        /\ n.done = c.done \cup s.arg /\ n.journal = c.journal \cup s.arg
        /\ n.condition = c.condition \cup s.arg /\ n.backward = c.backward \cup s.arg
  BY DEF Mpa!Changes, Mpa!Committed
<1> HIDE DEF n
<1> SUFFICES FitWritten(s, c, e)
  BY DEF n
<1> HIDE DEF e
<1>6. CASE s.do = "unlink"
  BY <1>1, <1>2, <1>6 DEF FitWritten, NoLedger
<1>7. CASE s.do \in {"begin", "publish"}
  BY <1>1, <1>3, <1>7 DEF FitWritten
<1>8. CASE s.do = "commit"
  BY <1>1, <1>5, <1>8 DEF FitWritten
<1>9. CASE s.do \in {"allocate", "initialise", "block", "stage", "receipt", "headGroup",
                     "headReady", "finalize"}
  BY <1>1, <1>4, <1>9 DEF FitWritten
<1> QED
  BY <1>6, <1>7, <1>8, <1>9 DEF FitMay

-----------------------------------------------------------------------------
(* MpaStore: what rank 0 knows goes on *)

\* A step of w on the files d leaves the files e.
Goes(w, d, e) ==
    LET s == Doing(w) IN
    /\ s.op \notin {"raise", "return"}
    /\ s.op \in {"root", "put"} =>
         \/ SampleMay(s, d.sample) /\ SampleWritten(s, d.sample, e.sample) /\ e.fit = d.fit
         \/ FitMay(s, d.fit) /\ FitWritten(s, d.fit, e.fit) /\ e.sample = d.sample
    /\ s.op \notin {"root", "put"} => e = d
    /\ s.op = "read" => ~Mpa!Refuses(s, d[s.file])

\* Where nothing is claimed.
LEMMA NoFacts ==
    ASSUME NEW w, NEW c
    PROVE  /\ w.part \notin {"allocate", "headers", "check", "write"} => SampleFacts(w, c)
           /\ w.part \in {"start", "allocate", "headers", "check", "write", "validate", "end"} =>
                FitFacts(w, c)
  BY DEF SampleFacts, FitFacts

\* What a read lets through.
LEMMA ReadIs ==
    ASSUME NEW s, NEW c, ~Mpa!Refuses(s, c)
    PROVE  /\ s.do = "prepare" => overwrite \/ ~Mpa!Incompatible(c)
           /\ s.do = "unready" => s.arg \notin c.ready
           /\ s.do = "load" => s.arg \in c.ready
           /\ s.do = "validate" => overwrite \/ ~c.there \/ Mpa!Usable(c)
           /\ s.do = "head" => ~c.complete /\ c.done = 1..Blocks
  BY DEF Mpa!Refuses

\* The samples: what the walk of the sample store relies on.
LEMMA StartGoesOn ==
    ASSUME NEW w, MpaPlaceOK(w), w.part = "start", NEW d, DiskOK(d), NEW e, Goes(w, d, e)
    PROVE  LET v == Mpa!Onward(w, d) IN SampleFacts(v, e.sample) /\ FitFacts(v, e.fit)
<1> DEFINE v == Mpa!Onward(w, d)
           c == d.sample
           p == Mpa!Prepare(c)
<1>1. w.at \in 1..2 /\ MpaSize(w) = 2
  BY SizeIs DEF MpaSize
<1>2. /\ Doing(w).op = "read"
      /\ w.at = 2 => Doing(w).do = "prepare" /\ Doing(w).file = "sample"
  BY <1>1, StepsAre DEF StepIs, AtRead, AtRoot, AtOpen, AtPut, AtClose, AtMeet
<1>3. e = d
  BY <1>2 DEF Goes
<1>4. CASE w.at = 1
  <2>1. v.part = "start"
    BY <1>1, <1>4, OnwardIs
  <2> HIDE DEF v
  <2> QED
    BY <2>1, NoFacts DEF v
<1>5. CASE w.at = 2
  <2>1. v = Mpa!Allocating(p)
    <3>1. v = Mpa!After(w, d)
      BY <1>1, <1>5, OnwardIs
    <3> QED
      BY <3>1 DEF Mpa!After
  <2>2. overwrite \/ ~Mpa!Incompatible(c)
    BY <1>2, <1>5, ReadIs DEF Goes
  <2>3. /\ DOMAIN c.comps = {"chi", "wc"} /\ c.there \in BOOLEAN
        /\ c.ready # {} => c.comps["chi"] # "none"
        /\ c.comps["chi"] # "none" => c.there
    BY DEF DiskOK, SampleOK, SampleType
  <2>4. /\ ~overwrite /\ "new" \in p => c.ready = {}
        /\ "chi" \notin p => c.comps["chi"] # "none"
    BY <2>2, <2>3 DEF Mpa!Prepare
  <2> HIDE DEF p, c
  <2>5. \/ p = {} /\ v.part = "headers"
        \/ v.part = "allocate" /\ v.left = p /\ v.at = 1
    BY <2>1 DEF Mpa!Allocating, Mpa!Place
  <2> HIDE DEF v
  <2>6. SampleFacts(v, c)
    BY <2>4, <2>5 DEF SampleFacts
  <2> QED
    BY <1>3, <2>5, <2>6, NoFacts DEF v, c
<1> QED
  BY <1>1, <1>4, <1>5

\* The same of a component that is created: rank 0 stamps it at the end.
LEMMA AllocateGoesOn ==
    ASSUME NEW w, MpaPlaceOK(w), w.part = "allocate", NEW d, DiskOK(d), NEW e, Goes(w, d, e),
           SampleFacts(w, d.sample)
    PROVE  LET v == Mpa!Onward(w, d) IN SampleFacts(v, e.sample) /\ FitFacts(v, e.fit)
<1> DEFINE v == Mpa!Onward(w, d)
           k == Mpa!Comp(w.left)
<1>1. w.at \in 1..8 /\ MpaSize(w) = 8
  BY SizeIs DEF MpaSize
<1>2. "new" \in w.left => "chi" \in w.left
  BY DEF MpaPlaceOK, Lefts
<1>3. k = IF "chi" \in w.left THEN "chi" ELSE "wc"
  BY DEF Mpa!Comp
<1> HIDE DEF k
<1>4. /\ w.at \notin {2, 4, 6, 8} => e = d
      /\ w.at \in {2, 6} => Doing(w).op = "root" /\ Doing(w).file = "sample"
                            /\ Doing(w).do \in {"unlink", "begin", "publish"}
                            /\ (Doing(w).do = "unlink" => w.at = 2 /\ "new" \in w.left)
      /\ w.at = 4 => Doing(w).op = "put" /\ Doing(w).file = "sample" /\ Doing(w).do = "create" /\ Doing(w).arg = k
      /\ w.at = 8 => Doing(w).op = "root" /\ Doing(w).file = "sample" /\ Doing(w).do = "stamp" /\ Doing(w).arg = k
  BY <1>1, StepsAre DEF StepIs, AtRead, AtRoot, AtOpen, AtPut, AtClose, AtMeet, Goes, k
<1>5. d.sample.comps \in [{"chi", "wc"} -> {"none", "bare", "stamped"}]
  BY DEF DiskOK, SampleOK, SampleType
<1>6. /\ w.at \notin {4, 8} /\ (w.at = 2 => "new" \notin w.left) => e.sample.comps["chi"] = d.sample.comps["chi"]
      /\ w.at \in {4, 8} => e.sample.comps["chi"] = IF k = "chi"
                                                     THEN IF w.at = 4 THEN "bare" ELSE "stamped"
                                                     ELSE d.sample.comps["chi"]
      /\ w.at = 1 => e = d
  BY <1>4, <1>5 DEF Goes, SampleMay, FitMay, SampleWritten
<1>7. CASE w.at < 8
  <2>1. v.part = "allocate" /\ v.left = w.left /\ v.at = w.at + 1
    BY <1>1, <1>7, OnwardIs
  <2> HIDE DEF v
  <2>2. SampleFacts(v, e.sample)
    BY <1>1, <1>2, <1>3, <1>6, <1>7, <2>1 DEF SampleFacts
  <2> QED
    BY <2>1, <2>2, NoFacts DEF v
<1>8. CASE w.at = 8
  <2>1. v = Mpa!Allocating(w.left \ {k, "new"})
    <3>1. v = Mpa!After(w, d)
      BY <1>1, <1>8, OnwardIs
    <3> QED
      BY <3>1 DEF Mpa!After, k
  <2>2. \/ v.part = "headers"
        \/ v.part = "allocate" /\ v.left = w.left \ {k, "new"} /\ v.at = 1
    BY <2>1 DEF Mpa!Allocating, Mpa!Place
  <2> HIDE DEF v
  <2>3. e.sample.comps["chi"] # "none"
    BY <1>3, <1>6, <1>8 DEF SampleFacts
  <2>4. SampleFacts(v, e.sample)
    BY <1>3, <2>2, <2>3 DEF SampleFacts
  <2> QED
    BY <2>2, <2>4, NoFacts DEF v
<1> QED
  BY <1>1, <1>7, <1>8

\* The same of the reading of the headers, which decides what slabs are left.
LEMMA HeadersGoOn ==
    ASSUME NEW w, MpaPlaceOK(w), w.part = "headers", NEW d, DiskOK(d), NEW e, Goes(w, d, e),
           SampleFacts(w, d.sample)
    PROVE  LET v == Mpa!Onward(w, d) IN SampleFacts(v, e.sample) /\ FitFacts(v, e.fit)
<1> DEFINE v == Mpa!Onward(w, d)
<1>1. w.at \in 1..2 /\ MpaSize(w) = 2
  BY SizeIs DEF MpaSize
<1>2. e = d /\ d.sample.comps["chi"] # "none"
  BY <1>1, StepsAre DEF StepIs, AtRead, AtRoot, AtOpen, AtPut, AtClose, AtMeet, Goes, SampleFacts
<1>3. \/ v.part \in {"headers", "validate"}
      \/ v.part = "check" /\ v.at = 1
  <2>1. CASE w.at = 1
    BY <1>1, <2>1, OnwardIs
  <2>2. CASE w.at = 2
    <3>1. v = Mpa!After(w, d)
      BY <1>1, <2>2, OnwardIs
    <3>2. v = Mpa!Sampling(Mpa!Slabs \ d.sample.ready)
      BY <3>1 DEF Mpa!After
    <3> QED
      BY <3>2 DEF Mpa!Sampling, Mpa!Place
  <2> QED
    BY <1>1, <2>1, <2>2
<1> HIDE DEF v
<1>4. SampleFacts(v, e.sample)
  BY <1>2, <1>3 DEF SampleFacts
<1> QED
  BY <1>3, <1>4, NoFacts DEF v

\* The same of the check of a slab: it is not yet ready, and its chi is.
LEMMA CheckGoesOn ==
    ASSUME NEW w, MpaPlaceOK(w), w.part = "check", NEW d, DiskOK(d), NEW e, Goes(w, d, e),
           SampleFacts(w, d.sample)
    PROVE  LET v == Mpa!Onward(w, d) IN SampleFacts(v, e.sample) /\ FitFacts(v, e.fit)
<1> DEFINE v == Mpa!Onward(w, d)
           x == Mpa!Slab(w.left)
<1>1. w.left \in SUBSET Mpa!Slabs /\ w.left # {}
  BY DEF MpaPlaceOK
<1>2. x \in Mpa!Slabs /\ x[1] \in {"chi", "wc"}
  BY <1>1, SlabIs
<1>3. w.at \in 1..MpaSize(w) /\ MpaSize(w) = IF x[1] = "chi" THEN 2 ELSE 6
  BY SizeIs DEF MpaSize
<1>4. \/ Doing(w).op \in {"meet", "open", "close"} /\ w.at # 2 /\ w.at # MpaSize(w)
      \/ /\ Doing(w).op = "read" /\ Doing(w).file = "sample" /\ Doing(w).do = "load"
         /\ w.at = 2 /\ x[1] = "wc" /\ Doing(w).arg = ChiOf(x)
      \/ /\ Doing(w).op = "root" /\ Doing(w).file = "sample" /\ Doing(w).do = "check" /\ w.at = 3
         /\ x[1] = "wc"
      \/ /\ Doing(w).op = "read" /\ Doing(w).file = "sample" /\ Doing(w).do = "unready"
         /\ w.at = MpaSize(w) /\ Doing(w).arg = x
  <2>1. StepIs(w)
    BY StepsAre
  <2> HIDE DEF x
  <2>2. AtOpen(w) => w.at = 4 /\ x[1] = "wc"
    BY <1>2 DEF AtOpen, x
  <2>3. AtClose(w) => w.at = 5 /\ x[1] = "wc"
    BY <1>2 DEF AtClose, x
  <2>4. AtMeet(w) => w.at = 1
    BY DEF AtMeet
  <2>5. ~AtPut(w) /\ Doing(w).op # "raise" /\ Doing(w).op # "return"
    BY <2>1 DEF AtPut, StepIs
  <2>6. AtRead(w) => /\ Doing(w).file = "sample"
                     /\ \/ Doing(w).do = "load" /\ w.at = 2 /\ x[1] = "wc" /\ Doing(w).arg = ChiOf(x)
                        \/ Doing(w).do = "unready" /\ w.at = MpaSize(w) /\ Doing(w).arg = x
    BY <1>2 DEF AtRead, x
  <2>7. AtRoot(w) => Doing(w).file = "sample" /\ Doing(w).do = "check" /\ w.at = 3 /\ x[1] = "wc"
    BY <1>2 DEF AtRoot, x
  <2> QED
    BY <1>3, <2>1, <2>2, <2>3, <2>4, <2>5, <2>6, <2>7 DEF StepIs
<1> HIDE DEF x
<1>5. /\ e.sample.comps = d.sample.comps /\ e.sample.ready = d.sample.ready
      /\ w.at = 2 /\ x[1] = "wc" => ChiOf(x) \in d.sample.ready
      /\ w.at = MpaSize(w) => x \notin d.sample.ready
  BY <1>3, <1>4, ReadIs DEF Goes, SampleMay, FitMay, SampleWritten
<1>6. /\ d.sample.comps["chi"] # "none"
      /\ w.at >= 3 => ChiOf(x) \in d.sample.ready
  BY DEF SampleFacts, x
<1>7. CASE w.at < MpaSize(w)
  <2>1. v.part = "check" /\ v.left = w.left /\ v.at = w.at + 1
    BY <1>7, OnwardIs
  <2> HIDE DEF v
  <2>2. v.at >= 3 => ChiOf(x) \in e.sample.ready
    BY <1>2, <1>3, <1>5, <1>6, <1>7, <2>1
  <2>3. SampleFacts(v, e.sample)
    BY <1>5, <1>6, <2>1, <2>2 DEF SampleFacts, x
  <2> QED
    BY <2>1, <2>3, NoFacts DEF v
<1>8. CASE w.at = MpaSize(w)
  <2>1. v = Mpa!Place("write", w.left, {})
    <3>1. v = Mpa!After(w, d)
      BY <1>3, <1>8, OnwardIs
    <3> QED
      BY <3>1 DEF Mpa!After
  <2>2. v.part = "write" /\ v.left = w.left /\ v.at = 1
    BY <2>1 DEF Mpa!Place
  <2> HIDE DEF v
  <2>3. x \notin e.sample.ready /\ (x[1] = "wc" => ChiOf(x) \in e.sample.ready)
    BY <1>3, <1>5, <1>6, <1>8
  <2>4. SampleFacts(v, e.sample)
    BY <1>5, <1>6, <2>2, <2>3 DEF SampleFacts, x
  <2> QED
    BY <2>2, <2>4, NoFacts DEF v
<1> QED
  BY <1>3, <1>7, <1>8

\* The same of the writing of a slab: transferred first, marked then.
LEMMA WriteGoesOn ==
    ASSUME NEW w, MpaPlaceOK(w), w.part = "write", NEW d, DiskOK(d), NEW e, Goes(w, d, e),
           SampleFacts(w, d.sample)
    PROVE  LET v == Mpa!Onward(w, d) IN SampleFacts(v, e.sample) /\ FitFacts(v, e.fit)
<1> DEFINE v == Mpa!Onward(w, d)
           x == Mpa!Slab(w.left)
<1>1. w.left \in SUBSET Mpa!Slabs /\ w.left # {}
  BY DEF MpaPlaceOK
<1>2. x \in Mpa!Slabs
  BY <1>1, SlabIs
<1>3. w.at \in 1..9 /\ MpaSize(w) = 9
  BY SizeIs DEF MpaSize
<1>4. /\ w.at \notin {2, 4, 6, 9} => e = d
      /\ w.at \in {2, 6, 9} => Doing(w).op = "root" /\ Doing(w).file = "sample"
                               /\ Doing(w).do \in {"begin", "publish", "mark"}
                               /\ (Doing(w).do = "mark" => w.at = 9)
      /\ w.at = 4 => Doing(w).op = "put" /\ Doing(w).file = "sample" /\ Doing(w).do = "slab" /\ Doing(w).arg = x
  BY <1>3, StepsAre DEF StepIs, AtRead, AtRoot, AtOpen, AtPut, AtClose, AtMeet, Goes, x
<1> HIDE DEF x
<1>5. d.sample.slabs \in [Mpa!Slabs -> Nat]
  BY DEF DiskOK, SampleOK, SampleType
<1>6. /\ e.sample.comps = d.sample.comps
      /\ w.at # 9 => e.sample.ready = d.sample.ready
      /\ w.at # 4 => e.sample.slabs = d.sample.slabs
      /\ w.at = 4 => e.sample.slabs[x] > 0
  <2>1. w.at = 4 => e.sample.slabs = [d.sample.slabs EXCEPT ![x] = @ + 1]
    BY <1>4 DEF Goes, SampleMay, FitMay, SampleWritten
  <2>2. w.at = 4 => e.sample.slabs[x] > 0
    BY <1>2, <1>5, <2>1
  <2> QED
    BY <1>4, <2>2 DEF Goes, SampleMay, FitMay, SampleWritten
<1>7. /\ d.sample.comps["chi"] # "none" /\ x \notin d.sample.ready
      /\ x[1] = "wc" => ChiOf(x) \in d.sample.ready
      /\ w.at >= 5 => d.sample.slabs[x] > 0
  BY DEF SampleFacts, x
<1>8. CASE w.at < 9
  <2>1. v.part = "write" /\ v.left = w.left /\ v.at = w.at + 1
    BY <1>3, <1>8, OnwardIs
  <2> HIDE DEF v
  <2>2. v.at >= 5 => e.sample.slabs[x] > 0
    BY <1>3, <1>6, <1>7, <2>1
  <2>3. SampleFacts(v, e.sample)
    BY <1>6, <1>7, <1>8, <2>1, <2>2 DEF SampleFacts, x
  <2> QED
    BY <2>1, <2>3, NoFacts DEF v
<1>9. CASE w.at = 9
  <2>1. v = Mpa!Sampling(w.left \ {x})
    <3>1. v = Mpa!After(w, d)
      BY <1>3, <1>9, OnwardIs
    <3> QED
      BY <3>1 DEF Mpa!After, x
  <2>2. \/ v.part = "validate"
        \/ v.part = "check" /\ v.at = 1
    BY <2>1 DEF Mpa!Sampling, Mpa!Place
  <2> HIDE DEF v
  <2>3. SampleFacts(v, e.sample)
    BY <1>6, <1>7, <2>2 DEF SampleFacts
  <2> QED
    BY <2>2, <2>3, NoFacts DEF v
<1> QED
  BY <1>3, <1>8, <1>9

\* A ledger whose parts are a chain and have one length is the same in every part.
LEMMA UsableIsClean ==
    ASSUME NEW c, FitOK(c), Mpa!Usable(c)
    PROVE  Clean(c)
<1>1. \A set : Mpa!Cardinality(set) = Cardinality(set)
  BY Zenon DEF Cardinality, Mpa!Cardinality
<1>2. /\ c.done \in SUBSET (1..Blocks) /\ c.journal \in SUBSET (1..Blocks)
      /\ c.condition \in SUBSET (1..Blocks) /\ c.backward \in SUBSET (1..Blocks)
  BY DEF FitOK, FitType
<1>3. ASSUME NEW a \in SUBSET (1..Blocks), NEW b \in SUBSET (1..Blocks),
             a \subseteq b \/ b \subseteq a, Cardinality(a) = Cardinality(b)
      PROVE  a = b
  <2>1. IsFiniteSet(a) /\ IsFiniteSet(b)
    <3>1. IsFiniteSet(1..Blocks)
      BY FS_Interval
    <3> QED
      BY <3>1, FS_Subset
  <2> QED
    BY <1>3, <2>1, FS_Subset
<1>4. /\ Cardinality(c.condition) = Cardinality(c.journal)
      /\ Cardinality(c.backward) = Cardinality(c.journal)
      /\ c.state = "stamped" /\ ~c.complete /\ c.done = c.journal
  BY <1>1 DEF Mpa!Usable
<1>5. /\ c.condition \subseteq c.journal \/ c.journal \subseteq c.condition
      /\ c.backward \subseteq c.journal \/ c.journal \subseteq c.backward
  BY DEF FitOK, Chain
<1>6. c.condition = c.journal /\ c.backward = c.journal
  BY <1>2, <1>3, <1>4, <1>5
<1> QED
  BY <1>4, <1>6 DEF Clean

\* What a joint step or a read leaves of the files: all of them.
LEMMA OnlyWrites ==
    ASSUME NEW w, NEW d, NEW e, Goes(w, d, e), Doing(w).op \notin {"root", "put"}
    PROVE  e = d /\ (Doing(w).op = "read" => ~Mpa!Refuses(Doing(w), d[Doing(w).file]))
  BY DEF Goes

\* A write of the fit store leaves what FitWritten says.
LEMMA OnlyFit ==
    ASSUME NEW w, NEW d, NEW e, Goes(w, d, e), Doing(w).op \in {"root", "put"},
           Doing(w).file = "fit"
    PROVE  FitWritten(Doing(w), d.fit, e.fit)
  BY DEF Goes, SampleMay

\* The same of the reading of the fit store, which a build resumes or allocates anew.
LEMMA ValidateGoesOn ==
    ASSUME NEW w, MpaPlaceOK(w), w.part = "validate", NEW d, DiskOK(d), NEW e, Goes(w, d, e)
    PROVE  LET v == Mpa!Onward(w, d) IN SampleFacts(v, e.sample) /\ FitFacts(v, e.fit)
<1> DEFINE v == Mpa!Onward(w, d)
           c == d.fit
<1>1. w.at \in 1..2 /\ MpaSize(w) = 2
  BY SizeIs DEF MpaSize
<1>2. /\ Doing(w).op \notin {"root", "put"}
      /\ w.at = 2 => Doing(w).op = "read" /\ Doing(w).do = "validate" /\ Doing(w).file = "fit"
  BY <1>1, StepsAre DEF StepIs, AtRead, AtRoot, AtOpen, AtPut, AtClose, AtMeet
<1>3. e = d
  BY <1>2, OnlyWrites
<1>4. CASE w.at = 1
  <2>1. v.part = "validate"
    BY <1>1, <1>4, OnwardIs
  <2> HIDE DEF v
  <2> QED
    BY <2>1, NoFacts DEF v
<1>5. CASE w.at = 2
  <2>1. overwrite \/ ~c.there \/ Mpa!Usable(c)
    BY <1>2, <1>5, OnlyWrites, ReadIs
  <2>2. v = IF Mpa!Usable(c) THEN Mpa!Place("resume", Mpa!Pending(c.done), {})
            ELSE Mpa!Place("allocateFit", {}, {})
    <3>1. v = Mpa!After(w, d)
      BY <1>1, <1>5, OnwardIs
    <3> QED
      BY <3>1 DEF Mpa!After
  <2>3. CASE Mpa!Usable(c)
    <3>1. v.part = "resume" /\ v.left = (1..Blocks) \ c.done
      BY <2>2, <2>3 DEF Mpa!Place, Mpa!Pending
    <3>2. Clean(c)
      BY <2>3, UsableIsClean DEF DiskOK
    <3> HIDE DEF v
    <3>3. FitFacts(v, c)
      BY <3>1, <3>2 DEF FitFacts
    <3> QED
      BY <1>3, <3>1, <3>3, NoFacts DEF v
  <2>4. CASE ~Mpa!Usable(c)
    <3>1. v.part = "allocateFit" /\ v.at = 1
      BY <2>2, <2>4 DEF Mpa!Place
    <3>2. ~overwrite => NoLedger(c)
      BY <2>1, <2>4 DEF DiskOK, FitOK
    <3> HIDE DEF v
    <3>3. FitFacts(v, c)
      BY <3>1, <3>2 DEF FitFacts
    <3> QED
      BY <1>3, <3>1, <3>3, NoFacts DEF v
  <2> QED
    BY <2>3, <2>4
<1> QED
  BY <1>1, <1>4, <1>5

\* What a walk of the blocks relies on is what its first epoch relies on.
LEMMA FittingGoesOn ==
    ASSUME NEW left, NEW c, Clean(c), left \cap c.done = {}
    PROVE  LET v == Mpa!Fitting(left) IN
           v.part \in {"body", "epoch"} /\ FitFacts(v, c)
<1> DEFINE v == Mpa!Fitting(left)
<1>1. \/ v.part = "body" /\ v.at = 1
      \/ v.part = "epoch" /\ v.left = left
  BY DEF Mpa!Fitting, Mpa!Place
<1> HIDE DEF v
<1>2. FitFacts(v, c)
  BY <1>1 DEF FitFacts
<1> QED
  BY <1>1, <1>2 DEF v

\* The same of a resumed fit, which has the blocks the ledger lacks before it.
LEMMA ResumeGoesOn ==
    ASSUME NEW w, MpaPlaceOK(w), w.part = "resume", NEW d, NEW e, Goes(w, d, e),
           FitFacts(w, d.fit)
    PROVE  LET v == Mpa!Onward(w, d) IN SampleFacts(v, e.sample) /\ FitFacts(v, e.fit)
<1> DEFINE v == Mpa!Onward(w, d)
<1>1. w.at = 1 /\ MpaSize(w) = 1
  BY SizeIs DEF MpaSize
<1>2. Doing(w).op \notin {"root", "put"}
  BY StepsAre DEF StepIs, AtRead, AtRoot, AtOpen, AtPut, AtClose, AtMeet
<1>3. v = Mpa!Fitting(w.left)
  <2>1. v = Mpa!After(w, d)
    BY <1>1, OnwardIs
  <2> QED
    BY <2>1 DEF Mpa!After
<1>4. Clean(d.fit) /\ w.left \cap d.fit.done = {}
  BY DEF FitFacts
<1>5. v.part \in {"body", "epoch"} /\ FitFacts(v, d.fit)
  BY <1>3, <1>4, FittingGoesOn
<1> HIDE DEF v
<1> QED
  BY <1>2, <1>5, OnlyWrites, NoFacts DEF v

\* The same of a new fit store: empty, then stamped.
LEMMA AllocateFitGoesOn ==
    ASSUME NEW w, MpaPlaceOK(w), w.part = "allocateFit", NEW d, NEW e, Goes(w, d, e),
           FitFacts(w, d.fit)
    PROVE  LET v == Mpa!Onward(w, d) IN SampleFacts(v, e.sample) /\ FitFacts(v, e.fit)
<1> DEFINE v == Mpa!Onward(w, d)
<1>1. w.at \in 1..11 /\ MpaSize(w) = 11
  BY SizeIs DEF MpaSize
<1>2. /\ w.at \notin {2, 4, 6, 9} => Doing(w).op \notin {"root", "put"}
      /\ w.at \in {2, 4, 6, 9} => Doing(w).op \in {"root", "put"} /\ Doing(w).file = "fit"
      /\ w.at = 2 => Doing(w).do = "unlink"
      /\ w.at = 4 => Doing(w).do = "allocate"
      /\ w.at = 6 => Doing(w).do = "publish"
      /\ w.at = 9 => Doing(w).do = "initialise"
  BY <1>1, StepsAre DEF StepIs, AtRead, AtRoot, AtOpen, AtPut, AtClose, AtMeet
<1>3. w.at \notin {2, 4, 6, 9} => e = d
  BY <1>2, OnlyWrites
<1>4. w.at \in {2, 4, 6, 9} => FitWritten(Doing(w), d.fit, e.fit)
  BY <1>2, OnlyFit
<1>5. /\ w.at = 2 => NoLedger(e.fit)
      /\ w.at # 2 /\ NoLedger(d.fit) => NoLedger(e.fit)
      /\ w.at = 4 \/ (w.at >= 5 /\ d.fit.there) => e.fit.there
      /\ w.at = 9 => e.fit.state = "stamped"
      /\ w.at >= 10 => e.fit.state = d.fit.state
  <2>1. w.at = 2 => NoLedger(e.fit)
    BY <1>2, <1>4 DEF FitWritten
  <2>2. w.at # 2 /\ NoLedger(d.fit) => NoLedger(e.fit)
    BY <1>2, <1>3, <1>4 DEF FitWritten, NoLedger
  <2>3. w.at = 9 => e.fit.state = "stamped"
    BY <1>2, <1>4 DEF FitWritten
  <2>4. w.at = 4 \/ (w.at >= 5 /\ d.fit.there) => e.fit.there
    <3>1. w.at = 4 => e.fit.there
      BY <1>2, <1>4 DEF FitWritten
    <3>2. w.at \in {6, 9} => e.fit.there = d.fit.there
      BY <1>2, <1>4 DEF FitWritten
    <3> QED
      BY <1>1, <1>3, <3>1, <3>2
  <2> QED
    BY <1>3, <2>1, <2>2, <2>3, <2>4
<1>6. /\ w.at >= 3 \/ ~overwrite => NoLedger(d.fit)
      /\ w.at >= 5 => d.fit.there
      /\ w.at >= 10 => d.fit.state = "stamped"
  BY DEF FitFacts
<1>7. CASE w.at < 11
  <2>1. v.part = "allocateFit" /\ v.at = w.at + 1
    BY <1>1, <1>7, OnwardIs
  <2> HIDE DEF v
  <2>2. FitFacts(v, e.fit)
    BY <1>1, <1>5, <1>6, <1>7, <2>1 DEF FitFacts
  <2> QED
    BY <2>1, <2>2, NoFacts DEF v
<1>8. CASE w.at = 11
  <2>1. v = Mpa!Fitting(Mpa!Pending(d.fit.done))
    <3>1. v = Mpa!After(w, d)
      BY <1>1, <1>8, OnwardIs
    <3> QED
      BY <3>1 DEF Mpa!After
  <2>2. Clean(d.fit) /\ Mpa!Pending(d.fit.done) \cap d.fit.done = {}
    <3>1. NoLedger(d.fit) /\ d.fit.state = "stamped"
      BY <1>6, <1>8
    <3>2. Clean(d.fit)
      BY ONLY <3>1 DEF Clean, NoLedger
    <3> QED
      BY <3>2 DEF Mpa!Pending
  <2>3. v.part \in {"body", "epoch"} /\ FitFacts(v, d.fit)
    BY <2>1, <2>2, FittingGoesOn
  <2> HIDE DEF v
  <2> QED
    BY <1>3, <1>8, <2>3, NoFacts DEF v
<1> QED
  BY <1>1, <1>7, <1>8

\* What an open epoch relies on is what its next block, or its end, relies on.
LEMMA PuttingGoesOn ==
    ASSUME NEW left, NEW put, NEW c, Clean(c), left \cap c.done = {},
           \A b \in Mpa!Whole(Mpa!Few(left)) \ put : c.poles[b] > 0
    PROVE  LET v == Mpa!Putting(left, put) IN
           v.part \in {"block", "commit", "abort"} /\ FitFacts(v, c)
<1> DEFINE v == Mpa!Putting(left, put)
<1>1. \/ v.part = "block" /\ v.left = left /\ v.put = put
      \/ /\ v.part = "commit" /\ v.left = left /\ v.at = 1 /\ put = {}
         /\ Mpa!Whole(Mpa!Few(left)) = Mpa!Few(left)
      \/ v.part = "abort" /\ v.left = left
  BY DEF Mpa!Putting, Mpa!Place
<1> HIDE DEF v
<1>2. FitFacts(v, c)
  BY <1>1 DEF FitFacts
<1> QED
  BY <1>1, <1>2 DEF v

\* The same of the start of an epoch.
LEMMA EpochGoesOn ==
    ASSUME NEW w, MpaPlaceOK(w), w.part = "epoch", NEW d, NEW e, Goes(w, d, e),
           FitFacts(w, d.fit)
    PROVE  LET v == Mpa!Onward(w, d) IN SampleFacts(v, e.sample) /\ FitFacts(v, e.fit)
<1> DEFINE v == Mpa!Onward(w, d)
<1>1. w.at \in 1..7 /\ MpaSize(w) = 7
  BY SizeIs DEF MpaSize
<1>2. /\ w.at \notin {4, 6} => Doing(w).op \notin {"root", "put"}
      /\ w.at = 4 => Doing(w).op = "root" /\ Doing(w).do = "begin" /\ Doing(w).file = "fit"
      /\ w.at = 6 => Doing(w).op = "root" /\ Doing(w).do = "check" /\ Doing(w).file = "sample"
  BY <1>1, StepsAre DEF StepIs, AtRead, AtRoot, AtOpen, AtPut, AtClose, AtMeet
<1>3. w.at # 4 => e.fit = d.fit
  BY <1>2, OnlyWrites DEF Goes, FitMay
<1>4. w.at = 4 => FitWritten(Doing(w), d.fit, e.fit)
  BY <1>2, OnlyFit
<1>5. Clean(d.fit) /\ w.left \cap d.fit.done = {}
  BY DEF FitFacts
<1>6. Clean(e.fit) /\ w.left \cap e.fit.done = {}
  BY <1>2, <1>3, <1>4, <1>5 DEF Clean, FitWritten
<1>7. CASE w.at < 7
  <2>1. v.part = "epoch" /\ v.left = w.left
    BY <1>1, <1>7, OnwardIs
  <2> HIDE DEF v
  <2>2. FitFacts(v, e.fit)
    BY <1>6, <2>1 DEF FitFacts
  <2> QED
    BY <2>1, <2>2, NoFacts DEF v
<1>8. CASE w.at = 7
  <2>1. v = Mpa!Putting(w.left, Mpa!Whole(Mpa!Few(w.left)))
    <3>1. v = Mpa!After(w, d)
      BY <1>1, <1>8, OnwardIs
    <3> QED
      BY <3>1 DEF Mpa!After
  <2>2. v.part \in {"block", "commit", "abort"} /\ FitFacts(v, e.fit)
    BY <1>6, <2>1, PuttingGoesOn
  <2> HIDE DEF v
  <2> QED
    BY <2>2, NoFacts DEF v
<1> QED
  BY <1>1, <1>7, <1>8

\* The same of a block that is transferred.
LEMMA BlockGoesOn ==
    ASSUME NEW w, MpaPlaceOK(w), w.part = "block", NEW d, DiskOK(d), NEW e, Goes(w, d, e),
           FitFacts(w, d.fit)
    PROVE  LET v == Mpa!Onward(w, d) IN SampleFacts(v, e.sample) /\ FitFacts(v, e.fit)
<1> DEFINE v == Mpa!Onward(w, d)
           b == Mpa!Least(w.put)
<1>1. w.at = 1 /\ MpaSize(w) = 1
  BY SizeIs DEF MpaSize
<1>2. Doing(w).op = "put" /\ Doing(w).do = "block" /\ Doing(w).file = "fit" /\ Doing(w).arg = b
  BY <1>1, StepsAre DEF StepIs, AtRead, AtRoot, AtOpen, AtPut, AtClose, AtMeet
<1>3. FitWritten(Doing(w), d.fit, e.fit)
  BY <1>2, OnlyFit
<1>4. /\ Clean(d.fit) /\ w.left \cap d.fit.done = {}
      /\ \A x \in Mpa!Whole(Mpa!Few(w.left)) \ w.put : d.fit.poles[x] > 0
  BY DEF FitFacts
<1>5. Clean(e.fit) /\ w.left \cap e.fit.done = {}
  BY <1>2, <1>3, <1>4 DEF Clean, FitWritten
<1>6. Mpa!Whole(Mpa!Few(w.left)) \in SUBSET (1..Blocks) /\ d.fit.poles \in [1..Blocks -> Nat]
  <2>1. w.left \in SUBSET (1..Blocks)
    BY DEF MpaPlaceOK
  <2>2. Mpa!Whole(Mpa!Few(w.left)) \in SUBSET (1..Blocks)
    BY <2>1, FewIs
  <2> QED
    BY <2>2 DEF DiskOK, FitOK, FitType
<1>7. e.fit.poles = [d.fit.poles EXCEPT ![b] = @ + 1]
  BY <1>2, <1>3 DEF FitWritten
<1>8. \A x \in Mpa!Whole(Mpa!Few(w.left)) \ (w.put \ {b}) : e.fit.poles[x] > 0
  <2> HIDE DEF b
  <2> QED
    BY <1>4, <1>6, <1>7
<1>9. v = Mpa!Putting(w.left, w.put \ {b})
  <2>1. v = Mpa!After(w, d)
    BY <1>1, OnwardIs
  <2> QED
    BY <2>1 DEF Mpa!After
<1>10. v.part \in {"block", "commit", "abort"} /\ FitFacts(v, e.fit)
  BY <1>5, <1>8, <1>9, PuttingGoesOn
<1> HIDE DEF v
<1> QED
  BY <1>10, NoFacts DEF v

\* The same of the end of an epoch, whose blocks are all transferred before rank 0
\* commits them.
LEMMA CommitGoesOn ==
    ASSUME NEW w, MpaPlaceOK(w), w.part = "commit", NEW d, NEW e, Goes(w, d, e),
           FitFacts(w, d.fit)
    PROVE  LET v == Mpa!Onward(w, d) IN SampleFacts(v, e.sample) /\ FitFacts(v, e.fit)
<1> DEFINE v == Mpa!Onward(w, d)
           few == Mpa!Few(w.left)
<1>1. w.at \in 1..8 /\ MpaSize(w) = 8
  BY SizeIs DEF MpaSize
<1>2. /\ w.at \notin {3, 6} => Doing(w).op \notin {"root", "put"}
      /\ w.at \in {3, 6} => Doing(w).op = "root" /\ Doing(w).file = "fit"
      /\ w.at = 3 => Doing(w).do = "publish"
      /\ w.at = 6 => Doing(w).do = "commit" /\ Doing(w).arg = few
  BY <1>1, StepsAre DEF StepIs, AtRead, AtRoot, AtOpen, AtPut, AtClose, AtMeet
<1>3. w.at \notin {3, 6} => e = d
  BY <1>2, OnlyWrites
<1>4. w.at \in {3, 6} => FitWritten(Doing(w), d.fit, e.fit)
  BY <1>2, OnlyFit
<1> HIDE DEF few
<1>5. /\ Clean(d.fit)
      /\ w.at <= 6 => w.left \cap d.fit.done = {} /\ \A b \in few : d.fit.poles[b] > 0
      /\ w.at > 6 => (w.left \ few) \cap d.fit.done = {}
  BY <1>1 DEF FitFacts, few
<1>6. /\ e.fit.poles = d.fit.poles
      /\ w.at # 6 => Clean(e.fit) /\ e.fit.done = d.fit.done
      /\ w.at = 6 => Clean(e.fit) /\ e.fit.done = d.fit.done \cup few
  <2>1. CASE w.at \notin {3, 6}
    BY <1>3, <1>5, <2>1
  <2>2. CASE w.at = 3
    BY <1>2, <1>4, <1>5, <2>2 DEF Clean, FitWritten
  <2>3. CASE w.at = 6
    BY <1>2, <1>4, <1>5, <2>3 DEF Clean, FitWritten
  <2> QED
    BY <2>1, <2>2, <2>3
<1>7. CASE w.at < 8
  <2>1. v.part = "commit" /\ v.left = w.left /\ v.at = w.at + 1
    BY <1>1, <1>7, OnwardIs
  <2> HIDE DEF v
  <2>2. IF v.at <= 6 THEN w.left \cap e.fit.done = {} ELSE (w.left \ few) \cap e.fit.done = {}
    BY <1>1, <1>5, <1>6, <1>7, <2>1
  <2>3. v.at <= 6 => \A b \in few : e.fit.poles[b] > 0
    BY <1>1, <1>5, <1>6, <1>7, <2>1
  <2>4. FitFacts(v, e.fit)
    BY <1>6, <2>1, <2>2, <2>3 DEF FitFacts, few
  <2> QED
    BY <2>1, <2>4, NoFacts DEF v
<1>8. CASE w.at = 8
  <2>1. v = Mpa!Fitting(w.left \ few)
    <3>1. v = Mpa!After(w, d)
      BY <1>1, <1>8, OnwardIs
    <3> QED
      BY <3>1 DEF Mpa!After, few
  <2>2. v.part \in {"body", "epoch"} /\ FitFacts(v, e.fit)
    BY <1>5, <1>6, <1>8, <2>1, FittingGoesOn
  <2> HIDE DEF v
  <2> QED
    BY <2>2, NoFacts DEF v
<1> QED
  BY <1>1, <1>7, <1>8

\* The same of an epoch with a block no fit passes.
LEMMA AbortGoesOn ==
    ASSUME NEW w, MpaPlaceOK(w), w.part = "abort", NEW d, NEW e, Goes(w, d, e),
           FitFacts(w, d.fit)
    PROVE  LET v == Mpa!Onward(w, d) IN SampleFacts(v, e.sample) /\ FitFacts(v, e.fit)
<1> DEFINE v == Mpa!Onward(w, d)
<1>1. w.at \in 1..8 /\ MpaSize(w) = 8
  BY SizeIs DEF MpaSize
<1>2. /\ w.at # 3 => Doing(w).op \notin {"root", "put"}
      /\ w.at = 3 => Doing(w).op = "root" /\ Doing(w).do = "publish" /\ Doing(w).file = "fit"
      /\ w.at # 8
  <2>1. w.at = 8 => Doing(w).op = "raise"
    BY StepsAre DEF StepIs
  <2> QED
    BY <1>1, <2>1, StepsAre DEF Goes, StepIs, AtRead, AtRoot, AtOpen, AtPut, AtClose, AtMeet
<1>3. w.at # 3 => e = d
  BY <1>2, OnlyWrites
<1>4. w.at = 3 => FitWritten(Doing(w), d.fit, e.fit)
  BY <1>2, OnlyFit
<1>5. Clean(d.fit) /\ w.left \cap d.fit.done = {}
  BY DEF FitFacts
<1>6. Clean(e.fit) /\ w.left \cap e.fit.done = {}
  BY <1>2, <1>3, <1>4, <1>5 DEF Clean, FitWritten
<1>7. v.part = "abort" /\ v.left = w.left
  BY <1>1, <1>2, OnwardIs
<1> HIDE DEF v
<1>8. FitFacts(v, e.fit)
  BY <1>6, <1>7 DEF FitFacts
<1> QED
  BY <1>7, <1>8, NoFacts DEF v

\* The same of the body, which is read whole and gets its receipt.
LEMMA BodyGoesOn ==
    ASSUME NEW w, MpaPlaceOK(w), w.part = "body", NEW d, NEW e, Goes(w, d, e),
           FitFacts(w, d.fit)
    PROVE  LET v == Mpa!Onward(w, d) IN SampleFacts(v, e.sample) /\ FitFacts(v, e.fit)
<1> DEFINE v == Mpa!Onward(w, d)
<1>1. w.at \in 1..9 /\ MpaSize(w) = 9
  BY SizeIs DEF MpaSize
<1>2. /\ w.at \notin {5, 6} => Doing(w).op \notin {"root", "put"}
      /\ w.at \in {5, 6} => Doing(w).op = "root" /\ Doing(w).file = "fit"
      /\ w.at = 5 => Doing(w).do = "stage"
      /\ w.at = 6 => Doing(w).do = "receipt"
      /\ w.at = 9 => Doing(w).op = "read" /\ Doing(w).do = "head" /\ Doing(w).file = "fit"
  BY <1>1, StepsAre DEF StepIs, AtRead, AtRoot, AtOpen, AtPut, AtClose, AtMeet
<1>3. w.at \notin {5, 6} => e = d
  BY <1>2, OnlyWrites
<1>4. w.at \in {5, 6} => FitWritten(Doing(w), d.fit, e.fit)
  BY <1>2, OnlyFit
<1>5. Clean(d.fit) /\ (w.at >= 7 => d.fit.receipt = "ready")
  BY DEF FitFacts
<1>6. Clean(e.fit) /\ (w.at = 6 => e.fit.receipt = "ready")
  <2>1. CASE w.at \notin {5, 6}
    BY <1>3, <1>5, <2>1
  <2>2. CASE w.at \in {5, 6}
    BY <1>2, <1>4, <1>5, <2>2 DEF Clean, FitWritten
  <2> QED
    BY <2>1, <2>2
<1>7. CASE w.at < 9
  <2>1. v.part = "body" /\ v.at = w.at + 1
    BY <1>1, <1>7, OnwardIs
  <2> HIDE DEF v
  <2>2. v.at >= 7 => e.fit.receipt = "ready"
    BY <1>1, <1>3, <1>5, <1>6, <1>7, <2>1
  <2>3. FitFacts(v, e.fit)
    BY <1>6, <2>1, <2>2 DEF FitFacts
  <2> QED
    BY <2>1, <2>3, NoFacts DEF v
<1>8. CASE w.at = 9
  <2>1. v = Mpa!Place(IF d.fit.head = "ready" THEN "finalize" ELSE "head", {}, {})
    <3>1. v = Mpa!After(w, d)
      BY <1>1, <1>8, OnwardIs
    <3> QED
      BY <3>1 DEF Mpa!After
  <2>2. v.part = (IF d.fit.head = "ready" THEN "finalize" ELSE "head") /\ v.at = 1
    BY <2>1 DEF Mpa!Place
  <2> HIDE DEF v
  <2>3. e = d /\ d.fit.done = 1..Blocks /\ d.fit.receipt = "ready"
    BY <1>2, <1>3, <1>5, <1>8, OnlyWrites, ReadIs
  <2>4. FitFacts(v, e.fit)
    BY <1>5, <2>2, <2>3 DEF FitFacts
  <2> QED
    BY <2>2, <2>4, NoFacts DEF v
<1> QED
  BY <1>1, <1>7, <1>8

\* The same of the head: its payload is published before it is ready.
LEMMA HeadGoesOn ==
    ASSUME NEW w, MpaPlaceOK(w), w.part = "head", NEW d, NEW e, Goes(w, d, e),
           FitFacts(w, d.fit)
    PROVE  LET v == Mpa!Onward(w, d) IN SampleFacts(v, e.sample) /\ FitFacts(v, e.fit)
<1> DEFINE v == Mpa!Onward(w, d)
<1>1. w.at \in 1..10 /\ MpaSize(w) = 10
  BY SizeIs DEF MpaSize
<1>2. /\ w.at \notin {2, 4, 7, 10} => Doing(w).op \notin {"root", "put"}
      /\ w.at \in {2, 4, 7, 10} => Doing(w).op = "root" /\ Doing(w).file = "fit"
      /\ w.at = 2 => Doing(w).do = "headGroup"
      /\ w.at = 4 => Doing(w).do = "begin"
      /\ w.at = 7 => Doing(w).do = "publish"
      /\ w.at = 10 => Doing(w).do = "headReady"
  BY <1>1, StepsAre DEF StepIs, AtRead, AtRoot, AtOpen, AtPut, AtClose, AtMeet
<1>3. w.at \notin {2, 4, 7, 10} => e = d
  BY <1>2, OnlyWrites
<1>4. w.at \in {2, 4, 7, 10} => FitWritten(Doing(w), d.fit, e.fit)
  BY <1>2, OnlyFit
<1>5. /\ Clean(d.fit) /\ d.fit.done = 1..Blocks /\ d.fit.receipt = "ready"
      /\ w.at <= 2 => d.fit.head # "ready"
      /\ w.at > 2 => d.fit.head = "unready"
      /\ w.at >= 8 => d.fit.headData
  BY <1>1 DEF FitFacts
<1>6. /\ Clean(e.fit) /\ e.fit.done = 1..Blocks /\ e.fit.receipt = "ready"
      /\ w.at < 2 => e.fit.head # "ready"
      /\ w.at >= 2 /\ w.at < 10 => e.fit.head = "unready"
      /\ w.at = 10 => e.fit.head = "ready"
      /\ w.at >= 7 => e.fit.headData
  <2>1. CASE w.at \notin {2, 4, 7, 10}
    BY <1>1, <1>3, <1>5, <2>1
  <2>2. CASE w.at \in {2, 4, 7, 10}
    <3>1. Clean(e.fit) /\ e.fit.done = 1..Blocks /\ e.fit.receipt = "ready"
      BY <1>2, <1>4, <1>5, <2>2 DEF Clean, FitWritten
    <3>2. /\ w.at \in {2, 4, 7} => e.fit.head = "unready"
          /\ w.at = 10 => e.fit.head = "ready" /\ e.fit.headData
          /\ w.at = 7 => e.fit.headData
      BY <1>2, <1>4, <1>5, <2>2 DEF FitWritten
    <3> QED
      BY <2>2, <3>1, <3>2
  <2> QED
    BY <2>1, <2>2
<1>7. CASE w.at < 10
  <2>1. v.part = "head" /\ v.at = w.at + 1
    BY <1>1, <1>7, OnwardIs
  <2> HIDE DEF v
  <2>2. /\ IF v.at <= 2 THEN e.fit.head # "ready" ELSE e.fit.head = "unready"
        /\ v.at >= 8 => e.fit.headData
    BY <1>1, <1>6, <1>7, <2>1
  <2>3. FitFacts(v, e.fit)
    BY <1>6, <2>1, <2>2 DEF FitFacts
  <2> QED
    BY <2>1, <2>3, NoFacts DEF v
<1>8. CASE w.at = 10
  <2>1. v = Mpa!Place("finalize", {}, {})
    <3>1. v = Mpa!After(w, d)
      BY <1>1, <1>8, OnwardIs
    <3> QED
      BY <3>1 DEF Mpa!After
  <2>2. v.part = "finalize"
    BY <2>1 DEF Mpa!Place
  <2> HIDE DEF v
  <2>3. FitFacts(v, e.fit)
    BY <1>6, <1>8, <2>2 DEF FitFacts
  <2> QED
    BY <2>2, <2>3, NoFacts DEF v
<1> QED
  BY <1>1, <1>7, <1>8

\* The same of COMPLETE.
LEMMA FinalizeGoesOn ==
    ASSUME NEW w, MpaPlaceOK(w), w.part = "finalize", NEW d, NEW e, Goes(w, d, e),
           FitFacts(w, d.fit)
    PROVE  LET v == Mpa!Onward(w, d) IN SampleFacts(v, e.sample) /\ FitFacts(v, e.fit)
<1> DEFINE v == Mpa!Onward(w, d)
<1>1. w.at \in 1..3 /\ MpaSize(w) = 3
  BY SizeIs DEF MpaSize
<1>2. CASE w.at < 3
  <2>1. v.part = "finalize" /\ v.at = w.at + 1
    BY <1>1, <1>2, OnwardIs
  <2> HIDE DEF v
  <2>2. w.at # 2 => Doing(w).op \notin {"root", "put"}
    BY <1>1, StepsAre DEF StepIs, AtRead, AtRoot, AtOpen, AtPut, AtClose, AtMeet
  <2>3. w.at = 1 => e = d
    BY <2>2, OnlyWrites
  <2>4. FitFacts(v, e.fit)
    BY <1>1, <1>2, <2>1, <2>3 DEF FitFacts
  <2> QED
    BY <2>1, <2>4, NoFacts DEF v
<1>3. CASE w.at = 3
  <2>1. v = Mpa!Place("end", {}, {})
    <3>1. v = Mpa!After(w, d)
      BY <1>1, <1>3, OnwardIs
    <3> QED
      BY <3>1 DEF Mpa!After
  <2>2. v.part = "end"
    BY <2>1 DEF Mpa!Place
  <2> HIDE DEF v
  <2> QED
    BY <2>2, NoFacts DEF v
<1> QED
  BY <1>1, <1>2, <1>3

\* What a program relies on still holds of the stores when it goes on.
LEMMA FactsGoOn ==
    ASSUME NEW w, MpaPlaceOK(w), NEW d, DiskOK(d), NEW e, Goes(w, d, e),
           SampleFacts(w, d.sample), FitFacts(w, d.fit)
    PROVE  LET v == Mpa!Onward(w, d) IN SampleFacts(v, e.sample) /\ FitFacts(v, e.fit)
<1>1. w.part \in MpaPart
  BY SizeIs
<1>2. CASE w.part \in {"start", "allocate", "headers", "check", "write"}
  BY <1>2, StartGoesOn, AllocateGoesOn, HeadersGoOn, CheckGoesOn, WriteGoesOn
<1>3. CASE w.part \in {"validate", "resume", "allocateFit", "epoch", "block"}
  BY <1>3, ValidateGoesOn, ResumeGoesOn, AllocateFitGoesOn, EpochGoesOn, BlockGoesOn
<1>4. CASE w.part \in {"commit", "abort", "body", "head", "finalize"}
  BY <1>4, CommitGoesOn, AbortGoesOn, BodyGoesOn, HeadGoesOn, FinalizeGoesOn
<1>5. w.part # "end"
  <2>1. w.part = "end" => Doing(w).op = "return"
    BY StepsAre DEF StepIs
  <2> QED
    BY <2>1 DEF Goes
<1> QED
  BY <1>1, <1>2, <1>3, <1>4, <1>5 DEF MpaPart

\* What comes next depends on no more than the place, the files and the bad blocks.
LEMMA OnwardIsSteady ==
    ASSUME bad' = bad
    PROVE  \A v, d : Mpa!Onward(v, d)' = Mpa!Onward(v, d)
<1>1. \A v : Mpa!Whole(v)' = Mpa!Whole(v)
  BY DEF Mpa!Whole
<1>2. \A v, p : Mpa!Putting(v, p)' = Mpa!Putting(v, p)
  BY <1>1 DEF Mpa!Putting
<1>3. \A v, d : Mpa!After(v, d)' = Mpa!After(v, d)
  BY <1>1, <1>2, Zenon DEF Mpa!After
<1>4. \A v, d : Mpa!Onward(v, d)' = Mpa!Onward(v, d)
  BY <1>3, Zenon DEF Mpa!Onward
<1> QED
  BY <1>4

\* A step that leaves the deck's key and the bad blocks as they are.
LEMMA SteadyDeck ==
    ASSUME UNCHANGED <<overwrite, bad>>
    PROVE  /\ (\A r \in Ranks : MpaPlaceOK(where'[r])) => (\A r \in Ranks : MpaPlaceOK(where[r]))'
           /\ (\A r \in Ranks : Beside(where'[r], where'[Zero], disk')) => TogetherOK'
           /\ SampleFacts(where'[Zero], disk'.sample) => SampleFacts(where[Zero], disk.sample)'
           /\ FitFacts(where'[Zero], disk'.fit) => FitFacts(where[Zero], disk.fit)'
<1>1. (\A r \in Ranks : MpaPlaceOK(where'[r])) => (\A r \in Ranks : MpaPlaceOK(where[r]))'
  BY DEF MpaPlaceOK, Mpa!Whole
<1>2. (\A r \in Ranks : Beside(where'[r], where'[Zero], disk')) => TogetherOK'
  BY OnwardIsSteady DEF TogetherOK, Beside, Near
<1>3. SampleFacts(where'[Zero], disk'.sample) => SampleFacts(where[Zero], disk.sample)'
  BY DEF SampleFacts
<1>4. FitFacts(where'[Zero], disk'.fit) => FitFacts(where[Zero], disk.fit)'
  BY DEF FitFacts, Mpa!Whole
<1> QED
  BY <1>1, <1>2, <1>3, <1>4

-----------------------------------------------------------------------------
(* MpaStore: the steps *)

\* A write that lands whole lets the program go on.
LEMMA LandGoes ==
    ASSUME NEW w, MpaPlaceOK(w), Doing(w).op \in {"root", "put"}, DiskOK(disk),
           SampleFacts(w, disk.sample), FitFacts(w, disk.fit)
    PROVE  Goes(w, disk, Mpa!Land(Doing(w), DOMAIN Mpa!Changes(Doing(w), disk[Doing(w).file])))
<1> DEFINE s == Doing(w)
           fields == DOMAIN Mpa!Changes(s, disk[s.file])
           e == Mpa!Land(s, fields)
<1>1. SampleMay(s, disk.sample) \/ FitMay(s, disk.fit)
  BY WritesAreInOrder DEF DiskOK
<1>2. s.op \in {"root", "put"}
  OBVIOUS
<1> SUFFICES Goes(w, disk, e)
  OBVIOUS
<1>3. /\ s.file = "sample" => fields = DOMAIN Mpa!Changes(s, disk.sample)
      /\ s.file = "fit" => fields = DOMAIN Mpa!Changes(s, disk.fit)
  OBVIOUS
<1> HIDE DEF fields
<1>4. s.file \in {"sample", "fit"}
  BY <1>1 DEF SampleMay, FitMay
<1> HIDE DEF s
<1>5. /\ e.sample = IF s.file = "sample" THEN Over(disk.sample, s, fields) ELSE disk.sample
      /\ e.fit = IF s.file = "fit" THEN Over(disk.fit, s, fields) ELSE disk.fit
  BY <1>4, LandIs
<1> HIDE DEF e
<1>6. disk.sample \in SampleType /\ disk.fit \in FitType
  BY DEF DiskOK, SampleOK, FitOK
<1>7. CASE SampleMay(s, disk.sample)
  <2>1. s.file = "sample"
    BY <1>7 DEF SampleMay
  <2>2. SampleWritten(s, disk.sample, Over(disk.sample, s, DOMAIN Mpa!Changes(s, disk.sample)))
    BY <1>6, <1>7, SampleIsWritten
  <2>3. SampleWritten(s, disk.sample, e.sample) /\ e.fit = disk.fit
    BY <1>3, <1>5, <2>1, <2>2
  <2> QED
    BY <1>2, <1>7, <2>3 DEF Goes, s
<1>8. CASE FitMay(s, disk.fit)
  <2>1. s.file = "fit"
    BY <1>8 DEF FitMay
  <2>2. FitWritten(s, disk.fit, Over(disk.fit, s, DOMAIN Mpa!Changes(s, disk.fit)))
    BY <1>6, <1>8, FitIsWritten
  <2>3. FitWritten(s, disk.fit, e.fit) /\ e.sample = disk.sample
    BY <1>3, <1>5, <2>1, <2>2
  <2> QED
    BY <1>2, <1>8, <2>3 DEF Goes, s
<1> QED
  BY <1>1, <1>7, <1>8

\* A session's check of the receipt writes nothing.
LEMMA CheckLandsNothing ==
    ASSUME NEW s, s.do = "check", s.file \in {"sample", "fit"}, DiskOK(disk)
    PROVE  Mpa!Land(s, DOMAIN Mpa!Changes(s, disk[s.file])) = disk
<1> DEFINE fields == DOMAIN Mpa!Changes(s, disk[s.file])
           e == Mpa!Land(s, fields)
<1>1. fields = {}
  BY DEF Mpa!Changes
<1> SUFFICES e = disk
  OBVIOUS
<1> HIDE DEF fields
<1>2. /\ e = [sample |-> e.sample, fit |-> e.fit]
      /\ e.sample = IF s.file = "sample" THEN Over(disk.sample, s, fields) ELSE disk.sample
      /\ e.fit = IF s.file = "fit" THEN Over(disk.fit, s, fields) ELSE disk.fit
  BY LandIs
<1> HIDE DEF e
<1>3. disk.sample \in SampleType /\ disk.fit \in FitType /\ disk = [sample |-> disk.sample, fit |-> disk.fit]
  BY DEF DiskOK, SampleOK, FitOK
<1>4. Over(disk.sample, s, fields) = disk.sample
  BY <1>1, <1>3 DEF Over, SampleType
<1>5. Over(disk.fit, s, fields) = disk.fit
  BY <1>1, <1>3 DEF Over, FitType
<1>6. e.sample = disk.sample /\ e.fit = disk.fit
  BY <1>2, <1>4, <1>5
<1> QED
  BY <1>2, <1>3, <1>6

\* A serial step is of a file that no session of the rank holds.
LEMMA AloneIsFree ==
    ASSUME NEW w, MpaPlaceOK(w), Alone(w)
    PROVE  Doing(w).file \in {"sample", "fit"} /\ Held(w, Doing(w).file) = "none"
<1>1. AtRead(w) \/ AtRoot(w)
  BY StepsAre DEF Alone, StepIs
<1>2. w.part # "block"
  BY <1>1 DEF AtRead, AtRoot
<1>3. CASE Doing(w).file = "sample"
  <2>1. NativeSample(w) = "none"
    BY <1>1, <1>2, <1>3 DEF AtRead, AtRoot, NativeSample, MpaSize
  <2> QED
    BY <1>3, <2>1 DEF Held
<1>4. CASE Doing(w).file = "fit"
  <2>1. NativeFit(w) = "none"
    BY <1>1, <1>2, <1>4 DEF AtRead, AtRoot, NativeFit
  <2> QED
    BY <1>4, <2>1 DEF Held
<1> QED
  BY <1>1, <1>3, <1>4 DEF AtRead, AtRoot

\* One rank goes on alone: what it relies on holds, and it stays beside the others.
LEMMA OneGoesOn ==
    ASSUME MpaIInv, UNCHANGED <<overwrite, bad>>, NEW r \in Ranks, Alone(where[r]),
           where' = [where EXCEPT ![r] = Mpa!Onward(@, disk)],
           disk' = disk \/ (r = Zero /\ Writes(where[r])),
           r = Zero => Goes(where[r], disk, disk')
    PROVE  /\ \A q \in Ranks : where'[q] = IF q = r THEN Mpa!Onward(where[r], disk) ELSE where[q]
           /\ where' = [q \in Ranks |-> where'[q]]
           /\ (\A q \in Ranks : MpaPlaceOK(where[q]))' /\ TogetherOK'
           /\ SampleFacts(where[Zero], disk.sample)' /\ FitFacts(where[Zero], disk.fit)'
<1>1. /\ \A q \in Ranks : where'[q] = IF q = r THEN Mpa!Onward(where[r], disk) ELSE where[q]
      /\ where' = [q \in Ranks |-> where'[q]]
  BY DEF MpaIInv, MpaTypes
<1>2. \A q \in Ranks : MpaPlaceOK(where'[q])
  BY <1>1, AloneGoesOn DEF MpaIInv
<1>3. \A q \in Ranks : Beside(where'[q], where'[Zero], disk')
  <2> SUFFICES ASSUME NEW q \in Ranks PROVE Beside(where'[q], where'[Zero], disk')
    OBVIOUS
  <2>1. CASE q = Zero
    BY <2>1 DEF Beside, Near
  <2>2. CASE q # Zero /\ r = Zero
    <3>1. where'[q] = where[q] /\ where'[Zero] = Mpa!Onward(where[Zero], disk)
      BY <1>1, <2>2
    <3>2. Near(where[Zero], where[q], disk) \/ Near(where[q], where[Zero], disk)
      BY DEF MpaIInv, TogetherOK, Beside
    <3>3. disk = disk' \/ Writes(where[Zero])
      BY <2>2
    <3>4. MpaPlaceOK(where[q]) /\ MpaPlaceOK(where[Zero]) /\ Alone(where[Zero])
      BY <2>2 DEF MpaIInv
    <3>5. LET u == Mpa!Onward(where[Zero], disk) IN Near(u, where[q], disk') \/ Near(where[q], u, disk')
      BY <3>2, <3>3, <3>4, SideBySide
    <3> QED
      BY <3>1, <3>5 DEF Beside
  <2>3. CASE q # Zero /\ r # Zero /\ q # r
    BY <1>1, <2>3 DEF MpaIInv, TogetherOK
  <2>4. CASE q # Zero /\ q = r
    <3>1. where'[q] = Mpa!Onward(where[r], disk) /\ where'[Zero] = where[Zero] /\ disk' = disk
      BY <1>1, <2>4
    <3>2. Near(where[r], where[Zero], disk) \/ Near(where[Zero], where[r], disk)
      BY DEF MpaIInv, TogetherOK, Beside
    <3>3. MpaPlaceOK(where[r]) /\ MpaPlaceOK(where[Zero])
      BY DEF MpaIInv
    <3>4. LET u == Mpa!Onward(where[r], disk) IN Near(u, where[Zero], disk) \/ Near(where[Zero], u, disk)
      BY <3>2, <3>3, SideBySide
    <3> QED
      BY <3>1, <3>4 DEF Beside
  <2> QED
    BY <2>1, <2>2, <2>3, <2>4
<1>4. SampleFacts(where'[Zero], disk'.sample) /\ FitFacts(where'[Zero], disk'.fit)
  <2>1. CASE r = Zero
    <3>1. /\ MpaPlaceOK(where[Zero]) /\ DiskOK(disk) /\ Goes(where[Zero], disk, disk')
          /\ SampleFacts(where[Zero], disk.sample) /\ FitFacts(where[Zero], disk.fit)
      BY <2>1 DEF MpaIInv
    <3>2. LET v == Mpa!Onward(where[Zero], disk) IN SampleFacts(v, disk'.sample) /\ FitFacts(v, disk'.fit)
      BY <3>1, FactsGoOn
    <3> QED
      BY <1>1, <2>1, <3>2
  <2>2. CASE r # Zero
    BY <1>1, <2>2 DEF MpaIInv
  <2> QED
    BY <2>1, <2>2
<1> QED
  BY <1>1, <1>2, <1>3, <1>4, SteadyDeck

\* A rank's step is the one at its place.
LEMMA NowIs ==
    \A r : Mpa!Now(r) = Doing(where[r])
  BY DEF Mpa!Now, Doing

\* Only a serial step holds what the place does not.
LEMMA HandleIsHeld ==
    ASSUME NEW r, NEW w, NEW h, NEW f, NEW state, HandleOK(r, w, h, f, state),
           ~Alone(w) \/ Doing(w).file # f \/ state # "running" \/ (Doing(w).op = "root" /\ r # Zero)
    PROVE  h = Held(w, f)
  BY DEF HandleOK, Transient

\* What holds when no rank moves and no file changes.
LEMMA NobodyMoves ==
    ASSUME MpaIInv, UNCHANGED <<disk, where, overwrite, bad>>
    PROVE  /\ DiskOK(disk)' /\ (\A q \in Ranks : MpaPlaceOK(where[q]))' /\ TogetherOK'
           /\ SampleFacts(where[Zero], disk.sample)' /\ FitFacts(where[Zero], disk.fit)'
<1>1. \A q \in Ranks : MpaPlaceOK(where'[q]) /\ Beside(where'[q], where'[Zero], disk')
  BY DEF MpaIInv, TogetherOK
<1>2. SampleFacts(where'[Zero], disk'.sample) /\ FitFacts(where'[Zero], disk'.fit)
  BY DEF MpaIInv
<1>3. DiskOK(disk)'
  BY DEF MpaIInv
<1> QED
  BY <1>1, <1>2, <1>3, SteadyDeck

\* A serial open keeps the invariant.
LEMMA OpenKeeps ==
    ASSUME MpaIInv, NEW r \in Ranks, Mpa!Open(r)
    PROVE  MpaIInv'
<1> DEFINE w == where[r]
           f == Doing(w).file
           h == IF Doing(w).op = "read" \/ Doing(w).do = "check" THEN "reading" ELSE "editing"
<1>1. /\ fate[r] = "running" /\ (Doing(w).op = "read" \/ (Doing(w).op = "root" /\ r = Zero))
      /\ using' = [using EXCEPT ![r][f] = h]
      /\ UNCHANGED <<disk, where, fate, mpaLeg, overwrite, bad>>
  BY NowIs DEF Mpa!Open, Mpa!At, Mpa!Hold
<1>2. MpaPlaceOK(w) /\ Alone(w)
  BY <1>1 DEF MpaIInv, Alone
<1>3. f \in {"sample", "fit"} /\ Held(w, f) = "none"
  BY <1>2, AloneIsFree
<1>4. Transient(r, w, h, f)
  BY <1>1, <1>2, <1>3 DEF Transient, Writes
<1> HIDE DEF f, h
<1>5. h \in {"reading", "editing"}
  BY DEF h
<1>6. /\ using' \in [Ranks -> [{"sample", "fit"} ->
           {"none", "reading", "editing", "nativeR", "nativeA"}]]
      /\ \A q \in Ranks : \A g \in {"sample", "fit"} :
           using'[q][g] = IF q = r /\ g = f THEN h ELSE using[q][g]
  <2>1. MpaTypes /\ h \in {"none", "reading", "editing", "nativeR", "nativeA"}
    BY <1>5 DEF MpaIInv
  <2>2. using' = [using EXCEPT ![r][f] = h]
    BY <1>1
  <2> QED
    BY <2>1, <2>2, <1>3 DEF MpaTypes
<1>7. HandlesOK'
  <2>1. \A q \in Ranks : \A g \in {"sample", "fit"} :
          HandleOK(q, where'[q], using'[q][g], g, fate'[q])
    BY <1>1, <1>4, <1>6 DEF MpaIInv, HandlesOK, HandleOK
  <2> QED
    BY <2>1 DEF HandlesOK
<1>8. MpaTypes'
  BY <1>1, <1>6 DEF MpaIInv, MpaTypes
<1> QED
  BY <1>1, <1>7, <1>8, NobodyMoves DEF MpaIInv

\* A rank closes what it had open and holds the rest as before.
LEMMA CloseHandle ==
    ASSUME MpaIInv, NEW r \in Ranks, Alone(where[r]),
           using' = [using EXCEPT ![r][Doing(where[r]).file] = "none"]
    PROVE  /\ using' \in [Ranks -> [{"sample", "fit"} ->
                {"none", "reading", "editing", "nativeR", "nativeA"}]]
           /\ \A q \in Ranks : q # r => using'[q] = using[q]
           /\ \A g \in {"sample", "fit"} : using'[r][g] = Held(where[r], g)
<1> DEFINE w == where[r]
           f == Doing(w).file
<1>1. MpaPlaceOK(w) /\ Alone(w)
  BY DEF MpaIInv
<1>2. f \in {"sample", "fit"} /\ Held(w, f) = "none"
  BY <1>1, AloneIsFree
<1>3. \A g \in {"sample", "fit"} : g # f => using[r][g] = Held(w, g)
  BY HandleIsHeld DEF MpaIInv, HandlesOK
<1> HIDE DEF f
<1>4. using' = [using EXCEPT ![r][f] = "none"]
  BY DEF f
<1>5. /\ using' \in [Ranks -> [{"sample", "fit"} ->
           {"none", "reading", "editing", "nativeR", "nativeA"}]]
      /\ \A q \in Ranks : \A g \in {"sample", "fit"} :
           using'[q][g] = IF q = r /\ g = f THEN "none" ELSE using[q][g]
  <2>1. using \in [Ranks -> [{"sample", "fit"} ->
             {"none", "reading", "editing", "nativeR", "nativeA"}]]
    BY DEF MpaIInv, MpaTypes
  <2>2. using' = [q \in Ranks |-> IF q = r THEN [using[r] EXCEPT ![f] = "none"] ELSE using[q]]
    BY <1>4, <2>1
  <2>3. [using[r] EXCEPT ![f] = "none"] \in [{"sample", "fit"} ->
             {"none", "reading", "editing", "nativeR", "nativeA"}]
    BY <1>2, <2>1
  <2>4. \A g \in {"sample", "fit"} :
          [using[r] EXCEPT ![f] = "none"][g] = IF g = f THEN "none" ELSE using[r][g]
    BY <1>2, <2>1
  <2> QED
    BY <2>1, <2>2, <2>3, <2>4
<1>6. \A q \in Ranks : q # r => using'[q] = using[q]
  BY <1>4 DEF MpaIInv, MpaTypes
<1> QED
  BY <1>2, <1>3, <1>5, <1>6

\* A reader that goes on or refuses keeps the invariant.
LEMMA CloseReaderKeeps ==
    ASSUME MpaIInv, NEW r \in Ranks, Mpa!CloseReader(r)
    PROVE  MpaIInv'
<1> DEFINE w == where[r]
           refused == Mpa!Refuses(Doing(w), disk[Doing(w).file])
<1>1. /\ fate[r] = "running" /\ Doing(w).op = "read"
      /\ using' = [using EXCEPT ![r][Doing(w).file] = "none"]
      /\ IF refused THEN fate' = [fate EXCEPT ![r] = "refused"] /\ where' = where
         ELSE where' = [where EXCEPT ![r] = Mpa!Onward(@, disk)] /\ fate' = fate
      /\ UNCHANGED <<disk, mpaLeg, overwrite, bad>>
  BY NowIs DEF Mpa!CloseReader, Mpa!At, Mpa!Hold, Mpa!End, Mpa!Pass
<1>2. MpaPlaceOK(w) /\ Alone(w)
  BY <1>1 DEF MpaIInv, Alone
<1>3. /\ using' \in [Ranks -> [{"sample", "fit"} ->
           {"none", "reading", "editing", "nativeR", "nativeA"}]]
      /\ \A q \in Ranks : q # r => using'[q] = using[q]
      /\ \A g \in {"sample", "fit"} : using'[r][g] = Held(w, g)
  BY <1>1, <1>2, CloseHandle
<1> HIDE DEF refused
<1>4. CASE refused
  <2>1. \A q \in Ranks : fate'[q] = IF q = r THEN "refused" ELSE fate[q]
    BY <1>1, <1>4 DEF MpaIInv, MpaTypes
  <2>2. \A q \in Ranks : \A g \in {"sample", "fit"} :
          HandleOK(q, where'[q], using'[q][g], g, fate'[q])
    BY <1>1, <1>3, <1>4, <2>1 DEF MpaIInv, HandlesOK, HandleOK
  <2>3. HandlesOK'
    BY <2>2 DEF HandlesOK
  <2>4. MpaTypes'
    BY <1>1, <1>3, <1>4 DEF MpaIInv, MpaTypes
  <2> QED
    BY <1>1, <1>4, <2>3, <2>4, NobodyMoves DEF MpaIInv
<1>5. CASE ~refused
  <2>1. where' = [where EXCEPT ![r] = Mpa!Onward(@, disk)] /\ fate' = fate
    BY <1>1, <1>5
  <2>2. Goes(w, disk, disk')
    BY <1>1, <1>5 DEF Goes, refused
  <2>3. /\ \A q \in Ranks : where'[q] = IF q = r THEN Mpa!Onward(w, disk) ELSE where[q]
        /\ where' = [q \in Ranks |-> where'[q]]
        /\ (\A q \in Ranks : MpaPlaceOK(where[q]))' /\ TogetherOK'
        /\ SampleFacts(where[Zero], disk.sample)' /\ FitFacts(where[Zero], disk.fit)'
    BY <1>1, <1>2, <2>1, <2>2, OneGoesOn
  <2>4. \A g \in {"sample", "fit"} : Held(where'[r], g) = Held(w, g)
    BY <1>2, <2>3, AloneHolds
  <2>5. \A q \in Ranks : \A g \in {"sample", "fit"} :
          HandleOK(q, where'[q], using'[q][g], g, fate'[q])
    BY <1>3, <2>1, <2>3, <2>4 DEF MpaIInv, HandlesOK, HandleOK
  <2>6. HandlesOK'
    BY <2>5 DEF HandlesOK
  <2>7. MpaTypes'
    BY <1>1, <1>3, <2>1, <2>3 DEF MpaIInv, MpaTypes
  <2>8. DiskOK(disk)'
    BY <1>1 DEF MpaIInv
  <2> QED
    BY <2>3, <2>6, <2>7, <2>8 DEF MpaIInv
<1> QED
  BY <1>4, <1>5

\* Rank 0's transaction keeps the invariant.
LEMMA CloseEditorKeeps ==
    ASSUME MpaIInv, Mpa!CloseEditor
    PROVE  MpaIInv'
<1> DEFINE w == where[Zero]
           s == Doing(w)
           e == Mpa!Land(s, DOMAIN Mpa!Changes(s, disk[s.file]))
           turned == s.do \in {"begin", "check"} /\ ~disk[s.file].committed
<1>1. /\ fate[Zero] = "running" /\ s.op = "root"
      /\ using' = [using EXCEPT ![Zero][s.file] = "none"]
      /\ IF turned THEN fate' = [fate EXCEPT ![Zero] = "uncommitted"] /\ where' = where /\ disk' = disk
         ELSE disk' = e /\ where' = [where EXCEPT ![Zero] = Mpa!Onward(@, disk)] /\ fate' = fate
      /\ UNCHANGED <<mpaLeg, overwrite, bad>>
  BY NowIs DEF Mpa!CloseEditor, Mpa!At, Mpa!Hold, Mpa!End, Mpa!Pass
<1>2. MpaPlaceOK(w) /\ Alone(w) /\ s.file \in {"sample", "fit"}
  <2>1. MpaPlaceOK(w) /\ Alone(w)
    BY <1>1 DEF MpaIInv, Alone
  <2> QED
    BY <2>1, AloneIsFree
<1>3. /\ using' \in [Ranks -> [{"sample", "fit"} ->
           {"none", "reading", "editing", "nativeR", "nativeA"}]]
      /\ \A q \in Ranks : q # Zero => using'[q] = using[q]
      /\ \A g \in {"sample", "fit"} : using'[Zero][g] = Held(w, g)
  BY <1>1, <1>2, CloseHandle
<1>4. /\ DiskOK(disk) /\ SampleFacts(w, disk.sample) /\ FitFacts(w, disk.fit)
  BY DEF MpaIInv
<1>5. Goes(w, disk, e) /\ DiskOK(e) /\ (e = disk \/ Writes(w))
  <2>1. Goes(w, disk, e)
    BY <1>1, <1>2, <1>4, LandGoes
  <2>2. DiskOK(e)
    BY <1>1, <1>2, <1>4, LandsInOrder
  <2>3. s.do = "check" => e = disk
    BY <1>2, <1>4, CheckLandsNothing
  <2> QED
    BY <1>1, <2>1, <2>2, <2>3 DEF Writes
<1> HIDE DEF turned
<1>6. CASE turned
  <2>1. \A q \in Ranks : fate'[q] = IF q = Zero THEN "uncommitted" ELSE fate[q]
    BY <1>1, <1>6 DEF MpaIInv, MpaTypes
  <2>2. where' = where
    BY <1>1, <1>6
  <2>3. \A q \in Ranks : \A g \in {"sample", "fit"} :
          HandleOK(q, where'[q], using'[q][g], g, fate'[q])
    BY <1>3, <2>1, <2>2 DEF MpaIInv, HandlesOK, HandleOK
  <2>4. HandlesOK'
    BY <2>3 DEF HandlesOK
  <2>5. MpaTypes'
    BY <1>1, <1>3, <1>6 DEF MpaIInv, MpaTypes
  <2> QED
    BY <1>1, <1>6, <2>4, <2>5, NobodyMoves DEF MpaIInv
<1>7. CASE ~turned
  <2>1. disk' = e /\ where' = [where EXCEPT ![Zero] = Mpa!Onward(@, disk)] /\ fate' = fate
    BY <1>1, <1>7
  <2> HIDE DEF e, s
  <2>2. Goes(w, disk, disk') /\ DiskOK(disk') /\ (disk' = disk \/ Writes(w))
    BY <1>5, <2>1
  <2>3. /\ \A q \in Ranks : where'[q] = IF q = Zero THEN Mpa!Onward(w, disk) ELSE where[q]
        /\ where' = [q \in Ranks |-> where'[q]]
        /\ (\A q \in Ranks : MpaPlaceOK(where[q]))' /\ TogetherOK'
        /\ SampleFacts(where[Zero], disk.sample)' /\ FitFacts(where[Zero], disk.fit)'
    BY <1>1, <1>2, <2>1, <2>2, OneGoesOn
  <2>4. \A g \in {"sample", "fit"} : Held(where'[Zero], g) = Held(w, g)
    BY <1>2, <2>3, AloneHolds
  <2>5. \A q \in Ranks : \A g \in {"sample", "fit"} :
          HandleOK(q, where'[q], using'[q][g], g, fate'[q])
    BY <1>3, <2>1, <2>3, <2>4 DEF MpaIInv, HandlesOK, HandleOK
  <2>6. HandlesOK'
    BY <2>5 DEF HandlesOK
  <2>7. MpaTypes'
    BY <1>1, <1>3, <2>1, <2>3 DEF MpaIInv, MpaTypes
  <2>8. DiskOK(disk)'
    BY <2>2
  <2> QED
    BY <2>3, <2>6, <2>7, <2>8 DEF MpaIInv
<1> QED
  BY <1>6, <1>7

\* A rank that passes rank 0's transaction by keeps the invariant.
LEMMA LeaveKeeps ==
    ASSUME MpaIInv, NEW r \in Ranks, Mpa!Leave(r)
    PROVE  MpaIInv'
<1> DEFINE w == where[r]
<1>1. /\ Doing(w).op = "root" /\ r # Zero
      /\ where' = [where EXCEPT ![r] = Mpa!Onward(@, disk)]
      /\ UNCHANGED <<disk, using, fate, mpaLeg, overwrite, bad>>
  BY NowIs DEF Mpa!Leave, Mpa!At, Mpa!Pass
<1>2. MpaPlaceOK(w) /\ Alone(w)
  BY <1>1 DEF MpaIInv, Alone
<1>3. /\ \A q \in Ranks : where'[q] = IF q = r THEN Mpa!Onward(w, disk) ELSE where[q]
      /\ where' = [q \in Ranks |-> where'[q]]
      /\ (\A q \in Ranks : MpaPlaceOK(where[q]))' /\ TogetherOK'
      /\ SampleFacts(where[Zero], disk.sample)' /\ FitFacts(where[Zero], disk.fit)'
  BY <1>1, <1>2, OneGoesOn
<1>4. \A g \in {"sample", "fit"} : Held(where'[r], g) = Held(w, g) /\ using[r][g] = Held(w, g)
  <2>1. \A g \in {"sample", "fit"} : Held(where'[r], g) = Held(w, g)
    BY <1>2, <1>3, AloneHolds
  <2>2. \A g \in {"sample", "fit"} : using[r][g] = Held(w, g)
    BY <1>1, HandleIsHeld DEF MpaIInv, HandlesOK
  <2> QED
    BY <2>1, <2>2
<1>5. \A q \in Ranks : \A g \in {"sample", "fit"} :
        HandleOK(q, where'[q], using'[q][g], g, fate'[q])
  BY <1>1, <1>3, <1>4 DEF MpaIInv, HandlesOK, HandleOK
<1>6. HandlesOK'
  BY <1>5 DEF HandlesOK
<1>7. MpaTypes' /\ DiskOK(disk)'
  BY <1>1, <1>3 DEF MpaIInv, MpaTypes
<1> QED
  BY <1>3, <1>6, <1>7 DEF MpaIInv

\* A rank that is not alone may end: it holds what its place says.
LEMMA EndKeeps ==
    ASSUME MpaIInv, NEW r \in Ranks, ~Alone(where[r]),
           NEW how \in {"done", "refused", "failed", "uncommitted"}, Mpa!End(r, how),
           UNCHANGED <<disk, using, mpaLeg, overwrite, bad>>
    PROVE  MpaIInv'
<1>1. fate' = [fate EXCEPT ![r] = how] /\ where' = where
  BY DEF Mpa!End
<1>2. \A q \in Ranks : fate'[q] = IF q = r THEN how ELSE fate[q]
  BY <1>1 DEF MpaIInv, MpaTypes
<1>3. \A g \in {"sample", "fit"} : using[r][g] = Held(where[r], g)
  BY HandleIsHeld DEF MpaIInv, HandlesOK
<1>4. \A q \in Ranks : \A g \in {"sample", "fit"} :
        HandleOK(q, where'[q], using'[q][g], g, fate'[q])
  BY <1>1, <1>2, <1>3 DEF MpaIInv, HandlesOK, HandleOK
<1>5. HandlesOK'
  BY <1>4 DEF HandlesOK
<1>6. MpaTypes'
  BY <1>1 DEF MpaIInv, MpaTypes
<1> QED
  BY <1>1, <1>5, <1>6, NobodyMoves DEF MpaIInv

\* The ends of a rank keep the invariant.
LEMMA EndsKeep ==
    ASSUME MpaIInv, NEW r \in Ranks, Mpa!HearRefusal(r) \/ Mpa!Return(r) \/ Mpa!Raise(r)
    PROVE  MpaIInv'
<1>1. CASE Mpa!HearRefusal(r)
  <2>1. ~Alone(where[r]) /\ Mpa!End(r, "uncommitted") /\ UNCHANGED <<disk, using, mpaLeg, overwrite, bad>>
    BY <1>1, NowIs DEF Mpa!HearRefusal, Mpa!At, Alone
  <2> QED
    BY <2>1, EndKeeps
<1>2. CASE Mpa!Return(r)
  <2>1. ~Alone(where[r]) /\ Mpa!End(r, "done") /\ UNCHANGED <<disk, using, mpaLeg, overwrite, bad>>
    BY <1>2, NowIs DEF Mpa!Return, Mpa!At, Alone
  <2> QED
    BY <2>1, EndKeeps
<1>3. CASE Mpa!Raise(r)
  <2>1. ~Alone(where[r]) /\ Mpa!End(r, "failed") /\ UNCHANGED <<disk, using, mpaLeg, overwrite, bad>>
    BY <1>3, NowIs DEF Mpa!Raise, Mpa!At, Alone
  <2> QED
    BY <2>1, EndKeeps
<1> QED
  BY <1>1, <1>2, <1>3

\* All ranks go on together: they were at one place and are at one place again.
LEMMA AllGoOn ==
    ASSUME MpaIInv, UNCHANGED <<overwrite, bad>>, NEW op \in {"open", "put", "close", "meet"},
           \A r \in Ranks : Doing(where[r]).op = op,
           where' = [r \in Ranks |-> Mpa!Onward(where[r], disk)],
           Goes(where[Zero], disk, disk')
    PROVE  /\ \A q \in Ranks : where[q] = where[Zero] /\ where'[q] = Mpa!Onward(where[Zero], disk)
           /\ \A q \in Ranks : \A g \in {"sample", "fit"} : using[q][g] = Held(where[Zero], g)
           /\ where' = [q \in Ranks |-> where'[q]]
           /\ (\A q \in Ranks : MpaPlaceOK(where[q]))' /\ TogetherOK'
           /\ SampleFacts(where[Zero], disk.sample)' /\ FitFacts(where[Zero], disk.fit)'
<1>1. \A q \in Ranks : ~Alone(where[q])
  BY DEF Alone
<1>2. \A q \in Ranks : where[q] = where[Zero]
  BY <1>1 DEF MpaIInv, TogetherOK, Beside, Near
<1>3. \A q \in Ranks : where'[q] = Mpa!Onward(where[Zero], disk)
  BY <1>2
<1>4. \A q \in Ranks : \A g \in {"sample", "fit"} : using[q][g] = Held(where[Zero], g)
  <2>1. \A q \in Ranks : \A g \in {"sample", "fit"} : using[q][g] = Held(where[q], g)
    BY <1>1, HandleIsHeld DEF MpaIInv, HandlesOK
  <2> QED
    BY <1>2, <2>1
<1>5. MpaPlaceOK(where[Zero]) /\ Doing(where[Zero]).op \in {"open", "put", "close", "meet"}
  BY DEF MpaIInv
<1>6. MpaPlaceOK(Mpa!Onward(where[Zero], disk))
  <2>1. LET v == Mpa!Onward(where[Zero], disk) IN MpaPlaceOK(v)
    BY <1>5, TogetherHolds
  <2> QED
    BY <2>1
<1>7. \A q \in Ranks : MpaPlaceOK(where'[q]) /\ Beside(where'[q], where'[Zero], disk')
  BY <1>3, <1>6 DEF Beside, Near
<1>8. SampleFacts(where'[Zero], disk'.sample) /\ FitFacts(where'[Zero], disk'.fit)
  <2>1. /\ DiskOK(disk) /\ SampleFacts(where[Zero], disk.sample) /\ FitFacts(where[Zero], disk.fit)
    BY DEF MpaIInv
  <2>2. LET v == Mpa!Onward(where[Zero], disk) IN SampleFacts(v, disk'.sample) /\ FitFacts(v, disk'.fit)
    BY <1>5, <2>1, FactsGoOn
  <2> QED
    BY <1>3, <2>2
<1>9. where' = [q \in Ranks |-> where'[q]]
  OBVIOUS
<1> QED
  BY <1>2, <1>3, <1>4, <1>7, <1>8, <1>9, SteadyDeck

\* Before a joint step every rank runs and is at it.
LEMMA TogetherIs ==
    ASSUME NEW op, Mpa!Together(op), MpaIInv
    PROVE  \A r \in Ranks : fate[r] = "running" /\ Doing(where[r]).op = op
  BY NowIs DEF Mpa!Together, Mpa!At

\* What the handles are after a joint step.
LEMMA JointHandles ==
    ASSUME \A q \in Ranks : \A g \in {"sample", "fit"} : using'[q][g] = Held(where'[q], g)
    PROVE  HandlesOK'
  BY DEF HandlesOK, HandleOK

\* A collective open keeps the invariant.
LEMMA OpenNativeKeeps ==
    ASSUME MpaIInv, Mpa!OpenNative
    PROVE  MpaIInv'
<1> DEFINE w == where[Zero]
           h == IF Doing(w).do = "r" THEN "nativeR" ELSE "nativeA"
           f == Doing(w).file
<1>1. /\ \A r \in Ranks : fate[r] = "running" /\ Doing(where[r]).op = "open"
      /\ where' = [r \in Ranks |-> Mpa!Onward(where[r], disk)]
      /\ using' = [r \in Ranks |-> [using[r] EXCEPT ![Doing(where[r]).file] =
                      IF Doing(where[r]).do = "r" THEN "nativeR" ELSE "nativeA"]]
      /\ UNCHANGED <<disk, fate, mpaLeg, overwrite, bad>>
  BY TogetherIs, NowIs DEF Mpa!OpenNative, Mpa!PassAll
<1>2. Goes(w, disk, disk')
  BY <1>1 DEF Goes
<1>3. /\ \A q \in Ranks : where[q] = w /\ where'[q] = Mpa!Onward(w, disk)
      /\ \A q \in Ranks : \A g \in {"sample", "fit"} : using[q][g] = Held(w, g)
      /\ where' = [q \in Ranks |-> where'[q]]
      /\ (\A q \in Ranks : MpaPlaceOK(where[q]))' /\ TogetherOK'
      /\ SampleFacts(where[Zero], disk.sample)' /\ FitFacts(where[Zero], disk.fit)'
  BY <1>1, <1>2, AllGoOn
<1>4. MpaPlaceOK(w) /\ Doing(w).op = "open" /\ f \in {"sample", "fit"}
  <2>1. MpaPlaceOK(w) /\ Doing(w).op = "open"
    BY <1>1 DEF MpaIInv
  <2> QED
    BY <2>1, StepsAre DEF StepIs, AtOpen
<1>5. \A g \in {"sample", "fit"} :
        Held(Mpa!Onward(w, disk), g) = IF g = f THEN h ELSE Held(w, g)
  BY <1>4, TogetherHolds
<1>6. \A q \in Ranks : using'[q] = [using[q] EXCEPT ![f] = h]
  BY <1>1, <1>3
<1> HIDE DEF f
<1>7. h \in {"nativeR", "nativeA"}
  OBVIOUS
<1> HIDE DEF h
<1>8. \A q \in Ranks : using[q] \in [{"sample", "fit"} ->
             {"none", "reading", "editing", "nativeR", "nativeA"}]
  BY DEF MpaIInv, MpaTypes
<1>9. \A q \in Ranks : /\ using'[q] \in [{"sample", "fit"} ->
                               {"none", "reading", "editing", "nativeR", "nativeA"}]
                       /\ \A g \in {"sample", "fit"} : using'[q][g] = IF g = f THEN h ELSE using[q][g]
  <2> SUFFICES ASSUME NEW q \in Ranks
               PROVE  /\ using'[q] \in [{"sample", "fit"} ->
                               {"none", "reading", "editing", "nativeR", "nativeA"}]
                      /\ \A g \in {"sample", "fit"} : using'[q][g] = IF g = f THEN h ELSE using[q][g]
    OBVIOUS
  <2> DEFINE u == using[q]
  <2>1. u \in [{"sample", "fit"} -> {"none", "reading", "editing", "nativeR", "nativeA"}]
        /\ using'[q] = [u EXCEPT ![f] = h]
    BY <1>6, <1>8
  <2> HIDE DEF u
  <2>2. [u EXCEPT ![f] = h] \in [{"sample", "fit"} ->
                               {"none", "reading", "editing", "nativeR", "nativeA"}]
    BY <1>4, <1>7, <2>1
  <2>3. \A g \in {"sample", "fit"} : [u EXCEPT ![f] = h][g] = IF g = f THEN h ELSE u[g]
    BY <1>4, <2>1
  <2> QED
    BY <2>1, <2>2, <2>3 DEF u
<1>10. HandlesOK'
  <2>1. \A q \in Ranks : \A g \in {"sample", "fit"} : using'[q][g] = Held(where'[q], g)
    BY <1>3, <1>5, <1>9
  <2> QED
    BY <2>1, JointHandles
<1>11. MpaTypes'
  <2>1. using' = [q \in Ranks |-> using'[q]]
    BY <1>1
  <2>2. using' \in [Ranks -> [{"sample", "fit"} ->
             {"none", "reading", "editing", "nativeR", "nativeA"}]]
    BY <1>9, <2>1
  <2> QED
    BY <1>1, <1>3, <2>2 DEF MpaIInv, MpaTypes
<1>12. DiskOK(disk)'
  BY <1>1 DEF MpaIInv
<1> QED
  BY <1>3, <1>10, <1>11, <1>12 DEF MpaIInv

\* A collective close keeps the invariant.
LEMMA CloseNativeKeeps ==
    ASSUME MpaIInv, Mpa!CloseNative
    PROVE  MpaIInv'
<1> DEFINE w == where[Zero]
           f == Doing(w).file
<1>1. /\ \A r \in Ranks : fate[r] = "running" /\ Doing(where[r]).op = "close"
      /\ where' = [r \in Ranks |-> Mpa!Onward(where[r], disk)]
      /\ using' = [r \in Ranks |-> [using[r] EXCEPT ![Doing(where[r]).file] = "none"]]
      /\ UNCHANGED <<disk, fate, mpaLeg, overwrite, bad>>
  BY TogetherIs, NowIs DEF Mpa!CloseNative, Mpa!PassAll
<1>2. Goes(w, disk, disk')
  BY <1>1 DEF Goes
<1>3. /\ \A q \in Ranks : where[q] = w /\ where'[q] = Mpa!Onward(w, disk)
      /\ \A q \in Ranks : \A g \in {"sample", "fit"} : using[q][g] = Held(w, g)
      /\ where' = [q \in Ranks |-> where'[q]]
      /\ (\A q \in Ranks : MpaPlaceOK(where[q]))' /\ TogetherOK'
      /\ SampleFacts(where[Zero], disk.sample)' /\ FitFacts(where[Zero], disk.fit)'
  BY <1>1, <1>2, AllGoOn
<1>4. MpaPlaceOK(w) /\ Doing(w).op = "close" /\ f \in {"sample", "fit"}
  <2>1. MpaPlaceOK(w) /\ Doing(w).op = "close"
    BY <1>1 DEF MpaIInv
  <2> QED
    BY <2>1, StepsAre DEF StepIs, AtClose
<1>5. \A g \in {"sample", "fit"} :
        Held(Mpa!Onward(w, disk), g) = IF g = f THEN "none" ELSE Held(w, g)
  BY <1>4, TogetherHolds
<1>6. \A q \in Ranks : using'[q] = [using[q] EXCEPT ![f] = "none"]
  BY <1>1, <1>3
<1> HIDE DEF f
<1>7. \A q \in Ranks : using[q] \in [{"sample", "fit"} ->
             {"none", "reading", "editing", "nativeR", "nativeA"}]
  BY DEF MpaIInv, MpaTypes
<1>8. \A q \in Ranks : /\ using'[q] \in [{"sample", "fit"} ->
                               {"none", "reading", "editing", "nativeR", "nativeA"}]
                       /\ \A g \in {"sample", "fit"} : using'[q][g] = IF g = f THEN "none" ELSE using[q][g]
  <2> SUFFICES ASSUME NEW q \in Ranks
               PROVE  /\ using'[q] \in [{"sample", "fit"} ->
                               {"none", "reading", "editing", "nativeR", "nativeA"}]
                      /\ \A g \in {"sample", "fit"} : using'[q][g] = IF g = f THEN "none" ELSE using[q][g]
    OBVIOUS
  <2> DEFINE u == using[q]
  <2>1. u \in [{"sample", "fit"} -> {"none", "reading", "editing", "nativeR", "nativeA"}]
        /\ using'[q] = [u EXCEPT ![f] = "none"]
    BY <1>6, <1>7
  <2> HIDE DEF u
  <2>2. [u EXCEPT ![f] = "none"] \in [{"sample", "fit"} ->
                               {"none", "reading", "editing", "nativeR", "nativeA"}]
    BY <1>4, <2>1
  <2>3. \A g \in {"sample", "fit"} : [u EXCEPT ![f] = "none"][g] = IF g = f THEN "none" ELSE u[g]
    BY <1>4, <2>1
  <2> QED
    BY <2>1, <2>2, <2>3 DEF u
<1>9. HandlesOK'
  <2>1. \A q \in Ranks : \A g \in {"sample", "fit"} : using'[q][g] = Held(where'[q], g)
    BY <1>3, <1>5, <1>8
  <2> QED
    BY <2>1, JointHandles
<1>10. MpaTypes'
  <2>1. using' = [q \in Ranks |-> using'[q]]
    BY <1>1
  <2>2. using' \in [Ranks -> [{"sample", "fit"} ->
             {"none", "reading", "editing", "nativeR", "nativeA"}]]
    BY <1>8, <2>1
  <2> QED
    BY <1>1, <1>3, <2>2 DEF MpaIInv, MpaTypes
<1>11. DiskOK(disk)'
  BY <1>1 DEF MpaIInv
<1> QED
  BY <1>3, <1>9, <1>10, <1>11 DEF MpaIInv

\* A transfer and a barrier: every rank goes on and holds what it held.
LEMMA TransferKeeps ==
    ASSUME MpaIInv, Mpa!Transfer \/ Mpa!Barrier
    PROVE  MpaIInv'
<1> DEFINE w == where[Zero]
           e == Mpa!Land(Doing(w), DOMAIN Mpa!Changes(Doing(w), disk[Doing(w).file]))
<1>1. PICK op \in {"put", "meet"} :
        /\ \A r \in Ranks : fate[r] = "running" /\ Doing(where[r]).op = op
        /\ where' = [r \in Ranks |-> Mpa!Onward(where[r], disk)]
        /\ disk' = IF op = "put" THEN e ELSE disk
        /\ UNCHANGED <<using, fate, mpaLeg, overwrite, bad>>
  <2>1. CASE Mpa!Transfer
    BY <2>1, TogetherIs, NowIs DEF Mpa!Transfer, Mpa!PassAll
  <2>2. CASE Mpa!Barrier
    BY <2>2, TogetherIs, NowIs DEF Mpa!Barrier, Mpa!PassAll
  <2> QED
    BY <2>1, <2>2
<1>2. MpaPlaceOK(w) /\ Doing(w).op = op /\ op \in {"put", "meet"}
  BY <1>1 DEF MpaIInv
<1>3. DiskOK(disk) /\ SampleFacts(w, disk.sample) /\ FitFacts(w, disk.fit)
  BY DEF MpaIInv
<1>4. Goes(w, disk, disk') /\ DiskOK(disk')
  <2>1. CASE op = "put"
    <3>1. Goes(w, disk, e)
      BY <1>2, <1>3, <2>1, LandGoes
    <3>2. DiskOK(e)
      BY <1>2, <1>3, <2>1, LandsInOrder
    <3>3. disk' = e
      BY <1>1, <2>1
    <3> HIDE DEF e
    <3> QED
      BY <3>1, <3>2, <3>3
  <2>2. CASE op = "meet"
    BY <1>1, <1>2, <1>3, <2>2 DEF Goes
  <2> QED
    BY <1>2, <2>1, <2>2
<1> HIDE DEF e
<1>5. /\ \A q \in Ranks : where[q] = w /\ where'[q] = Mpa!Onward(w, disk)
      /\ \A q \in Ranks : \A g \in {"sample", "fit"} : using[q][g] = Held(w, g)
      /\ where' = [q \in Ranks |-> where'[q]]
      /\ (\A q \in Ranks : MpaPlaceOK(where[q]))' /\ TogetherOK'
      /\ SampleFacts(where[Zero], disk.sample)' /\ FitFacts(where[Zero], disk.fit)'
  <2>1. op \in {"open", "put", "close", "meet"}
    OBVIOUS
  <2> QED
    BY <1>1, <1>4, <2>1, AllGoOn
<1>6. \A g \in {"sample", "fit"} : Held(Mpa!Onward(w, disk), g) = Held(w, g)
  BY <1>2, TogetherHolds
<1>7. HandlesOK'
  <2>1. \A q \in Ranks : \A g \in {"sample", "fit"} : using'[q][g] = Held(where'[q], g)
    BY <1>1, <1>5, <1>6
  <2> QED
    BY <2>1, JointHandles
<1>8. MpaTypes'
  BY <1>1, <1>5 DEF MpaIInv, MpaTypes
<1> QED
  BY <1>4, <1>5, <1>7, <1>8 DEF MpaIInv

\* The place where every start begins.
LEMMA BuildIs ==
    /\ MpaPlaceOK(Mpa!Build) /\ Mpa!Build.part = "start"
    /\ \A f \in {"sample", "fit"} : Held(Mpa!Build, f) = "none" /\ Mpa!Free[f] = "none"
    /\ \A c : SampleFacts(Mpa!Build, c) /\ FitFacts(Mpa!Build, c)
    /\ Mpa!Free \in [{"sample", "fit"} -> {"none", "reading", "editing", "nativeR", "nativeA"}]
<1>1. /\ Mpa!Build = [part |-> "start", left |-> {}, put |-> {}, at |-> 1]
      /\ Mpa!Free = [sample |-> "none", fit |-> "none"]
  BY DEF Mpa!Build, Mpa!Place, Mpa!Free
<1>2. MpaPlaceOK(Mpa!Build) /\ Mpa!Build.part = "start"
  BY <1>1 DEF MpaPlaceOK, MpaPart, MpaSize
<1>3. \A f \in {"sample", "fit"} : Held(Mpa!Build, f) = "none"
  BY <1>2 DEF Held, NativeSample, NativeFit
<1>4. \A c : SampleFacts(Mpa!Build, c) /\ FitFacts(Mpa!Build, c)
  BY <1>2, NoFacts
<1>5. /\ \A f \in {"sample", "fit"} : Mpa!Free[f] = "none"
      /\ Mpa!Free \in [{"sample", "fit"} -> {"none", "reading", "editing", "nativeR", "nativeA"}]
  BY <1>1
<1> QED
  BY <1>2, <1>3, <1>4, <1>5

\* A start over sound stores has the invariant, whatever the kill left.
LEMMA AgainKeeps ==
    ASSUME MpaIInv, Mpa!Again, DiskOK(disk')
    PROVE  MpaIInv'
<1>1. /\ mpaLeg < Legs /\ mpaLeg' = mpaLeg + 1
      /\ where' = [r \in Ranks |-> Mpa!Build]
      /\ using' = [r \in Ranks |-> Mpa!Free]
      /\ fate' = [r \in Ranks |-> "running"]
      /\ UNCHANGED <<overwrite, bad>>
  BY DEF Mpa!Again
<1>2. \A r \in Ranks : where'[r] = Mpa!Build /\ using'[r] = Mpa!Free
  BY <1>1
<1>3. \A r \in Ranks : MpaPlaceOK(where'[r]) /\ Beside(where'[r], where'[Zero], disk')
  BY <1>2, BuildIs DEF Beside, Near
<1>4. SampleFacts(where'[Zero], disk'.sample) /\ FitFacts(where'[Zero], disk'.fit)
  BY <1>2, BuildIs
<1>5. HandlesOK'
  <2>1. \A q \in Ranks : \A g \in {"sample", "fit"} : using'[q][g] = Held(where'[q], g)
    BY <1>2, BuildIs
  <2> QED
    BY <2>1, JointHandles
<1>6. MpaTypes'
  <2>1. where' = [r \in Ranks |-> where'[r]]
    BY <1>1
  <2>2. using' \in [Ranks -> [{"sample", "fit"} ->
             {"none", "reading", "editing", "nativeR", "nativeA"}]]
    BY <1>1, BuildIs
  <2>3. fate' \in [Ranks -> {"running", "done", "refused", "failed", "uncommitted"}]
    BY <1>1
  <2>4. mpaLeg' \in 1..Legs
    BY <1>1, LegsAssumption DEF MpaIInv, MpaTypes
  <2> QED
    BY <2>1, <2>2, <2>3, <2>4 DEF MpaTypes
<1> QED
  BY <1>1, <1>3, <1>4, <1>5, <1>6, SteadyDeck DEF MpaIInv

\* A kill cuts the write that is under way anywhere, or cuts nothing.
LEMMA KillCuts ==
    ASSUME MpaIInv, Mpa!Kill
    PROVE  DiskOK(disk') /\ Mpa!Again
<1> DEFINE w == where[Zero]
<1>1. Mpa!Again
  BY DEF Mpa!Kill
<1>2. MpaPlaceOK(w) /\ DiskOK(disk) /\ SampleFacts(w, disk.sample) /\ FitFacts(w, disk.fit)
  BY DEF MpaIInv
<1>3. CASE \E fields \in Mpa!PartOf(Doing(w)) :
             Doing(w).op \in {"root", "put"} /\ disk' = Mpa!Land(Doing(w), fields)
  <2>1. PICK fields \in Mpa!PartOf(Doing(w)) :
          Doing(w).op \in {"root", "put"} /\ disk' = Mpa!Land(Doing(w), fields)
    BY <1>3
  <2>2. DiskOK(Mpa!Land(Doing(w), fields))
    BY <1>2, <2>1, LandsInOrder
  <2> QED
    BY <1>1, <2>1, <2>2
<1>4. CASE disk' = disk
  BY <1>1, <1>2, <1>4
<1> QED
  BY <1>3, <1>4, NowIs DEF Mpa!Kill, Mpa!At

\* The first start has the invariant.
LEMMA MpaInitHolds ==
    ASSUME Mpa!Init
    PROVE  MpaIInv
<1>1. /\ disk = Mpa!NoFile /\ mpaLeg = 1
      /\ where = [r \in Ranks |-> Mpa!Build]
      /\ using = [r \in Ranks |-> Mpa!Free]
      /\ fate = [r \in Ranks |-> "running"]
  BY DEF Mpa!Init
<1>2. \A r \in Ranks : where[r] = Mpa!Build /\ using[r] = Mpa!Free
  BY <1>1
<1>3. DiskOK(disk)
  <2>1. disk = [sample |-> Mpa!NoSample, fit |-> Mpa!NoFit]
    BY <1>1 DEF Mpa!NoFile
  <2>2. SampleOK(Mpa!NoSample)
    BY DEF SampleOK, SampleType, Mpa!NoSample
  <2>3. FitOK(Mpa!NoFit)
    <3>1. Mpa!NoFit \in FitType
      BY DEF FitType, Mpa!NoFit
    <3>2. /\ Mpa!NoFit.done = {} /\ Mpa!NoFit.journal = {} /\ Mpa!NoFit.condition = {}
          /\ Mpa!NoFit.backward = {} /\ Mpa!NoFit.complete = FALSE /\ Mpa!NoFit.head = "none"
          /\ Mpa!NoFit.state = "none"
      BY DEF Mpa!NoFit
    <3> QED
      BY <3>1, <3>2 DEF FitOK, NoLedger, Chain
  <2> QED
    BY <2>1, <2>2, <2>3 DEF DiskOK
<1>4. (\A r \in Ranks : MpaPlaceOK(where[r])) /\ TogetherOK
  BY <1>2, BuildIs DEF TogetherOK, Beside, Near
<1>5. SampleFacts(where[Zero], disk.sample) /\ FitFacts(where[Zero], disk.fit)
  BY <1>2, BuildIs
<1>6. HandlesOK
  BY <1>2, BuildIs DEF HandlesOK, HandleOK
<1>7. MpaTypes
  <2>1. where = [r \in Ranks |-> where[r]] /\ using = [r \in Ranks |-> Mpa!Free]
    BY <1>1
  <2>2. using \in [Ranks -> [{"sample", "fit"} ->
             {"none", "reading", "editing", "nativeR", "nativeA"}]]
    BY <2>1, BuildIs
  <2>3. fate \in [Ranks -> {"running", "done", "refused", "failed", "uncommitted"}]
    BY <1>1
  <2>4. mpaLeg \in 1..Legs
    BY <1>1, LegsAssumption
  <2> QED
    BY <2>1, <2>2, <2>3, <2>4 DEF MpaTypes
<1> QED
  BY <1>3, <1>4, <1>5, <1>6, <1>7 DEF MpaIInv

\* Every step keeps the invariant.
LEMMA MpaNextKeeps ==
    ASSUME MpaIInv, [Mpa!Next]_(Mpa!vars)
    PROVE  MpaIInv'
<1>1. CASE UNCHANGED Mpa!vars
  <2>1. UNCHANGED <<disk, where, using, fate, mpaLeg, overwrite, bad>>
    BY <1>1 DEF Mpa!vars
  <2>2. HandlesOK' /\ MpaTypes'
    BY <2>1 DEF MpaIInv, HandlesOK, MpaTypes
  <2> QED
    BY <2>1, <2>2, NobodyMoves DEF MpaIInv
<1>2. CASE Mpa!Kill
  BY <1>2, KillCuts, AgainKeeps
<1>3. CASE Mpa!Restart
  <2>1. Mpa!Again /\ disk' = disk
    BY <1>3 DEF Mpa!Restart
  <2>2. DiskOK(disk')
    BY <2>1 DEF MpaIInv
  <2> QED
    BY <2>1, <2>2, AgainKeeps
<1>4. CASE \E r \in Ranks : Mpa!RankStep(r)
  <2>1. PICK r \in Ranks : Mpa!RankStep(r)
    BY <1>4
  <2> QED
    BY <2>1, OpenKeeps, CloseReaderKeeps, LeaveKeeps, EndsKeep DEF Mpa!RankStep
<1>5. CASE Mpa!CloseEditor
  BY <1>5, CloseEditorKeeps
<1>6. CASE Mpa!OpenNative \/ Mpa!CloseNative
  BY <1>6, OpenNativeKeeps, CloseNativeKeeps
<1>7. CASE Mpa!Transfer \/ Mpa!Barrier
  BY <1>7, TransferKeeps
<1> QED
  BY <1>1, <1>2, <1>3, <1>4, <1>5, <1>6, <1>7 DEF Mpa!Next, Mpa!Work

-----------------------------------------------------------------------------
(* MpaStore: the promises *)

\* Ranks side by side hold the same files through their sessions.
LEMMA HeldAlike ==
    ASSUME NEW v, MpaPlaceOK(v), NEW w, MpaPlaceOK(w), NEW d, Beside(v, w, d),
           NEW f \in {"sample", "fit"}
    PROVE  Held(v, f) = Held(w, f)
<1>1. ASSUME NEW a, MpaPlaceOK(a), NEW b, MpaPlaceOK(b), Near(a, b, d) PROVE Held(b, f) = Held(a, f)
  <2> DEFINE n == Mpa!Onward(a, d)
  <2>1. CASE b = a
    BY <2>1
  <2>2. CASE Alone(a) /\ b = n
    BY <1>1, <2>2, AloneHolds
  <2>3. CASE Alone(a) /\ Alone(n) /\ b = Mpa!Onward(n, d)
    <3>1. MpaPlaceOK(n) /\ Held(n, f) = Held(a, f)
      BY <1>1, <2>3, AloneGoesOn, AloneHolds
    <3> HIDE DEF n
    <3>2. Held(Mpa!Onward(n, d), f) = Held(n, f)
      BY <2>3, <3>1, AloneHolds
    <3> QED
      BY <2>3, <3>1, <3>2
  <2> QED
    BY <1>1, <2>1, <2>2, <2>3 DEF Near
<1> QED
  BY <1>1 DEF Beside

\* Beside a rank that writes nobody reads.
LEMMA NobodyReads ==
    ASSUME NEW v, MpaPlaceOK(v), NEW w, MpaPlaceOK(w), NEW d, Beside(w, v, d), Writes(v)
    PROVE  Doing(w).op # "read"
<1>1. Alone(v) /\ Doing(v).op = "root"
  BY DEF Writes, Alone
<1>2. CASE w = v
  BY <1>1, <1>2
<1>3. CASE w = Mpa!Onward(v, d)
  BY <1>1, <1>3, WritesApart
<1>4. CASE Alone(Mpa!Onward(v, d)) /\ w = Mpa!Onward(Mpa!Onward(v, d), d)
  BY <1>1, <1>4, TwoAlone DEF Alone
<1>5. CASE Alone(w) /\ v = Mpa!Onward(w, d)
  BY <1>1, <1>5, WritesApart
<1>6. CASE Alone(w) /\ Alone(Mpa!Onward(w, d)) /\ v = Mpa!Onward(Mpa!Onward(w, d), d)
  BY <1>1, <1>6, TwoAlone
<1> QED
  BY <1>2, <1>3, <1>4, <1>5, <1>6 DEF Beside, Near

\* Nobody reads what another writes, by the places and how near they are.
LEMMA OwnersAreApart ==
    ASSUME MpaIInv
    PROVE  Mpa!OwnershipIsHandedOver
<1> SUFFICES ASSUME NEW r \in Ranks, NEW q \in Ranks, NEW f \in {"sample", "fit"}, r # q
             PROVE  /\ using[r][f] = "editing" => using[q][f] = "none"
                    /\ using[r][f] = "nativeA" => using[q][f] \in {"none", "nativeA"}
  BY DEF Mpa!OwnershipIsHandedOver
<1>1. /\ HandleOK(r, where[r], using[r][f], f, fate[r])
      /\ HandleOK(q, where[q], using[q][f], f, fate[q])
      /\ MpaPlaceOK(where[r]) /\ MpaPlaceOK(where[q]) /\ MpaPlaceOK(where[Zero])
      /\ Beside(where[r], where[Zero], disk) /\ Beside(where[q], where[Zero], disk)
  BY DEF MpaIInv, HandlesOK, TogetherOK
<1>2. Held(where[r], f) = Held(where[Zero], f) /\ Held(where[q], f) = Held(where[Zero], f)
  BY <1>1, HeldAlike
<1>3. Held(where[r], f) \in {"none", "nativeR", "nativeA"}
  BY DEF Held, NativeSample, NativeFit
<1>4. ASSUME using[r][f] = "editing" PROVE using[q][f] = "none"
  <2>1. Held(where[r], f) = "none" /\ Writes(where[r]) /\ Alone(where[r])
        /\ (Doing(where[r]).op = "root" => r = Zero)
    BY <1>1, <1>3, <1>4 DEF HandleOK, Transient
  <2>2. r = Zero
    BY <2>1 DEF Writes
  <2>3. Doing(where[q]).op # "read"
    BY <1>1, <2>1, <2>2, NobodyReads
  <2>4. ~Transient(q, where[q], using[q][f], f)
    BY <2>2, <2>3 DEF Transient, Alone
  <2> QED
    BY <1>1, <1>2, <2>1, <2>4 DEF HandleOK
<1>5. ASSUME using[r][f] = "nativeA" PROVE using[q][f] \in {"none", "nativeA"}
  <2>1. Held(where[r], f) = "nativeA"
    BY <1>1, <1>5 DEF HandleOK, Transient
  <2> QED
    BY <1>1, <1>2, <2>1 DEF HandleOK, Transient
<1> QED
  BY <1>4, <1>5

\* The invariant contains MpaInv.
LEMMA MpaIInvIsEnough ==
    ASSUME MpaIInv
    PROVE  Mpa!MpaInv
<1>1. Mpa!TypeOK
  BY DEF MpaIInv, MpaTypes, DiskOK, SampleOK, SampleType, FitOK, FitType, Mpa!TypeOK
<1>2. Mpa!MarkedIsWritten
  BY DEF MpaIInv, DiskOK, SampleOK, FitOK, ChiOf, Mpa!MarkedIsWritten
<1>3. Mpa!CompleteIsWhole
  BY DEF MpaIInv, DiskOK, FitOK, Mpa!CompleteIsWhole
<1> QED
  BY <1>1, <1>2, <1>3, OwnersAreApart DEF Mpa!MpaInv

\* The multipole build keeps the inductive invariant.
LEMMA MpaIInvHolds ==
    Mpa!Init /\ [][Mpa!Next]_(Mpa!vars) => []MpaIInv
<1>1. Mpa!Init => MpaIInv
  BY MpaInitHolds
<1>2. MpaIInv /\ [Mpa!Next]_(Mpa!vars) => MpaIInv'
  BY MpaNextKeeps
<1> QED
  BY <1>1, <1>2, PTL

\* Whatever the pace of the ranks and wherever a kill falls, one owner at a time
\* holds each store, nothing is marked before its bytes are there, and COMPLETE
\* says that everything is (mpa_store.py, fit_driver.py, restart_bundle.py).
THEOREM StoresAreHandedOver ==
    Mpa!Spec => []MpaInv
<1>1. MpaIInv => MpaInv
  BY MpaIInvIsEnough DEF MpaInv
<1> QED
  BY <1>1, MpaIInvHolds, PTL DEF Mpa!Spec

\* What a ledger holds of d is still there, and the same, in e.
StillThere(d, e) ==
    /\ \A x \in d.sample.ready : x \in e.sample.ready /\ e.sample.slabs[x] = d.sample.slabs[x]
    /\ \A b \in d.fit.done : b \in e.fit.done /\ e.fit.poles[b] = d.fit.poles[b]
    /\ d.fit.complete => e.fit = d.fit

\* A write of the samples touches no slab that is ready.
LEMMA SampleIsOnce ==
    ASSUME NEW w, MpaPlaceOK(w), Doing(w).op \in {"root", "put"}, NEW c, SampleOK(c),
           SampleFacts(w, c), ~overwrite, SampleMay(Doing(w), c), NEW fields,
           Partly(Doing(w), c, fields)
    PROVE  LET e == Over(c, Doing(w), fields) IN
           \A x \in c.ready : x \in e.ready /\ e.slabs[x] = c.slabs[x]
<1> DEFINE s == Doing(w)
           n == Mpa!Changes(s, c)
           e == Over(c, s, fields)
<1>1. AtRoot(w) \/ AtPut(w)
  BY StepsAre DEF StepIs
<1>2. /\ s.do = "unlink" => c.ready = {}
      /\ s.do = "slab" => s.arg \notin c.ready
  <2>1. s.file = "sample"
    BY DEF SampleMay
  <2>2. s.do = "unlink" => w.part = "allocate" /\ w.at = 2 /\ "new" \in w.left
    BY <1>1, <2>1 DEF AtRoot, AtPut
  <2>3. s.do = "slab" => w.part = "write" /\ s.arg = Mpa!Slab(w.left)
    BY <1>1, <2>1 DEF AtRoot, AtPut
  <2> HIDE DEF s
  <2> QED
    BY <2>2, <2>3 DEF SampleFacts
<1> HIDE DEF s
<1>3. SampleMay(s, c) /\ Partly(s, c, fields) /\ c \in SampleType
  BY DEF s, SampleOK
<1>4. /\ e.slabs = IF "slabs" \in fields THEN n.slabs ELSE c.slabs
      /\ e.ready = IF "ready" \in fields THEN n.ready ELSE c.ready
  BY <1>3, OverSample
<1>5. s.do # "unlink" => fields \subseteq DOMAIN n
  BY <1>3 DEF Partly
<1>6. /\ s.do \in {"begin", "check", "publish"} => DOMAIN n \subseteq {"committed"}
      /\ s.do = "create" => DOMAIN n = {"there", "sound", "comps", "committed"}
      /\ s.do = "stamp" => DOMAIN n = {"comps"}
      /\ s.do = "slab" => DOMAIN n = {"slabs"} /\ n.slabs = [c.slabs EXCEPT ![s.arg] = @ + 1]
      /\ s.do = "mark" => DOMAIN n = {"ready"} /\ n.ready = c.ready \cup {s.arg}
  BY <1>3 DEF Mpa!Changes, Mpa!Published, Mpa!Marked, SampleMay
<1> SUFFICES \A x \in c.ready : x \in e.ready /\ e.slabs[x] = c.slabs[x]
  BY DEF s
<1> HIDE DEF n, e
<1>7. s.do = "slab" => \A x \in c.ready : n.slabs[x] = c.slabs[x]
  BY <1>2, <1>3, <1>6 DEF SampleType
<1>8. CASE s.do = "unlink"
  BY <1>2, <1>8
<1>9. CASE s.do \in {"begin", "check", "publish", "create", "stamp"}
  BY <1>4, <1>5, <1>6, <1>9
<1>10. CASE s.do = "slab"
  BY <1>4, <1>5, <1>6, <1>7, <1>10
<1>11. CASE s.do = "mark"
  BY <1>4, <1>5, <1>6, <1>11
<1> QED
  BY <1>3, <1>8, <1>9, <1>10, <1>11 DEF SampleMay

\* A write of the fit touches no block that is done, and nothing once it is complete.
LEMMA FitIsOnce ==
    ASSUME NEW w, MpaPlaceOK(w), Doing(w).op \in {"root", "put"}, NEW c, FitOK(c),
           FitFacts(w, c), ~overwrite, FitMay(Doing(w), c), NEW fields,
           Partly(Doing(w), c, fields)
    PROVE  LET e == Over(c, Doing(w), fields) IN
           /\ \A b \in c.done : b \in e.done /\ e.poles[b] = c.poles[b]
           /\ ~c.complete
<1> DEFINE s == Doing(w)
           n == Mpa!Changes(s, c)
           e == Over(c, s, fields)
<1>1. AtRoot(w) \/ AtPut(w)
  BY StepsAre DEF StepIs
<1>2. s.file = "fit"
  BY DEF FitMay
<1>3. w.part \in {"allocateFit", "epoch", "block", "commit", "abort", "body", "head", "finalize"}
      /\ (w.part = "finalize" => w.at = 2)
  BY <1>1, <1>2 DEF AtRoot, AtPut
<1>4. ~c.complete
  BY <1>3 DEF FitFacts, Clean, NoLedger
<1>5. s.do = "unlink" => c.done = {}
  <2>1. s.do = "unlink" => w.part = "allocateFit"
    BY <1>1, <1>2 DEF AtRoot, AtPut
  <2> QED
    BY <2>1 DEF FitFacts, NoLedger
<1>6. s.do = "block" => s.arg \notin c.done
  <2> SUFFICES ASSUME s.do = "block" PROVE s.arg \notin c.done
    OBVIOUS
  <2>1. w.part = "block" /\ s.arg = Mpa!Least(w.put)
    BY <1>1, <1>2 DEF AtRoot, AtPut
  <2>2. w.left \in SUBSET (1..Blocks) /\ w.put \in SUBSET Mpa!Whole(Mpa!Few(w.left)) /\ w.put # {}
    BY <2>1 DEF MpaPlaceOK
  <2>3. w.put \in SUBSET w.left /\ w.put \in SUBSET Nat
    BY <2>2, FewIs
  <2>4. Mpa!Least(w.put) \in w.put
    BY <2>2, <2>3, LeastIs
  <2>5. w.left \cap c.done = {}
    BY <2>1 DEF FitFacts
  <2> HIDE DEF s
  <2> QED
    BY <2>1, <2>3, <2>4, <2>5
<1> HIDE DEF s
<1>7. FitMay(s, c) /\ Partly(s, c, fields) /\ c \in FitType
  BY DEF s, FitOK
<1>8. /\ e.poles = IF "poles" \in fields THEN n.poles ELSE c.poles
      /\ e.done = IF "done" \in fields THEN n.done ELSE c.done
  BY <1>7, OverFit
<1>9. s.do # "unlink" => fields \subseteq DOMAIN n
  BY <1>7 DEF Partly
<1>10. /\ s.do = "begin" => DOMAIN n \subseteq {"committed"}
       /\ s.do = "publish" => DOMAIN n \subseteq {"committed", "headData"}
       /\ s.do = "allocate" => DOMAIN n = {"there", "state", "committed"}
       /\ s.do = "initialise" => DOMAIN n = {"state"}
       /\ s.do \in {"stage", "receipt"} => DOMAIN n = {"receipt"}
       /\ s.do \in {"headGroup", "headReady"} => DOMAIN n \subseteq {"head", "headData"}
       /\ s.do = "finalize" => DOMAIN n = {"complete", "certified"}
  BY <1>7 DEF Mpa!Changes, Mpa!Published, Mpa!Staged, Mpa!Finalized
<1>11. /\ s.do = "block" => DOMAIN n = {"poles"} /\ n.poles = [c.poles EXCEPT ![s.arg] = @ + 1]
       /\ s.do = "commit" => /\ DOMAIN n = {"done", "journal", "condition", "backward"}
                             /\ n.done = c.done \cup s.arg
  BY <1>7 DEF Mpa!Changes, Mpa!Committed
<1> SUFFICES \A b \in c.done : b \in e.done /\ e.poles[b] = c.poles[b]
  BY <1>4 DEF s
<1> HIDE DEF n, e
<1>12. s.do = "block" => \A b \in c.done : n.poles[b] = c.poles[b]
  BY <1>6, <1>7, <1>11 DEF FitType
<1>13. CASE s.do = "unlink"
  BY <1>5, <1>13
<1>14. CASE s.do \in {"begin", "publish", "allocate", "initialise", "stage", "receipt",
                      "headGroup", "headReady", "finalize"}
  BY <1>8, <1>9, <1>10, <1>14
<1>15. CASE s.do = "block"
  BY <1>8, <1>9, <1>11, <1>12, <1>15
<1>16. CASE s.do = "commit"
  BY <1>8, <1>9, <1>11, <1>16
<1> QED
  BY <1>7, <1>13, <1>14, <1>15, <1>16 DEF FitMay

\* However much of a write lands, what the ledgers hold is still there.
LEMMA LandsOnce ==
    ASSUME NEW w, MpaPlaceOK(w), Doing(w).op \in {"root", "put"}, DiskOK(disk),
           SampleFacts(w, disk.sample), FitFacts(w, disk.fit), ~overwrite, NEW fields,
           \/ fields \in Mpa!PartOf(Doing(w))
           \/ fields = DOMAIN Mpa!Changes(Doing(w), disk[Doing(w).file])
    PROVE  StillThere(disk, Mpa!Land(Doing(w), fields))
<1> DEFINE s == Doing(w)
           e == Mpa!Land(s, fields)
<1>1. SampleMay(s, disk.sample) \/ FitMay(s, disk.fit)
  BY WritesAreInOrder DEF DiskOK
<1>2. s.file \in {"sample", "fit"}
  BY <1>1 DEF SampleMay, FitMay
<1>3. Partly(s, disk[s.file], fields)
  BY DEF Partly, Mpa!PartOf, Mpa!Inode, Mpa!Changes
<1>4. /\ e.sample = IF s.file = "sample" THEN Over(disk.sample, s, fields) ELSE disk.sample
      /\ e.fit = IF s.file = "fit" THEN Over(disk.fit, s, fields) ELSE disk.fit
  BY <1>2, LandIs
<1> SUFFICES StillThere(disk, e)
  OBVIOUS
<1> HIDE DEF e
<1>5. CASE SampleMay(s, disk.sample)
  <2>1. s.file = "sample"
    BY <1>5 DEF SampleMay
  <2>2. LET o == Over(disk.sample, Doing(w), fields) IN
        \A x \in disk.sample.ready : x \in o.ready /\ o.slabs[x] = disk.sample.slabs[x]
    <3>1. Partly(s, disk.sample, fields) /\ SampleOK(disk.sample)
      BY <1>3, <2>1 DEF DiskOK
    <3> QED
      BY <1>5, <3>1, SampleIsOnce
  <2> HIDE DEF s
  <2>3. e.sample = Over(disk.sample, Doing(w), fields) /\ e.fit = disk.fit
    BY <1>4, <2>1 DEF s
  <2> QED
    BY <2>2, <2>3 DEF StillThere
<1>6. CASE FitMay(s, disk.fit)
  <2>1. s.file = "fit"
    BY <1>6 DEF FitMay
  <2>2. LET o == Over(disk.fit, Doing(w), fields) IN
        /\ \A b \in disk.fit.done : b \in o.done /\ o.poles[b] = disk.fit.poles[b]
        /\ ~disk.fit.complete
    <3>1. Partly(s, disk.fit, fields) /\ FitOK(disk.fit)
      BY <1>3, <2>1 DEF DiskOK
    <3> QED
      BY <1>6, <3>1, FitIsOnce
  <2> HIDE DEF s
  <2>3. e.fit = Over(disk.fit, Doing(w), fields) /\ e.sample = disk.sample
    BY <1>4, <2>1 DEF s
  <2> QED
    BY <2>2, <2>3 DEF StillThere
<1> QED
  BY <1>1, <1>5, <1>6

\* Only a write, whole or cut by a kill, changes the stores.
LEMMA OnlyLandsChange ==
    ASSUME MpaIInv, [Mpa!Next]_(Mpa!vars)
    PROVE  \/ disk' = disk
           \/ LET s == Doing(where[Zero]) IN
              /\ s.op \in {"root", "put"}
              /\ \E fields : /\ \/ fields \in Mpa!PartOf(s)
                                \/ fields = DOMAIN Mpa!Changes(s, disk[s.file])
                             /\ disk' = Mpa!Land(s, fields)
<1>1. CASE UNCHANGED Mpa!vars
  BY <1>1 DEF Mpa!vars
<1>2. CASE Mpa!Kill
  BY <1>2, NowIs DEF Mpa!Kill, Mpa!At
<1>3. CASE Mpa!Restart
  BY <1>3 DEF Mpa!Restart
<1>4. CASE \E r \in Ranks : Mpa!RankStep(r)
  BY <1>4 DEF Mpa!RankStep, Mpa!Open, Mpa!CloseReader, Mpa!Leave, Mpa!HearRefusal,
     Mpa!Return, Mpa!Raise
<1>5. CASE Mpa!CloseEditor
  BY <1>5, NowIs DEF Mpa!CloseEditor, Mpa!At
<1>6. CASE Mpa!OpenNative \/ Mpa!CloseNative \/ Mpa!Barrier
  BY <1>6 DEF Mpa!OpenNative, Mpa!CloseNative, Mpa!Barrier
<1>7. CASE Mpa!Transfer
  <2>1. Doing(where[Zero]).op = "put"
    BY <1>7, TogetherIs DEF Mpa!Transfer
  <2> QED
    BY <1>7, <2>1, NowIs DEF Mpa!Transfer
<1> QED
  BY <1>1, <1>2, <1>3, <1>4, <1>5, <1>6, <1>7 DEF Mpa!Next, Mpa!Work

\* No step writes again what a ledger holds.
LEMMA StepsWriteOnce ==
    ASSUME MpaIInv, [Mpa!Next]_(Mpa!vars), ~overwrite
    PROVE  StillThere(disk, disk')
<1> DEFINE w == where[Zero]
<1>1. MpaPlaceOK(w) /\ DiskOK(disk) /\ SampleFacts(w, disk.sample) /\ FitFacts(w, disk.fit)
  BY DEF MpaIInv
<1>2. CASE disk' = disk
  BY <1>2 DEF StillThere
<1>3. CASE disk' # disk
  <2>1. PICK fields : /\ Doing(w).op \in {"root", "put"}
                      /\ \/ fields \in Mpa!PartOf(Doing(w))
                         \/ fields = DOMAIN Mpa!Changes(Doing(w), disk[Doing(w).file])
                      /\ disk' = Mpa!Land(Doing(w), fields)
    BY <1>3, OnlyLandsChange
  <2>2. StillThere(disk, Mpa!Land(Doing(w), fields))
    BY <1>1, <2>1, LandsOnce
  <2> QED
    BY <2>1, <2>2
<1> QED
  BY <1>2, <1>3

\* No start, killed or not, writes again what a ledger of the stores holds, unless
\* the deck says overwrite (the write-once refusals of mpa_store.py).
THEOREM LedgersAreWrittenOnce ==
    Mpa!Spec => CommittedIsWriteOnce
<1>1. MpaIInv /\ [Mpa!Next]_(Mpa!vars) =>
        [~overwrite =>
            /\ \A s \in disk.sample.ready :
                s \in disk'.sample.ready /\ disk'.sample.slabs[s] = disk.sample.slabs[s]
            /\ \A b \in disk.fit.done :
                b \in disk'.fit.done /\ disk'.fit.poles[b] = disk.fit.poles[b]
            /\ disk.fit.complete => disk'.fit = disk.fit]_(Mpa!vars)
  BY StepsWriteOnce DEF StillThere
<1> QED
  BY <1>1, MpaIInvHolds, PTL DEF Mpa!Spec, CommittedIsWriteOnce, Mpa!CommittedIsWriteOnce

=============================================================================
