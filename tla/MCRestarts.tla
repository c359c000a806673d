----------------------------- MODULE MCRestarts -----------------------------
(***************************************************************************)
(* The four computations that survive a kill in files of their own, for    *)
(* TLC: the contour deformation of CdStream, the propagation of TdRestart, *)
(* the multipole fit of MpaStore and the map of TangentialMap.  They share *)
(* no file, so a behaviour is one of the four, and the others stand still. *)
(***************************************************************************)
EXTENDS CdStream

CONSTANTS
    Decks, Ends, TdChunks, Trials, Dirs, Lost,    \* of TdRestart
    Ranks, Zero, Freqs, Blocks, Epoch,            \* of MpaStore
    Ids, Vs, MapLegs                              \* of TangentialMap

\* None is not what the drives' files of a directory hold.
ASSUME TdAssumption ==
    /\ Decks \subseteq [method : {"fixed", "dp54"}, dt : Nat \ {0}, dm : Nat \ {0}]
    /\ Ends \subseteq Nat \ {0} /\ TdChunks \subseteq Nat \ {0}
    /\ 0 \in Trials /\ Trials \subseteq Nat
    /\ LET Rows == UNION {[0 .. n - 1 -> Nat \cup {Lost}] : n \in Ends}
           Carry == [step : Nat, state : Nat, fp : Decks \X (Ends \cup {None})]
       IN  None \notin [deck : Decks, n : Ends, rows : [Trials -> Rows],
                        next : [Trials -> Int], carry : Carry \cup {None}]
ASSUME MpaAssumption ==
    Zero \in Ranks /\ {Freqs, Blocks, Epoch} \subseteq Nat \ {0}
\* No file holds None, nor the like of it.
ASSUME MapAssumption ==
    /\ MapLegs \in Nat /\ None # Torn
    /\ LET Operator == [id : Ids, v : Vs] IN
         /\ None \notin Operator
         /\ None \notin [op : Operator, done : BOOLEAN]
         /\ None \notin [op : Operator, state : {"open", "part", "done"}]
         /\ None \notin [ready : BOOLEAN, v : Vs, member : Operator \cup {None}]

VARIABLES
    computation,                                        \* "cd", "td", "mpa" or "map"
    tdFile, tdJob, tdLegs,                              \* of TdRestart
    disk, where, using, fate, mpaLeg, overwrite, bad,   \* of MpaStore
    sc, headed, dir, bundle, export, map, mapLeg        \* of TangentialMap

Td == INSTANCE TdRestart WITH Chunks <- TdChunks,
                              file <- tdFile, job <- tdJob, legs <- tdLegs
Mpa == INSTANCE MpaStore WITH leg <- mpaLeg
Map == INSTANCE TangentialMap

-----------------------------------------------------------------------------
(* Instances *)

\* Values of LORRAX_CD_STOP_AFTER.
S(i, r, f) == [imag |-> i, real |-> r, from |-> f]
SomeStops == {S(None, None, None), S(None, 2, None), S(1, None, None), S(None, None, 2)}

\* Steps longer and shorter than the measurement interval.
D(m, t, s) == [method |-> m, dt |-> t, dm |-> s]
SomeDecks == {D("fixed", 2, 3), D("fixed", 3, 1), D("dp54", 2, 3), D("dp54", 3, 1)}
OneDeck == {D("fixed", 2, 3)}
OneDrive == {0}
TwoDrives == {0, 1}

-----------------------------------------------------------------------------
tdVars == <<tdFile, tdJob, tdLegs>>
mpaVars == <<disk, where, using, fate, mpaLeg, overwrite, bad>>
mapVars == <<sc, headed, dir, bundle, export, map, mapLeg>>
all == <<vars, tdVars, mpaVars, mapVars, computation>>

MCInit ==
    /\ computation \in {"cd", "td", "mpa", "map"}
    /\ Init /\ Td!Init /\ Mpa!Init /\ Map!Init
    /\ computation # "cd" => \A c \in Chunks : c <= chunk
    /\ computation # "mpa" => ~overwrite /\ bad = {}
    /\ computation # "map" => ~sc /\ ~headed

CdStep == computation = "cd" /\ Next /\ UNCHANGED <<tdVars, mpaVars, mapVars, computation>>
TdStep == computation = "td" /\ Td!Next /\ UNCHANGED <<vars, mpaVars, mapVars, computation>>
MpaStep == computation = "mpa" /\ Mpa!Next /\ UNCHANGED <<vars, tdVars, mapVars, computation>>
MapStep == computation = "map" /\ Map!Next /\ UNCHANGED <<vars, tdVars, mpaVars, computation>>

MCSpec ==
    /\ MCInit /\ [][CdStep \/ TdStep \/ MpaStep \/ MapStep]_all
    /\ WF_all(MpaStep /\ Mpa!Work)

-----------------------------------------------------------------------------
\* The properties of the instances, under their names.

FinishedIsWhole == Td!FinishedIsWhole
ExportIsWhole == Map!ExportIsWhole
TdInv == Td!TdInv
MpaInv == Mpa!MpaInv
MapInv == Map!MapInv
CompleteIsKept == Map!CompleteIsKept
CommittedIsWriteOnce == Mpa!CommittedIsWriteOnce
JobEnds == computation = "mpa" => Mpa!JobEnds
=============================================================================
