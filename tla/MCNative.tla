------------------------------ MODULE MCNative ------------------------------
(***************************************************************************)
(* The two registries of native handles, for TLC: the contexts of          *)
(* FileContexts and the staging buffers of ReadStaging.  A buffer belongs  *)
(* to an open context, but no step of the one looks at the other, so a     *)
(* behaviour is of one of the two, and the other stands still.             *)
(***************************************************************************)
EXTENDS FileContexts

CONSTANTS File, Buffer, Keep, Budget, MaxSize    \* of ReadStaging

ASSUME StagingAssumption ==
    /\ Keep \in Nat /\ Budget \in Nat /\ MaxSize \in Nat \ {0}
    /\ IsFiniteSet(File) /\ "none" \notin Buffer

VARIABLES
    registry,                                         \* "contexts" or "staging"
    buffer, capacity, reserved, used, reader, seen,   \* of ReadStaging
    copying, retired

Staging == INSTANCE ReadStaging

stagingVars == <<buffer, capacity, reserved, used, reader, seen, copying, retired>>
all == <<vars, stagingVars, registry>>

MCInit == registry \in {"contexts", "staging"} /\ Init /\ Staging!Init

OfStaging(A) == registry = "staging" /\ A /\ UNCHANGED <<vars, registry>>
ContextStep == registry = "contexts" /\ Next /\ UNCHANGED <<stagingVars, registry>>

MCSpec ==
    /\ MCInit /\ [][ContextStep \/ OfStaging(Staging!Next)]_all
    /\ \A f \in File : WF_all(OfStaging(Staging!Step(f)))
                      /\ WF_all(OfStaging(Staging!FreeRetired(f)))
    /\ \A b \in Buffer : WF_all(OfStaging(Staging!CopyEnds(b)))

-----------------------------------------------------------------------------
\* The properties of ReadStaging, under their names.

StagingInv == Staging!StagingInv
CloseEnds == Staging!CloseEnds
=============================================================================
