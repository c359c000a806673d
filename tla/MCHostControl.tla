---------------------------- MODULE MCHostControl ----------------------------
(***************************************************************************)
(* The two protocols of the host that lean on the coordination service,    *)
(* for TLC: the exchanges of HostControl over its store, and the end of a  *)
(* job in OrderedExit, where rank zero takes the service down.  No step of *)
(* the one looks at the other, so a behaviour is of one of the two, and    *)
(* the other stands still.                                                 *)
(***************************************************************************)
EXTENDS HostControl, Sequences

CONSTANTS Work, Returns, MaxFaults    \* of OrderedExit

ASSUME ExitAssumption ==
    Work \in Nat /\ Returns \subseteq {0, 1} /\ MaxFaults \in Nat

\* The call list s as a program: calls are numbered from zero.
Program(s) == [c \in Call |-> s[c + 1]]

\* Every rank runs the same program of reductions and reads ...
AlignedPrograms ==
    {[r \in Rank |-> p] : p \in [Call -> {"write", "header"}]}

\* ... or one call of one rank, of rank zero or of a peer, is another than the
\* others': a branch taken alone, a swapped call, a read where they reduce.
SomePrograms ==
    AlignedPrograms \cup
    {[P EXCEPT ![r][c] = s] :
        P \in AlignedPrograms,
        r \in {0, 1}, c \in {1}, s \in Stage}

-----------------------------------------------------------------------------
VARIABLES
    protocol,                                             \* "exchange" or "exit"
    place, entered, rc, status, report, broken, faults    \* of OrderedExit

Exit == INSTANCE OrderedExit WITH Root <- 0

exitVars == <<place, entered, rc, status, report, broken, faults>>
all == <<vars, exitVars, protocol>>

\* A job that ends makes no exchange here: one program is enough.
MCInit ==
    /\ protocol \in {"exchange", "exit"}
    /\ Init /\ Exit!Init
    /\ protocol = "exit" => program = CHOOSE p \in Programs : TRUE

OfExchange(S) == protocol = "exchange" /\ S /\ UNCHANGED <<exitVars, protocol>>
OfExit(S) == protocol = "exit" /\ S /\ UNCHANGED <<vars, protocol>>

MCSpec ==
    /\ MCInit /\ [][OfExchange(Next) \/ OfExit(Exit!Next)]_all
    /\ WF_all(OfExchange(RootStep))
    /\ \A r \in Rank : /\ WF_all(OfExchange(Step(r)))
                       /\ WF_all(OfExit(Exit!Step(r)))
                       /\ WF_all(OfExit(Exit!Killed(r)))

-----------------------------------------------------------------------------
\* In the behaviours of the exchanges, every call of a program that all ranks
\* share returns on every rank (HostControl's EveryCallReturns).
CallsReturn == protocol = "exchange" => EveryCallReturns

\* In those of the exit every job ends (OrderedExit's JobEnds).
JobEnds == protocol = "exit" => Exit!JobEnds

\* The other properties of OrderedExit, under their names.
ExitInv == Exit!ExitInv
NoPeerStranded == Exit!NoPeerStranded
=============================================================================
