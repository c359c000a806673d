------------------------------ MODULE Agreement ------------------------------
(***************************************************************************)
(* What the host control plane promises, without a store: an exchange is   *)
(* decided once, from what the ranks brought to it, and whoever comes back *)
(* from it has heard that decision.  HostControl implements it.            *)
(***************************************************************************)
EXTENDS ControlRecords

VARIABLES
    program,     \* program[r][c]: the stage of rank r's c-th call
    offered,     \* offered[r][c]: what rank r brought to its c-th call
    decided,     \* the decision of each exchange
    heard        \* heard[r][c]: what its c-th call returned or raised

vars == <<program, offered, decided, heard>>

Init ==
    /\ program \in Programs
    /\ offered = [r \in Rank |-> [c \in Call |-> NoReceipt]]
    /\ decided = [k \in Key |-> NoVerdict]
    /\ heard = [r \in Rank |-> [c \in Call |-> NoVerdict]]

\* Rank r is in the exchange k: it has made its k.occ-th call, at k.stage.
In(r, k) == program[r][k.occ] = k.stage /\ offered[r][k.occ] # NoReceipt

\* Rank r makes its next call, having returned from every earlier one.
Offer(r, c) ==
    /\ offered[r][c] = NoReceipt
    /\ \A d \in Call : d < c => heard[r][d] # NoVerdict
    /\ \E x \in Offers(r, program[r][c]) :
         offered' = [offered EXCEPT ![r][c] = x]
    /\ UNCHANGED <<program, decided, heard>>

\* A reduction needs every rank, a read needs rank zero alone.
Decide(k) ==
    /\ decided[k] = NoVerdict
    /\ IF k.stage \in ReadStages
         THEN /\ In(0, k)
              /\ decided' = [decided EXCEPT ![k] =
                               ReadEnvelope(offered[0][k.occ])]
         ELSE /\ \A r \in Rank : In(r, k)
              /\ decided' = [decided EXCEPT ![k] =
                               Envelope([r \in Rank |-> offered[r][k.occ]])]
    /\ UNCHANGED <<program, offered, heard>>

Hear(r, k) ==
    /\ In(r, k)
    /\ heard[r][k.occ] = NoVerdict
    /\ decided[k] # NoVerdict
    /\ heard' = [heard EXCEPT ![r][k.occ] = decided[k]]
    /\ UNCHANGED <<program, offered, decided>>

Next ==
    \/ \E r \in Rank, c \in Call : Offer(r, c)
    \/ \E k \in Key : Decide(k)
    \/ \E r \in Rank, k \in Key : Hear(r, k)

Spec == Init /\ [][Next]_vars

\* Under the contract that every rank runs the same program: every call ends.
AllHear ==
    (\A r \in Rank : program[r] = program[0])
        ~> \A r \in Rank, c \in Call : heard[r][c] # NoVerdict
=============================================================================
