------------------------- MODULE MCSelfConsistency -------------------------
(* Measurements for SelfConsistency: rising and falling norms (the fallback *)
(* and the best pair), flat and falling matrix residuals (the stall), and   *)
(* one that meets the criterion.                                            *)
EXTENDS SelfConsistency, TLC

M(n, s, c) == [norm |-> n, spectral |-> s, converged |-> c]

FewOutcomes == {M(1, 10, FALSE), M(2, 9, TRUE), M(3, 9, FALSE)}

\* The decks are interchangeable.
Decks == Permutations(Deck)

\* Bound: of three processes at least one continues (or is refused).
TwoTrajectories == decks[3] = None
=============================================================================
