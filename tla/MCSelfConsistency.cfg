\* Three processes and two decks over one directory; any of them may be killed
\* anywhere, and a continuation is itself killed and continued.  Four maps wrap
\* a ring of two pairs and lose the best one from it.
CONSTANTS
    None = None
    Stray = Stray
    m = 2
    Deck = {d1, d2}
    Budgets = {3, 4}
    Outcomes <- FewOutcomes
    StallWindow = 2
    Legs = 3
SYMMETRY Decks
CONSTRAINT TwoTrajectories
SPECIFICATION Spec
INVARIANTS TrajectoryInv StaysOnTrajectory
CHECK_DEADLOCK FALSE
