CONSTANTS
    N = 2
    Sessions = 1
    Faults = {"unlink"}
    MaxFaults = 1
    MaxCrashes = 0
SPECIFICATION Spec
INVARIANT EveryRankComes
CHECK_DEADLOCK FALSE
