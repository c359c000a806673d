CONSTANTS
    N = 2
    Sessions = 2
    Faults = {"unlink", "create", "zeros", "write", "close", "H5Fclose", "materialize", "publish"}
    MaxFaults = 3
    MaxCrashes = 1
SPECIFICATION FairSpec
INVARIANTS SlabInv CommittedIsWhole
PROPERTY EverySessionEnds
CHECK_DEADLOCK FALSE
