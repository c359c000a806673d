CONSTANTS
    N = 3
    Sessions = 2
    Faults = {"preflight", "reserve", "write", "validate", "replace", "unlink"}
    MaxFaults = 2
    MaxCrashes = 1
SPECIFICATION FairSpec
INVARIANTS PublishInv DestinationIsWhole
PROPERTY EveryTransactionEnds
CHECK_DEADLOCK FALSE
