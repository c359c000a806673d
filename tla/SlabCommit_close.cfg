CONSTANTS
    N = 2
    Sessions = 1
    Faults = {"H5Fclose"}
    MaxFaults = 1
    MaxCrashes = 0
SPECIFICATION Spec
INVARIANT PublishedIsWhole
CHECK_DEADLOCK FALSE
