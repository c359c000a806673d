\* Three ranks and three calls; two collective steps of main, two ranks that raise
\* or die on their own.
CONSTANTS
    N = 3
    Calls = 3
    Stage = {"write", "close", "header"}
    ReadStages = {"header"}
    Programs <- SomePrograms
    Work = 2
    Returns = {0}
    MaxFaults = 2
SPECIFICATION MCSpec
INVARIANTS TypeOK VerdictIsTrue NothingRetained AtMostTwoDirectories ExitInv NoPeerStranded
PROPERTIES DeleteAfterLastRead ImplementsAgreement CallsReturn JobEnds
CHECK_DEADLOCK FALSE
