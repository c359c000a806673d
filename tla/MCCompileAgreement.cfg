CONSTANTS
    a = a
    b = b
    N = 2
    Helpers = {h1, h2}
    Module = {a, b}
    Programs <- SomePrograms
    Divergent = {b}
    Deadlines = {TRUE, FALSE}
    MaxNumber = 3
SPECIFICATION MCSpec
INVARIANTS NumbersInv
PROPERTIES EveryProgramRuns RefusalSurfaces
CHECK_DEADLOCK FALSE
