\* Two ranks, two handles, five programs; two writes, reads or closes fail,
\* and each rank makes one call of its own besides.  The dispatcher has the
\* lane's queue of two and six tasks.  Either may stop when nobody calls.
CONSTANTS
    Programs <- SomePrograms
    N = 2
    A = A
    B = B
    NoSlot = NoSlot
    Slot = {A, B}
    MaxQueued = 2
    MaxFailures = 2
    MaxLocal = 1
    MaxSize = 2
    Tasks = 6
SPECIFICATION MCSpec
INVARIANTS LaneInv EntersInProgramOrder QueueInv
PROPERTIES LaneEnds DrainSeesEverything EveryCallReturns
CHECK_DEADLOCK FALSE
