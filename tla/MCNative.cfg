\* Two handles and an h5py user on two paths, two ranks, three native opens at
\* two addresses: contexts are shared, closed and reopened at another's address,
\* and an open may raise before, in and after the native open.  Two buffers of three
\* do not fit into the staging budget of four.
CONSTANTS
    N = 2
    Path = {"p", "q"}
    Handle = {h1, h2}
    Scope = {s1}
    Owner = {h1, h2, s1}
    Address = {"a1", "a2"}
    MaxOpens = 3
    File = {f1, f2}
    Buffer = {"b1", "b2", "b3"}
    Keep = 1
    Budget = 4
    MaxSize = 3
SPECIFICATION MCSpec
INVARIANTS HandlesInv FailedOpenHoldsNothing CollectivesTogether StagingInv
PROPERTIES CloseEnds
CHECK_DEADLOCK FALSE
