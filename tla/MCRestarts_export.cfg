\* Two processes of one operator, the first killed inside its export of the
\* poles; the other computations at their smallest.
CONSTANTS
    None = None
    Torn = Torn
    Lost = Lost
    Legs = 1
    GH = 1
    Chunks = {2}
    NI = 1
    NR = 1
    Stops <- SomeStops
    Decks <- OneDeck
    Ends = {4}
    TdChunks = {2}
    Trials <- OneDrive
    Dirs = {d1}
    Ranks = {r0}
    Zero = r0
    Freqs = 1
    Blocks = 1
    Epoch = 1
    Ids = {i1}
    Vs = {v1}
    MapLegs = 2
SPECIFICATION MCSpec
INVARIANTS ExportIsWhole
CHECK_DEADLOCK FALSE
