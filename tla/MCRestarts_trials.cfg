\* Two drives, a kill between their files; the other computations at their smallest.
CONSTANTS
    None = None
    Torn = Torn
    Lost = Lost
    Legs = 2
    GH = 1
    Chunks = {2}
    NI = 1
    NR = 1
    Stops <- SomeStops
    Decks <- OneDeck
    Ends = {4}
    TdChunks = {2}
    Trials <- TwoDrives
    Dirs = {d1, d2}
    Ranks = {r0}
    Zero = r0
    Freqs = 1
    Blocks = 1
    Epoch = 1
    Ids = {i1, i2}
    Vs = {v1, v2}
    MapLegs = 1
SPECIFICATION MCSpec
INVARIANTS FinishedIsWhole
CHECK_DEADLOCK FALSE
