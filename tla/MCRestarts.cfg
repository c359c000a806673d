\* Three legs of each (four of the map): chunks below and above the ghosts; fixed
\* and adaptive steps over two directories; two ranks, two frequencies, three blocks
\* in two epochs; two identities and two interactions.
CONSTANTS
    None = None
    Torn = Torn
    Lost = Lost
    Legs = 3
    GH = 4
    Chunks = {1, 2, 3, 8, 9}
    NI = 2
    NR = 10
    Stops <- SomeStops
    Decks <- SomeDecks
    Ends = {6, 12}
    TdChunks = {1, 4}
    Trials <- OneDrive
    Dirs = {d1, d2}
    Ranks = {r0, r1}
    Zero = r0
    Freqs = 2
    Blocks = 3
    Epoch = 2
    Ids = {i1, i2}
    Vs = {v1, v2}
    MapLegs = 4
SPECIFICATION MCSpec
INVARIANTS CdInv AddsLikeUnbroken TdInv MpaInv MapInv
PROPERTIES CommittedIsWriteOnce CompleteIsKept JobEnds
CHECK_DEADLOCK FALSE
