SPECIFICATION FairSpec
CONSTANTS
    MaxChunks = 3
    Capacity = 2
CHECK_DEADLOCK FALSE
INVARIANTS
    TypeOK
    StreamsAreWhole
    CleanEndsAreComplete
PROPERTIES
    AbortedTunnelsEnd
    ChunksArrive
