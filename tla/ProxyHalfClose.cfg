SPECIFICATION FairSpec
CONSTANTS
    MaxChunks = 2
    Capacity = 1
CHECK_DEADLOCK FALSE
PROPERTIES
    RelayIsBidirectional
