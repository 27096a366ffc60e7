SPECIFICATION FairSpec
CONSTANTS
    Callers = {c1, c2}
    Closers = {k1, k2}
CHECK_DEADLOCK FALSE
INVARIANTS
    TypeOK
    NoLostConnection
PROPERTIES
    PostsOnOpenSession
    CloseClosesAll
    CallsEnd
