SPECIFICATION FairSpec
CONSTANTS
    Sessions = {s1, s2}
    Foreground = {s1}
    Ports = 2
    Contested = {1}
CHECK_DEADLOCK FALSE
INVARIANTS
    TypeOK
    LeftRelaysHaveCause
    ActiveRelaysStay
PROPERTIES
    SessionsEnd
