SPECIFICATION Spec
CONSTANTS
    MaxExecutes = 3
    MaxOutputs = 2
CHECK_DEADLOCK FALSE
INVARIANTS
    TypeOK
    StaleReplyHasCause
    OnTimeLeavesShellClean
    OutputOnceInOrder
