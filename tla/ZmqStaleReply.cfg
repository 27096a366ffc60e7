SPECIFICATION Spec
CONSTANTS
    MaxExecutes = 3
    MaxOutputs = 2
CHECK_DEADLOCK FALSE
INVARIANTS
    ReplyIsOwn
