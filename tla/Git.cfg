SPECIFICATION Spec
CONSTANTS
    Files = {f, g}
    MaxCalls = 3
    MaxForeign = 1
CHECK_DEADLOCK FALSE
INVARIANTS
    TypeOK
PROPERTIES
    SuccessIsPublished
    OthersChangeForCause
    OvertakenForEver
