SPECIFICATION FairSpec
CONSTANTS
    a = a
    b = b
    c = c
    Agents = {a, b, c}
    Runs = {r1, r2}
    Graphs <- AllPlans
    MaxConcurrent = 2
CHECK_DEADLOCK FALSE
INVARIANTS
    TypeOK
    PermitAccounting
    NoLostWakeup
    PromptAgreesWithResults
    OutcomeIsJustified
    NoOrphans
PROPERTIES
    ResultsAreFinal
    RunsEnd
    ScheduleSpec
