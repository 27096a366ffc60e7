SPECIFICATION FairSpec
CONSTANTS
    Agents = {a1, a2, a3}
INVARIANTS
    TypeOK
    DependencyOrder
    EachAgentOnce
    LayersAreTight
    SortOutcomeIsJustified
PROPERTIES
    SortTerminates
    ScheduleSpec
