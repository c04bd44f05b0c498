SPECIFICATION FairSpec
CONSTANTS
    Files = {a}
    Steps <- MixedSteps
    Threshold = 1
    MaxPlan = 2
    MaxReplans = 1
    MaxCalls = 3
    MaxTools = 2
    MaxInner = 2
    MaxRequests = 2
    MaxClock = 1
INVARIANTS
    TypeOK
    PendingCurrent
    BudgetKept
PROPERTIES
    RunEnds
CHECK_DEADLOCK FALSE
