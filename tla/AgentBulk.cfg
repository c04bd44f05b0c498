SPECIFICATION Spec
CONSTANTS
    Files = {a, b}
    Steps <- BulkSteps
    Threshold = 1
    MaxPlan = 2
    MaxReplans = 1
    MaxCalls = 4
    MaxTools = 3
    MaxInner = 0
    MaxRequests = 1
    MaxClock = 2
SYMMETRY FileSymmetry
INVARIANTS
    BulkNeedsApproval
PROPERTIES
    OnlyApprovedFiles
    RejectedStops
CHECK_DEADLOCK FALSE
