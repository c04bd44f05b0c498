SPECIFICATION Spec
CONSTANTS
    Jobs = {j1, j2, j3}
    MaxItems = 2
    MaxAsks = 2
    Failing = TRUE
    Crashing = TRUE
    Scheduled = TRUE
    None = None
SYMMETRY JobSymmetry
INVARIANTS
    OneStream
    AnsweredOnce
    EveryChatTold
PROPERTIES
    CancelledStands
CHECK_DEADLOCK FALSE
