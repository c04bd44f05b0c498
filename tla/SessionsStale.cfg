SPECIFICATION Spec
CONSTANTS
    Jobs = {j1, j2, j3, j4}
    MaxItems = 2
    MaxAsks = 2
    Failing = FALSE
    Crashing = FALSE
    Scheduled = FALSE
    None = None
SYMMETRY JobSymmetry
INVARIANT LaterRequestsUnharmed
CHECK_DEADLOCK FALSE
