SPECIFICATION FairSpec
CONSTANTS
    Jobs = {j1, j2, j3}
    MaxItems = 2
    MaxAsks = 2
    Failing = FALSE
    Crashing = FALSE
    Scheduled = FALSE
    None = None
PROPERTIES
    CancelNeverApproves
    JobsEnd
    CancelEndsWait
CHECK_DEADLOCK FALSE
