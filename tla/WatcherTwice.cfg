SPECIFICATION WatchSpec
CONSTANTS
    Files = {a, b}
    Threshold = 1
    MaxOutside = 2
INVARIANT
    EventsHold
CHECK_DEADLOCK FALSE
