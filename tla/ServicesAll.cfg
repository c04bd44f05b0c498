SPECIFICATION ServicesSpec
CONSTANTS
    Threads = {t1, t2, t3}
    Keys = {k1, k2}
    Old = Old
    Env = Env
    None = None
    MaxCrashes = 2
    MaxSaves = 3
    Jobs = {j1, j2}
    Folders = {d1, d2}
    MaxRuns = 3
    Talks = {s1, s2, s3}
    MaxSessions = 1
    MaxAge = 1
    MaxTime = 4
    Copies = {f1, f2, f3}
    Contents = {x, y}
    Cleaners = {c1, c2}
    Absent = Absent
    MaxEdits = 2
    MaxScans = 1
    MaxCleanups = 2
    Chats = {a, b}
    Timed = {s}
    Nobody = Nobody
    MaxMessages = 2
    MaxApprovals = 2
    MaxDrops = 1
INVARIANTS
    KeyNeverLost
    ChosenKeyServed
    OneRunPerFolder
    BusyHasRun
    CopyKept
    BusyAgrees
    ApprovalsAgree
PROPERTIES
    ConversationsKept
CHECK_DEADLOCK FALSE
