SPECIFICATION RequestsSpec
CONSTANTS
    d1 = d1
    d2 = d2
    a = a
    b = b
    Dirs = {d1, d2}
    Names = {a, b}
    ExtOf <- MCExtOf
    Home = d1
    Trash = Trash
    Text = Text
    Messages <- MCMessages
    MaxItems = 2
    MaxKept = 1
    Ttl = 0
    MaxMessages = 2
    MaxCalls = 3
    MaxScans = 1
    MaxOutside = 1
    MaxTime = 1
    Runtimes = {r1, r2, r3}
    Callers = {c1, c2}
    Savers = {s1, s2}
    None = None
INVARIANTS
    OnlyWhatWasAsked
    OnlyWhatWasNamed
    StreamsKeepTheirRuntime
    OneServing
    NoneLeftOpen
PROPERTIES
    SuccessIsTrue
CHECK_DEADLOCK FALSE
