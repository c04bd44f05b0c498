SPECIFICATION Spec
CONSTANTS
    N = 3
    Trash = 2
    Threads = {t1, t2}
    Cleaning = FALSE
    f = f
    g = g
    Files = {f, g}
    Bases = {1}
    Placements <- Apart
    MaxAsked = 2
SYMMETRY ThreadSymmetry
INVARIANTS
    RollBackExact
PROPERTIES
    NothingOverwritten
    LocksSpec
