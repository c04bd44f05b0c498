SPECIFICATION LocksSpec
CONSTANTS
    N = 3
    Trash = 2
    Threads = {t1, t2, t3}
    Cleaning = TRUE
SYMMETRY ThreadSymmetry
INVARIANT NobodyStuck
