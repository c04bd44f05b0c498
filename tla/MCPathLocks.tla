----------------------------- MODULE MCPathLocks -----------------------------
EXTENDS PathLocks, TLC

\* Threads are interchangeable; directories are not, their order matters.
ThreadSymmetry == Permutations(Threads)
=============================================================================
