----------------------------- MODULE MCSessions -----------------------------
EXTENDS Sessions, TLC

\* Requests are interchangeable.
JobSymmetry == Permutations(Jobs)
=============================================================================
