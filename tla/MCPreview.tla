----------------------------- MODULE MCPreview -----------------------------
EXTENDS Preview, TLC
CONSTANTS a, b
\* Both files have the same name, in different folders.
OneName == [i \in Items |-> "n"]
Symmetry == Permutations(Requests)
=============================================================================
