----------------------------- MODULE MCFileStore -----------------------------
EXTENDS FileStore, TLC

\* Two files of one name in two folders; a third one may still be written.
CONSTANTS f, g
Apart == {[x \in Files |-> CASE x = f -> At(1, <<1>>) [] x = g -> At(3, <<1>>)
                             [] OTHER -> Nowhere]}

ThreadSymmetry == Permutations(Threads)
=============================================================================
