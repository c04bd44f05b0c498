---------------------------- MODULE MCAgentGraph ----------------------------
(* Small instances of AgentGraph for TLC. *)
EXTENDS AgentGraph, TLC

Single(f) == [tool |-> "single", files |-> {f}]
Batch(fs) == [tool |-> "batch", files |-> fs]
Delete(f) == [tool |-> "delete", files |-> {f}]
Plain(t)  == [tool |-> t, files |-> {}]

\* Moves of single files and of everything: the cumulative approval.
BulkSteps == {Single(f) : f \in Files} \cup {Batch(Files)}

\* A step that counts, one that always asks, one that ends the run and one that
\* only calls the model.
MixedSteps == {Single(f) : f \in Files} \cup {Delete(f) : f \in Files}
                  \cup {Plain("clarify"), Plain("other")}

FileSymmetry == Permutations(Files)
=============================================================================
