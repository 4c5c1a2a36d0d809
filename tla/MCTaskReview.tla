--------------------------- MODULE MCTaskReview ---------------------------
(* A task of a user and subtasks that call it back.                        *)
EXTENDS TaskReview, TLC
CONSTANTS parent, Subtasks

MCTarget == [t \in Tasks |-> IF t = parent THEN NoTask ELSE parent]
Symmetry == Permutations(Subtasks)
=============================================================================
