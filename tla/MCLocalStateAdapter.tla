------------------------ MODULE MCLocalStateAdapter ------------------------
(* One or two processes on a run with two tasks.                           *)
EXTENDS LocalStateAdapter, TLC

CONSTANTS p1, p2, t1, t2, v1, v2

Symmetry == Permutations(TaskId)

=============================================================================
