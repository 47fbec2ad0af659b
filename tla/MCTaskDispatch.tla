--------------------------- MODULE MCTaskDispatch ---------------------------
(* TaskDispatch on small sets of processes, tasks and worker slots.         *)
EXTENDS TaskDispatch, TLC

Symmetry == Permutations(Procs) \cup Permutations(Workers)
=============================================================================
