------------------------------ MODULE MCJobQueue ------------------------------
(* Two jobs and three tasks, all options on.                               *)
EXTENDS JobQueue, TLC

Symmetry == Permutations(Task) \cup Permutations(Job)
=============================================================================
