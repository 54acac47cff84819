------------------------------- MODULE MCMutex -------------------------------
(* Mutex for TLC: the tasks are interchangeable. *)
EXTENDS Mutex, TLC

Symmetry == Permutations(Tasks)
==============================================================================
