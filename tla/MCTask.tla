------------------------------- MODULE MCTask -------------------------------
(* Task for TLC: interchangeable tasks. *)
EXTENDS Task, TLC

Symmetric == Permutations(Tasks)
=============================================================================
