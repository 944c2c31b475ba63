----------------------------- MODULE MCService ------------------------------
(* Service for TLC: interchangeable tasks. *)
EXTENDS Service, TLC

Symmetric == Permutations(Tasks)
=============================================================================
