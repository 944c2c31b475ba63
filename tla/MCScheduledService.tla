----------------------------- MODULE MCScheduledService ------------------------------
(* ScheduledService for TLC: interchangeable tasks. *)
EXTENDS ScheduledService, TLC

Symmetric == Permutations(Tasks)
=============================================================================
