--------------------------- MODULE MCQuantumPulse ----------------------------
(* QuantumPulse for TLC: interchangeable scenes. *)
EXTENDS QuantumPulse, TLC

Symmetric == Permutations(Flaky) \union Permutations(Scenes \ Flaky)
=============================================================================
