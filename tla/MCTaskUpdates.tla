---------------------------- MODULE MCTaskUpdates ----------------------------
(* TaskUpdates for TLC. *)
EXTENDS TaskUpdates

CONSTANT NaN

(* The boundary cases of updateProgress. *)
SomeWorks == {-2, 0, 1, 3, NaN}
SomeTotals == {-2, 1, 2, NaN}
=============================================================================
