---------------------------- MODULE MCHlsStream ----------------------------
(* The streaming model on a playlist longer than the cached segments: left *)
(* alone, and with one or two disturbances.                                *)
EXTENDS HlsStream

MCTargets == {0, 2}
MCBudgets == {b \in [seeks: 0 .. 2, faults: 0 .. 1, stops: 0 .. 1] :
                b.seeks + b.faults + b.stops \in {0, 2}}
MCSeekBudgets == {[seeks |-> 1, faults |-> 0, stops |-> 0]}
=============================================================================
