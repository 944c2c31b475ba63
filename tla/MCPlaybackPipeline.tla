------------------------- MODULE MCPlaybackPipeline -------------------------
(* Budgets for the pipeline: many calls undisturbed or with stalls, and    *)
(* fewer where something fails or a call does not wait.                    *)
EXTENDS PlaybackPipeline

Budget(calls, stalls, faults, rush) ==
    [calls |-> calls, stalls |-> stalls, faults |-> faults, rush |-> rush]

MCBudgets == {Budget(3, 1, 0, 0), Budget(2, 2, 0, 0), Budget(1, 1, 1, 0), Budget(2, 0, 1, 0), Budget(2, 0, 0, 1)}
MCCalmBudgets == {Budget(3, 1, 0, 0)}
=============================================================================
