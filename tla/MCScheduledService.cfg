CONSTANTS
  Tasks = {t1, t2}
  NoTask = NoTask
  Reentrant = {"cancel"}
  OffFxStart = FALSE
  EarlyUse = FALSE
  MaxCalls = 3
  MaximumFailureCount = 2
SPECIFICATION SchedSpec
SYMMETRY Symmetric
INVARIANTS  DelayIsArmed
PROPERTY CancelStopsSuccesses
CHECK_DEADLOCK FALSE
