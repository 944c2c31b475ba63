CONSTANTS
  Tasks = {t1, t2}
  NoTask = NoTask
  Reentrant = {"cancel"}
  OffFxStart = FALSE
  EarlyUse = FALSE
  MaxCalls = 2
  MaximumFailureCount = 2
SPECIFICATION SchedSpec
PROPERTY CancelStopsIteration
CHECK_DEADLOCK FALSE
