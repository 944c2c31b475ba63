CONSTANTS
  Tasks = {t1, t2}
  NoTask = NoTask
  Reentrant = {"cancel"}
  OffFxStart = TRUE
  EarlyUse = FALSE
  MaxCalls = 3
SPECIFICATION SvcFairSpec
INVARIANTS NoOrphan  
PROPERTIES RefinesReusableWorker StartedEnds
CHECK_DEADLOCK FALSE
