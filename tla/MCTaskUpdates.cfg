CONSTANTS
  NaN = NaN
  Threads = {a, b}
  Works <- SomeWorks
  Totals <- SomeTotals
  NonFinite = {NaN}
  MaxUpdates = 4
SPECIFICATION FairSpec
INVARIANTS TypeOK OneRunnable 
PROPERTIES NeverGoesBack UpdateIsShown
CHECK_DEADLOCK FALSE
