SPECIFICATION Spec
CONSTANTS
    ReadMax = 2
    NumCached = 2
    NumSegments = 3
    SegSize = 2
    Targets <- MCTargets
    Budgets <- MCSeekBudgets
CHECK_DEADLOCK FALSE
PROPERTY SeekReturns
