SPECIFICATION Spec
CONSTANTS
    ReadMax = 2
    NumCached = 2
    NumSegments = 3
    SegSize = 2
    Targets <- MCTargets
    Budgets <- MCBudgets
CHECK_DEADLOCK FALSE
INVARIANTS TypeOK InOrder InBounds
PROPERTIES NoOverwrite PlaysToEnd ControlReturns
