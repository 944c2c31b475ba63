SPECIFICATION Spec
CONSTANTS
    Modes = {"pb", "hls"}
    Calls = {"play", "pause", "stop", "seek", "finish", "rate0", "rate1"}
    Budgets <- MCBudgets
CHECK_DEADLOCK FALSE
INVARIANTS TypeOK SettledAgrees CallHolds
PROPERTIES FinishedOnlyAtEnd SettlesAgain StallEnds
