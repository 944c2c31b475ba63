SPECIFICATION Spec
CONSTANTS
    Modes = {"pb", "hls"}
    Calls = {"play", "pause", "stop", "seek", "finish", "rate0", "rate1"}
    Budgets <- MCCalmBudgets
CHECK_DEADLOCK FALSE
INVARIANT StopStops
