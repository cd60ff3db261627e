SPECIFICATION SPSpec
CHECK_DEADLOCK FALSE
CONSTANTS
    a = a
    b = b
    Nobody = Nobody
    Callers <- OneCaller
    MaxRestarts = 1
    MaxLate = 0
    ReplayMayFail = TRUE
    CleanRestart = TRUE
PROPERTIES
    EveryCallReturns
    OldLoopEnds

