SPECIFICATION SPSpec
CHECK_DEADLOCK FALSE
CONSTANTS
    a = a
    b = b
    Nobody = Nobody
    Callers <- OneCaller
    MaxRestarts = 1
    MaxLate = 1
    ReplayMayFail = FALSE
    CleanRestart = FALSE
PROPERTIES
    ReconnectReturns
