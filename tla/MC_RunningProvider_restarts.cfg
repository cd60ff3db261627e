SPECIFICATION SPSpec
CHECK_DEADLOCK FALSE
CONSTANTS
    a = a
    b = b
    Nobody = Nobody
    Callers <- TwoCallers
    MaxRestarts = 1
    MaxLate = 1
    ReplayMayFail = TRUE
    CleanRestart = TRUE
SYMMETRY Alike
INVARIANTS
    SPTypeOK
    OneRecorder
    ClosedIsDown
PROPERTIES
    CrashIsRecorded
    FirstIsKilledForFailing
