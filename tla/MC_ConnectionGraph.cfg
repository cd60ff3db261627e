SPECIFICATION RPSpec
CHECK_DEADLOCK FALSE
CONSTANTS
    root = root
    ns = ns
    w1 = w1
    NoConn = NoConn
    Conns <- Line
    Parent <- Lineage
    Flaky <- OneFlaky
    MaxRestarts = 2
INVARIANTS
    ConnectedIsAlive
    GraphIsAlive
    CleanWhenQuiet
    SortIsReplayable
PROPERTIES
    NeededIsKept
    CallsReturn
