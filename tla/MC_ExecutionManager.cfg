SPECIFICATION EMSpec
CONSTANTS
    q1 = q1
    q2 = q2
    d1 = d1
    d2 = d2
    Queries <- TwoQueries
    Datapoints <- TwoDatapoints
    Checksums <- Shared
    ResultCap = 1
    NoQuery = NoQuery
INVARIANTS
    NilMeansDelivered
PROPERTIES
    GateHolds
    NoSecondAnswer
    StopReturns
    NoStrandedWorker
