SPECIFICATION GESpec
CONSTANTS
    q1 = q1
    q2 = q2
    d1 = d1
    d2 = d2
    d3 = d3
    Queries <- TwoQueries
    Datapoints <- ThreeDatapoints
    Checksums <- JoinChecksums
    Props <- JoinProps
    Resolved <- JoinResolved
    Collect <- JoinCollect
    ResultCap = 1
    NoQuery = NoQuery
    Collector = Collector
    Finisher = Finisher
INVARIANTS
    CompleteOnSuccess
    RunsOnce
    RunsOnReportedProps
PROPERTIES
    OncePerRound
    ExecuteReturns
    ImplementsContractSafety
