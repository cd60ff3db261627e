SPECIFICATION Spec
CONSTANT
    Programs <- AllPrograms
PROPERTY
    EveryPointIsReported
INVARIANTS
    FirstReportIsRight
    NothingIsMissing
