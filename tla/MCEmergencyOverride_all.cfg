CONSTANTS
    Writers = {w1}
    MaxRow = 2
    FailureThreshold = 3
    SilenceAfter = 1
    ManualTtl = 2
    SuppressFor = 2
    MaxMishaps = 2
    Mixes <- AllMixes
SPECIFICATION FairSpec
INVARIANTS RowsKeepMode
PROPERTIES RemovedIsInCloud OperatorDecides OutageOpensMode ModeEnds
