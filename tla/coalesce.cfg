SPECIFICATION FairSpec
CONSTANTS
    Accesses = {1, 2, 3}
    MaxUtlb = 1
    Utlbs <- UtlbIds
    Instances = {0, 1}
    Pages = {1}
    Workloads <- MCWorkloads
    MaxBatchSize = 2
    UpdatePutRatio = 50
    MaxDisturbances = 1
CHECK_DEADLOCK FALSE
INVARIANTS
    BatchExact
    CancelFresh
    CancelComplete
PROPERTIES
    CancelPrecise
    AccessesEnd
