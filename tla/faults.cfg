SPECIFICATION FairSpec
CONSTANTS
    Modes = {"cc", "plain", "smc"}
    Pages = {p1}
    BufferSize = 2
    MaxBatchSize = 1
    MaxBatches = 1
    MaxReplays = 2
    MaxEvents = 2
CHECK_DEADLOCK FALSE
INVARIANTS
    InCharge
    KrefExact
    Quiesced
PROPERTIES
    FaultsServiced
    ThreadsReturn
