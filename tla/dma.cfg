SPECIFICATION FairSpec
CONSTANTS
    t1 = t1
    t2 = t2
    Threads = {t1, t2}
    b1 = b1
    b2 = b2
    Blocks = {b1, b2}
    Gpus = {1, 2}
    None = None
    Plans <- MCPlans
    InitialBuffers <- MCInitialBuffers
    MaxBuffers = 3
    TrackerMayFail = TRUE
    MaxFailures = 1
    MaxCalls = 2
    MaxRegisters = 2
CHECK_DEADLOCK FALSE
INVARIANTS
    StagingIdle
    BuffersAccounted
    CopiesOrdered
    NoDanglingChannel
PROPERTIES
    CallsReturn
