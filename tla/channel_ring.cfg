SPECIFICATION Spec
CONSTANTS
    Threads = {t1, t2}
    t1 = t1
    t2 = t2
    None = None
    NumChannels = 1
    NumGpfifoEntries = 3
    MaxToComplete = 1
    WlcReady = FALSE
    IvLimit = 1
    IvMin = 1
    IvSpace = 3
    GpuMayFail = TRUE
    BeginMayFail = TRUE
    Calls = {"pool", "channel", "ctrl", "rotate", "poll"}
    MaxCalls = 4
    MaxKeyVersion = 1
SYMMETRY ThreadSymmetry
INVARIANTS
    ClaimsAccounted
    RingSafe
    RetiredAfterExecution
    LaunchInOrder
    PushInfosAccounted
    IvNeverExhausted
PROPERTIES
    CountersImplemented
