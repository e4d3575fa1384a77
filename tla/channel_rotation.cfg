SPECIFICATION Spec
CONSTANTS
    Threads = {t1, t2, t3}
    t1 = t1
    t2 = t2
    t3 = t3
    None = None
    NumChannels = 2
    NumGpfifoEntries = 3
    MaxToComplete = 1
    WlcReady = TRUE
    IvLimit = 1
    IvMin = 1
    IvSpace = 3
    GpuMayFail = FALSE
    BeginMayFail = FALSE
    Calls = {"pool", "ctrl", "rotate"}
    MaxCalls = 3
    MaxKeyVersion = 1
SYMMETRY ThreadSymmetry
CHECK_DEADLOCK FALSE
INVARIANTS
    UnlockedChannelLeft
    KeyVersionMatches
PROPERTIES
    RotationQuiescent
