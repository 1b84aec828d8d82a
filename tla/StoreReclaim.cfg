SPECIFICATION Spec
CHECK_DEADLOCK FALSE
CONSTANTS
    Blocks = {b1}
    AllocMap = AllocMap
    None = None
    FreePaths = {"reclaim"}
    FaultKinds = {}
    LogCap = 2
    LowWater = 1
    MaxOps = 2
    MaxTid = 2
    MaxHandles = 1
    MaxCrashes = 1
    MaxFaults = 0
INVARIANT
    RecoveredDataIntact
