SPECIFICATION Spec
SYMMETRY Symmetry
CHECK_DEADLOCK FALSE
CONSTANTS
    Blocks = {b1, b2}
    AllocMap = AllocMap
    None = None
    FreePaths = {"shrink", "reclaim"}
    FaultKinds = {"commit", "checkpoint", "fs"}
    LogCap = 2
    LowWater = 1
    MaxOps = 3
    MaxTid = 3
    MaxHandles = 1
    MaxCrashes = 1
    MaxFaults = 1
INVARIANTS
    TypeOK
    ReadsNewest
    NoReuseBeforeDurableFree
    RecoveredMetadataIntact
