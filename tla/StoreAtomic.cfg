SPECIFICATION Spec
SYMMETRY Symmetry
CHECK_DEADLOCK FALSE
CONSTANTS
    Blocks = {b1, b2}
    AllocMap = AllocMap
    None = None
    FreePaths = {"shrink"}
    FaultKinds = {}
    LogCap = 3
    LowWater = 2
    MaxOps = 3
    MaxTid = 3
    MaxHandles = 1
    MaxCrashes = 2
    MaxFaults = 0
PROPERTY
    ImplementsAtomicStore
