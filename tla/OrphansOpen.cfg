\* An open file is truncated after its unlink
CONSTANTS
    None = None
    Inodes = {i1, i2}
    MaxBlocks = 2
    Unlinked = TRUE
    MaxRequests = 4
    MaxCrashes = 1
    MaxFaults = 0
SPECIFICATION Spec
SYMMETRY Symmetry
INVARIANTS
    UnfinishedIsListed
CHECK_DEADLOCK FALSE
