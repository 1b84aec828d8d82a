\* Safety: a ring that holds little more than one transaction, restarts included
CONSTANTS
    None = None
    Tasks = {t1, t2}
    LogCap = 6
    Tags = 4
    ExtendBatch = 2
    Credits = {2}
    Failures = {"commit", "checkpoint", "fs", "shutdown"}
    MaxWork = 2
    MaxStarts = 2
    MaxSyncs = 1
    MaxExtends = 1
    MaxFaults = 1
SPECIFICATION Spec
SYMMETRY Symmetry
INVARIANTS
    TypeOK
    SeatOrder
    OpenHandlesHoldTransaction
    CreditsAccounted
    SyncIsDurable
    CleanUnmount
CHECK_DEADLOCK FALSE
