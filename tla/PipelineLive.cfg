\* Liveness: waits for room, for the age timer and for the unmount
CONSTANTS
    None = None
    Tasks = {t1, t2}
    LogCap = 11
    Tags = 8
    ExtendBatch = 2
    Credits = {8}
    Failures = {}
    MaxWork = 2
    MaxStarts = 2
    MaxSyncs = 1
    MaxExtends = 0
    MaxFaults = 0
SPECIFICATION FairSpec
PROPERTIES
    SyncEnds
    WorkGetsCommitted
    UnmountEnds
    AdmissionEnds
CHECK_DEADLOCK FALSE
