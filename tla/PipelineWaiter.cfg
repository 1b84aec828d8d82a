\* A log-space waiter whose checkpoint pass fails once
CONSTANTS
    None = None
    Tasks = {t1, t2}
    LogCap = 4
    Tags = 4
    ExtendBatch = 2
    Credits = {1}
    Failures = {"checkpoint"}
    MaxWork = 2
    MaxStarts = 2
    MaxSyncs = 0
    MaxExtends = 0
    MaxFaults = 1
SPECIFICATION FairSpec
PROPERTY AdmissionEnds
CHECK_DEADLOCK FALSE
