\* A ring of seven blocks and ids that wrap
CONSTANTS
    None = None
    First = 1
    Maxlen = 8
    TidSpan = 16
    FirstTid = 15
    Tags = 1
    LowWater = 4
    Csum = TRUE
    Looks = {1}
    MaxCaptures = 2
    MaxRevokes = 1
    MaxCommits = 3
    MaxStops = 3
    MaxFaults = 1
SPECIFICATION Spec
INVARIANTS
    TypeOK
    RecoveryFindsLog
    CheckpointFindsLog
    ErrorIsKept
CHECK_DEADLOCK FALSE
