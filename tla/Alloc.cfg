\* Two groups of two blocks, one of them uninitialized
CONSTANTS
    Tasks = {t1, t2}
    None = None
    NrGroups = 2
    GroupSize = 2
    GroupInodes = 1
    Uninit = {1}
    Taken = {0, 1}
    Counts = {1, 2, 3}
    Goals = {0, 1}
    Retries = 1
    MaxOps = 3
    MaxCrashes = 1
    MaxFaults = 1
SPECIFICATION Spec
SYMMETRY Symmetry
INVARIANTS
    TypeOK
    CountsAgree
    NoFalseAlarm
    NoEarlyReuse
CHECK_DEADLOCK FALSE
