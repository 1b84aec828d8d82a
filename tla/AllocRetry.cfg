\* A commit between a failed allocation and the decision to retry it
CONSTANTS
    Tasks = {t1, t2}
    None = None
    NrGroups = 2
    GroupSize = 2
    GroupInodes = 1
    Uninit = {1}
    Taken = {0, 1}
    Counts = {1, 3}
    Goals = {1}
    Retries = 1
    MaxOps = 3
    MaxCrashes = 0
    MaxFaults = 0
SPECIFICATION Spec
SYMMETRY Symmetry
PROPERTY PinnedIsRetried
CHECK_DEADLOCK FALSE
