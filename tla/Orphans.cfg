\* Unlink, truncation, reclaim and recovery of two inodes
CONSTANTS
    None = None
    Inodes = {i1, i2}
    MaxBlocks = 2
    Unlinked = FALSE
    MaxRequests = 3
    MaxCrashes = 1
    MaxFaults = 1
SPECIFICATION FairSpec
INVARIANTS
    TypeOK
    UnfinishedIsListed
    BlocksAccounted
    LiveHasNoDtime
    MirrorAgrees
PROPERTIES
    DeletedIsFreed
    RecoveryKeepsFiles
    RecoveryFinishes
CHECK_DEADLOCK FALSE
