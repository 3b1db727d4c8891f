SPECIFICATION FairSpec
CONSTANTS
    Slots <- MCShortSlots
    Reserves = {r1, r2}
    TimeSpecified = {r2}
    Deletable = {r2}
    CanResume = FALSE
    AttemptLimit = 2
    Limits <- MCLimits
    MaxTime = 2
    Lead = 1
    ScanInterval = 2
    EndMargin = 0
    r1 = r1
    r2 = r2
CHECK_DEADLOCK FALSE
INVARIANTS
    RegistryFollowsTable
    RemovedIsStopped
    NoLostWake
PROPERTIES
    DuePrepared
