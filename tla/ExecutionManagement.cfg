SPECIFICATION FairSpec
CONSTANTS
    Requests = {r1, r2, r3, r4}
    Priorities = {1, 2}
    MaxExecutionId = 2
    OwnerWatchdog = TRUE
    NoRequest = NoRequest
INVARIANTS
    MutualExclusion
    IdsDistinct
    NoIdleLock
PROPERTIES
    ImplementsContract
    EveryCallSettles
CHECK_DEADLOCK FALSE
