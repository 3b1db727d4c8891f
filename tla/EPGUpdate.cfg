SPECIFICATION FairSpec
CONSTANTS
    Programs = {p, q}
    Near = {p}
    Products = {"mirakurun", "mirakc"}
    MaxChanges = 2
    MaxConnects = 2
    MaxEnds = 1
    MaxFailures = 1
    MaxCrashes = 1
INVARIANTS
    AliveIsSynced
PROPERTIES
    Converges
    ChangesAnnounced
CHECK_DEADLOCK FALSE
