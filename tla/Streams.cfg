SPECIFICATION FairSpec
CONSTANTS
    Streams = {a, b}
    MaxId = 1
    Leftovers <- MCLeftovers
    MaxFailures = 1
INVARIANTS
    NothingLeft
PROPERTIES
    WatchedFilesKept
    StreamsEnd
CHECK_DEADLOCK FALSE
