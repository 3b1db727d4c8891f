SPECIFICATION Spec
CONSTANTS
    Requests = {a, b}
    MaxPending = 1
    MaxSuffix = 1
    MaxDeletes = 1
    MaxScans = 1
    MaxRecordedDeletes = 1
    MaxCrashes = 1
INVARIANTS
    FilesMatchRows
CHECK_DEADLOCK FALSE
SYMMETRY Symmetry
