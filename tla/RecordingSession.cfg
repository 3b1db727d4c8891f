SPECIFICATION FairSpec
CONSTANTS
    DropCheck = TRUE
    MaxDisturbances = 3
INVARIANTS
    NothingHalfRecorded
    UseCoversRecording
PROPERTIES
    RecordersEnd
CHECK_DEADLOCK FALSE
