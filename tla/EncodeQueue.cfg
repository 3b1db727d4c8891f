SPECIFICATION FairSpec
CONSTANTS
    r1 = r1
    r2 = r2
    Requests = {r1, r2}
    FromRecording = {r2}
    SourceOf <- MCSourceOf
    RemoveOriginal = {r1}
    MaxId = 5
    FirstIds = {5}
    concurrentEncodeNum = 1
    encodeQueueLimit = 1
    Disturbances <- MCDisturbances
INVARIANTS
    OneJobPerRequest
    NoRequestLost
    ListOrder
    FinishedKept
PROPERTIES
    EveryRequestEnds
CHECK_DEADLOCK FALSE
