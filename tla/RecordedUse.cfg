SPECIFICATION FairSpec
CONSTANTS
    a = a
    b = b
    q = q
    r1 = r1
    r2 = r2
    NoRec = NoRec
    Recs = {r1, r2}
    Calls = {a, b, q}
    Acquires = {a, b}
    RecOf <- MCRecOf
    Sessions = {s1}
    Deleters = {d1}
    MaxId = 2
    MaxPeers = 2
    MaxSendFailures = 1
INVARIANTS
    AnswersMatch
    LeasesAccounted
PROPERTIES
    ImplementsExclusion
    WaitersLeave
CHECK_DEADLOCK FALSE
