SPECIFICATION FairSpec
CONSTANTS
    rec1 = rec1
    live = live
    enc = enc
    user = user
    one = one
    full = full
    job = job
    Recs = {rec1}
    Upcoming = {rec1}
    Videos = {live, enc}
    RecOf <- MCRecOf
    Recorded <- MCRecorded
    Encoded = {enc}
    Requests = {user, one, full, job}
    KindOf <- MCKindOf
    Asked <- MCAsked
    Made <- MCMade
    MaxRequests = 2
    MaxProtects = 1
    MaxCleanups = 1
    MaxFailures = 1
INVARIANTS
    ContentSettles
PROPERTIES
    ProtectedKept
    RequestsEnd
CHECK_DEADLOCK FALSE
