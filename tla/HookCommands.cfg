SPECIFICATION FairSpec
CONSTANTS
    Reserves = {a}
    Configured = {"start", "end", "delete"}
    MaxPending = 1
INVARIANTS
    NoStrayChild
    HeldDeletionOrder
PROPERTIES
    CommandsEnd
CHECK_DEADLOCK FALSE
