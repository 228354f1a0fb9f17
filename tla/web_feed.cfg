SPECIFICATION FairSpec
CONSTANTS
    MAX_ROWS = 2
    SeedRows = 2
    MaxEvents = 2
    MaxFailures = 2
    Scanners = {"request"}
INVARIANTS
    FeedInv
    OthersGetTheEvent
PROPERTIES
    OnceAndNotAfterLeaving
    Reconnects
CHECK_DEADLOCK FALSE
