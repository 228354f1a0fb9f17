SPECIFICATION Spec
CONSTANTS
    Hosts = {h1, h2}
    Workers = {w1, w2}
    ENQUEUE_COOLDOWN = 1
    RECRAWL_INTERVAL = 2
    FEED_CAP = 1
    BACKFILL_BATCH = 1
    Failing = {"rows", "blocklist", "history", "graph", "broker", "process"}
    MaxFaults = 1
    MaxQueued = 1
INVARIANTS
    TypeOK
    ClaimIsAtomic
    TasksHaveRows
PROPERTIES
    CooldownBeforeFirstCrawl
    RegisterSpec
SYMMETRY Symmetry
