SPECIFICATION FairSpec
CONSTANTS
    Hosts = {h1, h2}
    Workers = {w1}
    ENQUEUE_COOLDOWN = 1
    RECRAWL_INTERVAL = 2
    FEED_CAP = 1
    BACKFILL_BATCH = 1
    Failing = {"rows", "blocklist", "broker", "process"}
    MaxFaults = 2
    MaxQueued = 1
INVARIANTS
    RecordedCrawlIsStored
PROPERTIES
    NoHostIsStuck
    BacklogIsWorkedOff
