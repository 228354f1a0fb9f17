SPECIFICATION Spec
CONSTANTS
    Hosts = {h1}
    Workers = {w1, w2}
    ENQUEUE_COOLDOWN = 1
    RECRAWL_INTERVAL = 2
    FEED_CAP = 1
    BACKFILL_BATCH = 1
    Failing = {}
    MaxFaults = 0
    MaxQueued = 1
PROPERTIES
    FinishedCrawlIsMarked
