SPECIFICATION Spec
CONSTANTS
    Requests = {q1, q2}
    Targets = {site}
    Reporters = {r1}
    Allowlist = {}
    BURST_MAX_PER_WINDOW = 2
    MULTI_REPORT_THRESHOLD = 2
    DEDUP_WINDOW = 1
    Failing = {}
    MaxFaults = 0
    MaxInFlight = 2
    None = None
INVARIANTS
    RepeatCountsOnce
SYMMETRY Symmetry
