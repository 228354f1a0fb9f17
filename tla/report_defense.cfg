SPECIFICATION Spec
CONSTANTS
    Requests = {q1, q2, q3}
    Targets = {site, bank}
    Reporters = {r1, r2, r3}
    Allowlist = {bank}
    BURST_MAX_PER_WINDOW = 1
    MULTI_REPORT_THRESHOLD = 2
    DEDUP_WINDOW = 1
    Failing = {"events", "count", "reports", "graph", "gateway"}
    MaxFaults = 2
    MaxInFlight = 3
    None = None
INVARIANTS
    TypeOK
    AllowlistProtected
    ReporterIsLimited
    SignalIsTrue
    SignalNotLost
    AnsweredReportCounts
    
SYMMETRY Symmetry
