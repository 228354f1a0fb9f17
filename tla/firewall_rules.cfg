SPECIFICATION Spec
CONSTANTS
    Domains = {1, 2}
    Seed = {1}
    Handlers = {h1}
    LEASE = 1
    MAX_BLOCK_RULES = 2
    Failing = {"gateway", "database"}
    MaxDeaths = 0
    MaxEdits = 1
    Unset = Unset
INVARIANTS
    TypeOK
    RulesAccord
