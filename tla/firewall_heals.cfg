SPECIFICATION FairSpec
CONSTANTS
    Domains = {1}
    Seed = {}
    Handlers = {h1, h2}
    LEASE = 1
    MAX_BLOCK_RULES = 2
    Failing = {"gateway", "worker", "browser"}
    MaxDeaths = 1
    MaxEdits = 0
    Unset = Unset
PROPERTIES
    RulesHeal
    RebuildHeals
    LeaseLasts
