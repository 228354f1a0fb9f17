SPECIFICATION FairSpec
CONSTANTS
    Gateways = {g1, g2}
    Default = g1
    Seed = Seed
    Cached = Cached
    None = None
    Codes = {c1}
    MaxHistory = 2
    MaxActs = 3
    MaxSaves = 1
INVARIANTS
    MobileInv
    ListFollowsGateway
PROPERTIES
    MobileSettles
CHECK_DEADLOCK FALSE
