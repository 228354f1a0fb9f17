SPECIFICATION FairSpec
CONSTANTS
    Listable <- MCListable
    Looks <- MCLooks
    MaxChanges = 2
    None = None
    Here <- MCHere
    Links <- MCLinks
    Forms = {"login", "search"}
    Sensitive = {"login"}
    Shadowed = {"login"}
    MaxRuns = 2
    MaxTargets = 2
    Pages = {1, 2}
    MaxBlocks = 2
    MaxDays = 1
INVARIANTS
    SurfacesInv
    PanelFits
    CountIsExact
PROPERTIES
    UserIsAsked
    SurfacesSettle
CHECK_DEADLOCK FALSE
