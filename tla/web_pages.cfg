SPECIFICATION FairSpec
CONSTANTS
    Queries = {"a", "ab"}
    Blank = Blank
    Values = {"site", "phone"}
    Empty = Empty
    SeedIds = {1}
    LiveIds = {1, 2}
    FallbackIds = {3}
    MaxDecisions = 2
    NoRow = NoRow
    PanelNames = {"stats", "trends"}
    KeepLast = {"stats"}
    Figures <- MCFigures
    SeedFigure = 10
    MaxOverlap = 2
    MaxFails = 1
INVARIANTS
    PagesInv
PROPERTIES
    SearchIsLatest
    ShareIsLatest
    PanelsCatchUp
CHECK_DEADLOCK FALSE
