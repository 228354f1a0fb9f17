SPECIFICATION FairSpec
CONSTANTS
    site = site
    phone = phone
    safe = safe
    danger = danger
    Targets <- MCTargets
    Grades = {safe, danger}
    Actionable = {danger}
    KindOf <- MCKindOf
    None = None
    Nodes <- MCNodes
    Marks = {safe, danger}
    MockGraph <- MCMock
    LiveGraph <- MCLive
    MaxClicks = 5
    Absent = Absent
    Nobody = Nobody
INVARIANTS
    DashboardInv
PROPERTIES
    PanelsAnswerLast
    GraphGrows
    AnswersCome
CHECK_DEADLOCK FALSE
