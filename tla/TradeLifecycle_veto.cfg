SPECIFICATION Spec
CONSTANTS
    t1 = t1
    t2 = t2
    i1 = i1
    Instruments = {i1}
    HumanActions = {"APPROVE", "REJECT", "MODIFY", "REQUEST_MORE_ANALYSIS"}
    LimitChoices <- MCLooseOnly
    NoTrade = NoTrade
    Trades = {t1}
    Idea <- MCOneIdea
    Handlers = {h1}
    OrderQuantities = {3}
    RefusedQuantities = FALSE
    DefaultLimits <- MCLoose
    MaxActions = 2
    MaxCrashes = 0
    MaxAborts = 0
INVARIANTS
    VetoIsAbsolute
CHECK_DEADLOCK FALSE
