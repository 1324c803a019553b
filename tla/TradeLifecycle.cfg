SPECIFICATION Spec
CONSTANTS
    t1 = t1
    t2 = t2
    i1 = i1
    Instruments = {i1}
    HumanActions = {"APPROVE", "REJECT", "MODIFY", "REQUEST_MORE_ANALYSIS"}
    LimitChoices <- MCLooseOnly
    NoTrade = NoTrade
    Trades = {t1}
    Idea <- MCOneIdea
    Handlers = {h1, h2}
    OrderQuantities = {3}
    RefusedQuantities = TRUE
    DefaultLimits <- MCLoose
    MaxActions = 3
    MaxCrashes = 1
    MaxAborts = 1
SYMMETRY MCHandlerSymmetry
INVARIANTS
    VetoedTradeNeedsRework
    RecordsInOrder
PROPERTIES
    KeepsPromise
CHECK_DEADLOCK FALSE
