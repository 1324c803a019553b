SPECIFICATION FairSpec
CONSTANTS
    t1 = t1
    t2 = t2
    i1 = i1
    Instruments = {i1}
    HumanActions = {"APPROVE", "REJECT", "MODIFY"}
    LimitChoices <- MCLimitChoices
    NoTrade = NoTrade
    Trades = {t1, t2}
    Idea <- MCOpposed
    Handlers = {h1}
    OrderQuantities = {3, 5}
    RefusedQuantities = FALSE
    DefaultLimits <- MCLoose
    MaxActions = 2
    MaxCrashes = 1
    MaxAborts = 0
INVARIANTS
    QuietStoreMatchesMemory
PROPERTIES
    CloseOnlyReduces
    SubmissionSettles
CHECK_DEADLOCK FALSE
