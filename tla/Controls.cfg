SPECIFICATION MCSpec
CONSTANTS
    DeskRequests = {d1}
    AdminRequests = {a1, a2}
    Values = {low, high}
    DefaultValue = low
    Nobody = Nobody
    MaxAhead = 2
    MaxCrashes = 1
    MaxAborts = 1
    NoContext = NoContext
    Contexts <- MCContexts
    Issuers <- Ys
    Visits <- Xs
    Changes <- MCChanges
    Targets <- MCTargets
    MaxLinks = 2
    MaxStatusChanges = 2
    MaxAccountFaults = 1
    Cycles = {"cycle"}
    Patches <- Ys
    Touched <- MCTouched
    Unseeded = {"BEAR"}
    Failing = {"STORAGE", "SKEPTIC"}
    WeekBalances = {1, 5}
    DemandDeltas = {15, 16}
    MaxPatches = 2
    MaxAgentFaults = 1
    x1 = x1
    x2 = x2
    y1 = y1
    y2 = y2
    Quantities <- MCQuantities
    MarketPrices = {10, 13}
    LimitPrices = {11}
    Costs = {1}
    MaxFills = 4
    Parts = {"settings", "governor", "book", "accounts", "agents"}
SYMMETRY Symmetry
INVARIANTS
    AuditedChangesAreDurable LimitsNeverRegress MatchesReference FillsExplainPosition
    LinkOpensOneSession DisabledAgentsStayOut
PROPERTIES
    StatusFollowsTable
CHECK_DEADLOCK FALSE
