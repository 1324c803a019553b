SPECIFICATION MCSpec
CONSTANTS
    Jobs <- MCJobs
    Kind <- MCKind
    ProcessOf <- MCProcessOf
    Market = NG
    Org = org1
    Sights <- MCSights
    Definitions <- MCDefinitions
    Books <- MCBooks
    Closed <- MCClosed
    Plans <- MCPlans
    CacheLimit = 2
    ListLimit = 3
    BriefHours = 0
    MaxClock = 1
    MaxFaults = 1
INVARIANTS
    AlphaTypeOK MaterialChangesAreReported EverySignalIsExplained
    MarketIsReadOneWay StressIsCoherent AnswersKeepToTheirPermission
PROPERTIES
    ReplayIsStable ReportsAreComplete
CHECK_DEADLOCK FALSE
