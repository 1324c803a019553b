SPECIFICATION FairSpec
CONSTANTS
    Months = 2
    ScanLimit = 3
    DotEnv = "mock"
    Settings = {"live", "unset"}
    ResearchEvery = 0
    MaxFetches = 2
    MaxEvents = 3
INVARIANT ServedCurveHasOneSource
PROPERTIES CurveIsNeverBlanked ProcessesCatchUp
