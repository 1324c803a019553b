SPECIFICATION MCSpec
CONSTANTS
    api = api
    worker = worker
    Processes = {api, worker}
    Numberings <- MCNumberings
    MaxVersion = 2
    MaxFetches = 4
    MaxFaults = 1
    Admins = {a1, a2}
    Datasets = {d1}
    Types = {"MANUAL_UPLOAD", "WEBHOOK", "S3"}
    MaxRow = 3
    MaxPulls = 2
    MaxIngestFaults = 1
    o1 = o1
    o2 = o2
    c1 = c1
    c2 = c2
    Orgs = {o1, o2}
    Classes = {c1, c2}
    OwnedDatasets <- MCDatasets
    Pairs <- MCPairs
    PolicyChoices <- MCPolicies
    Days = {0, 99}
    Forever = 99
    Platform = Platform
    MaxClock = 1
    MaxPolicies = 2
    MaxEdits = 2
    MaxOrders = 1
    MaxPurgeFaults = 1
INVARIANTS
    HistoryIsSound RowsAreAccountedFor
PROPERTIES
    PurgeFollowsPolicy ExpiredIsPurged
CHECK_DEADLOCK FALSE
