SPECIFICATION Spec
CONSTANTS
    Api = api
    Workers = {worker}
    h1 = h1
    h2 = h2
    Handlers = {h1, h2}
    Models = {default, next}
    DefaultModel = default
    NoModel = none
    PromptChoices = {TRUE}
    MaxVersions = 2
    MaxModelRows = 2
    MaxBoots = 2
    MaxRequests = 3
    MaxFaults = 1
SYMMETRY MCSymmetry
INVARIANTS
    EvaluationNeverBypassed
    OnlyEvaluatedGoesLive
    RollbackIsAudited
PROPERTIES
    PromotionLeavesOne
CHECK_DEADLOCK FALSE
