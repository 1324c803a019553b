SPECIFICATION MCSpec
CONSTANTS
    People <- MCUsers
    OrganizationOf <- MCOrganizationOf
    Claims <- MCClaims
    RoleNames <- MCRoleNames
    AgentTypes <- MCAgentTypes
    Workspaces <- MCWorkspaces
    WorkspaceOwner <- MCWorkspaceOwner
    Datasets <- MCDatasets
    Owner <- MCOwner
    ClassOf <- MCClassOf
    Classes <- MCClasses
    AllowedByDefault <- MCAllowed
    Platform = "platform"
    MaxGrants = 2
    MaxPolicies = 2
    MaxChanges = 3
    Admins <- MCAdmins
    PositionReader = "ENTERPRISE_OPPORTUNITY_ENGINE"
    PositionDatasets <- MCPositionDatasets
    RecordRows <- MCRecordRows
    SignalRows <- MCSignalRows
    ViewRows <- MCViewRows
    NoMarket = "none"
    TradeIdeas <- MCIdeas
    Jobs <- MCOpportunityJobs
    MaxPosts = 3
    MaxJobs = 1
    MaxJobFaults = 1
    Sessions <- MCSessions
    Senders <- Xs
    Topics <- MCTopics
    Required <- MCRequired
    MaxQuestions = 2
    MaxFaults = 1
    Features <- MCFeatures
    Sensitive <- MCSensitive
    Roles <- MCRoles
    FirstRole = "TRADER"
    Grants <- MCGrants
    OldRelease <- MCOldRelease
    Users <- MCUsers
    Callers <- MCCallers
    CallerRoles <- MCCallerRoles
    Names <- MCNames
    Values <- MCValues
    DefaultValue = "x"
    Boots <- Ys
    Slots <- Xs
    MaxOrganizations = 2
    MaxEdits = 2
    MaxRightsFaults = 1
    x1 = x1
    x2 = x2
    y1 = y1
    y2 = y2
    Parts = {"tables"}
SYMMETRY Symmetry
INVARIANTS AgentGrantsAreApart
CHECK_DEADLOCK FALSE
