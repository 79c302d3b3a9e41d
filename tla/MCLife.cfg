SPECIFICATION LifeSpec
CONSTANTS
    Agents = {1, 2, 3}
    DefaultTier = 10
    DefaultSlots = 3
    TierNumbers = {10, 11}
    SlotCounts = {3}
    Reports <- MCNoReports
    SessionFloor = 10
    WeeklyFloor = 15
    BreakWindow = 1
    MaxNow = 2
    Items = {"i1"}
    Projects = {"p"}
    NoProject = NoProject
    Owner = Owner
    NoOne = NoOne
    NoRef = NoRef
    Same = Same
    LeaseTime = 1
    MaxItemFailures = 2
    MaxHops = 100
    Drafts <- MCDrafts
    Patches <- MCPatches
    ProjectStates <- MCPolicies
    FailureCap = 2
INVARIANTS
    ItemsWellFormed
    FourEyes
    FailuresHold
    OffersMatchClaims
PROPERTIES
    ReviewBelongsToHolder
