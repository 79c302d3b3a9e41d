SPECIFICATION FlowsSpec
CONSTANTS
    Agents = {1, 2, 3}
    DefaultTier = 10
    DefaultSlots = 1
    TierNumbers = {10, 11}
    SlotCounts = {1, 2}
    Reports <- MCNoReports
    SessionFloor = 10
    WeeklyFloor = 15
    BreakWindow = 1
    MaxNow = 3
    Items = {"i1", "i2", "i3"}
    Projects = {"p"}
    NoProject = NoProject
    Owner = Owner
    NoOne = NoOne
    NoRef = NoRef
    Same = Same
    LeaseTime = 1
    MaxItemFailures = 2
    MaxHops = 100
    Drafts <- MCWork
    Patches <- MCNoPatches
    ProjectStates <- MCUnattended
    FailureCap = 0
INVARIANTS
    OneMergePerProject
    AfterAcyclic
PROPERTIES
    SlotsRespected
