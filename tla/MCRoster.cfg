SPECIFICATION Spec
CONSTANTS
    Agents = {1, 2}
    DefaultTier = 10
    DefaultSlots = 1
    TierNumbers = {10, 11}
    SlotCounts = {1}
    Reports <- MCTwoReports
    SessionFloor = 10
    WeeklyFloor = 15
    BreakWindow = 1
    MaxNow = 0
    Items = {"i1"}
    Projects = {"p"}
    NoProject = NoProject
    Owner = Owner
    NoOne = NoOne
    NoRef = NoRef
    Same = Same
    LeaseTime = 1
    MaxItemFailures = 2
    MaxHops = 100
    Drafts <- MCOne
    Patches <- MCWakePatches
    ProjectStates <- MCPaused
    FailureCap = 0
INVARIANTS
    NoGhostWorker
PROPERTIES
    NoMissedWake
