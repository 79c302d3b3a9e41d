SPECIFICATION RotationSpec
CONSTANTS
    Agents = {1, 2, 3}
    DefaultTier = 10
    DefaultSlots = 3
    TierNumbers = {10, 11}
    SlotCounts = {3}
    Reports <- MCReports
    SessionFloor = 10
    WeeklyFloor = 15
    BreakWindow = 1
    MaxNow = 3
INVARIANTS
    ExactlyOneLead
    OnePuller
    OneReviewer
    LeadKeepsPool
    WalkAgrees
