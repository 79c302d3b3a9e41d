SPECIFICATION FairSpec
CONSTANTS
    Sources = {"s1"}
    Runners = {"r1", "r2", "r3"}
    Threads = {"t1", "t2"}
    NoRunner = "none"
    NoThread = "nobody"
INVARIANT PollersInv
PROPERTY PollersLive
