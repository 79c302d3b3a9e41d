SPECIFICATION ClosingSpec
CONSTANTS
    Handles = {"h1", "h2"}
    Closers = {"c1", "c2"}
    Hooks = {"f1", "f2"}
    NoHandle = "none"
    Sessions = {s1}
    Clients = {b1, b2}
    Jobs = {}
    Stoppers = {x1}
    Capacity = 2
    None = None
    Callers = {c1, c2}
    Disablers = {d1}
    Configs = {k1, k2}
    MaxCalls = 2
    MaxMishaps = 1
    Requesters = {q1}
    MaxJobs = 3
INVARIANTS KeeperInv ServersInv
PROPERTY ClosingLive
