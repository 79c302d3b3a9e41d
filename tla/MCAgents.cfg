SPECIFICATION AgentsSpec
CONSTANTS
  Node = {a, b, c}
  MaxRounds = 2
  MaxConcurrency = 2
  ReuseIDs = FALSE
  MaxTurns = 2
  MaxCalls = 2
  MaxToolCalls = 2
  MaxRetries = 1
  MaxRateLimitRetries = 1
  Capacity = 1
  Scripts <- MCScripts
  MaxLines = 3
  MaxTasks = 1
  Requests <- MCRequests
  NoKey = NoKey
  Askers = {p1}
  Workers = {w1, w2}
  Serves <- MCServes
  Nobody = Nobody
  MaxNetJobs = 2
  MaxRedelivery = 1
  MaxAttempts = 2
  Batch = 2
  MaxNetMishaps = 1
  Connections = {c1, c2}
  OwnerOf <- MCOf
  Buffer = 1
  Messages = {"m1", "m2"}
  To <- MCTo
INVARIANTS PlanInv SittingInv NetInv
PROPERTIES AgentsEnd
