SPECIFICATION EngineSpec
CONSTANTS
  Triggers = {t1, t2}
  Completions = {c1}
  Closers = {s1, s2}
  Waiters = {w1}
  Pipelines = {p1}
  Longest = 2
  NoEntry = NoEntry
  MaxEdits = 2
  MaxManual = 1
  MaxMishaps = 1
  Plans <- EndPlans
  Runs = {r1}
  MaxSlots = 4
  MinItems = 1
  MaxItems = 2
  MaxRestarts = 1
  Hooks = {h1, h2}
  Poll = poll
INVARIANTS EngineInv RunsInv
PROPERTIES NoAddBesideWait 
CHECK_DEADLOCK FALSE
