SPECIFICATION Spec
CONSTANTS
  Sessions = {s1}
  Clients = {}
  Jobs = {j1}
  Stoppers = {x1}
  Capacity = 1
  None = None
INVARIANT NoPanic
CHECK_DEADLOCK FALSE
