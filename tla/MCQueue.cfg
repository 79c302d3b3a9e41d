SPECIFICATION QueueSpec
CONSTANTS
  None = None
  Jobs = {j1, j2}
  Agents = {a1, a2}
  Couriers = {c1}
  Sessions = {s1, s2}
  Clients = {b1}
  Stoppers = {x1}
  Capacity = 1
  Workers = {w1, w2}
  Calls = {k1}
  Stops = {y1}
  Tokens = {t1}
  MaxMessages = 1
  MaxRestarts = 1
  MayFail = TRUE
SYMMETRY Alike
INVARIANTS A2AQueueInv DeliveryInv
PROPERTIES IsJobBoard StoppedIsSilent
