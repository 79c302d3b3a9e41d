SPECIFICATION ServicesSpec
CONSTANTS
  r1 = r1  r2 = r2  r3 = r3
  e1 = e1  e2 = e2
  Requests = {r1, r2, r3}
  Events = {e1, e2}
  EventOf <- Repeated
  Targets = {t1, t2}
  Nowhere = nowhere
  Limit = 1
  MaxAttempts = 5
  MaxMishaps = 1
  MaxEdits = 1
  MinShares = 2
  Theses <- MCTheses
  Views <- MCViews
  Funds <- MCFunds
  Weathers = {"calm", "fills", "storm"}
  Held = {0, 5}
  MaxRuns = 2
  MaxTrades = 1
INVARIANTS EventsInv PositionInv
PROPERTY Settles
CHECK_DEADLOCK FALSE
