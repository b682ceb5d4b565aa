SPECIFICATION FairSpec
CONSTANTS
  Clients = {r, c}
  Root = r
  Manager = m
  NoOne = NoOne
  Mode = "FORK"
  NumEntry = 1
  RefLimit = 16
  OneClock = TRUE
  MaxTime = 1
  Untimed <- MCUntimed
  MaxEvents = 1
  Mortal = {r, c}
CHECK_DEADLOCK FALSE
INVARIANT TimeOrdered
PROPERTIES ManagerFinishes WritersGoOn
