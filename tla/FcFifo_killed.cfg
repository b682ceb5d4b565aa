SPECIFICATION FairSpec
CONSTANTS
  Clients = {r, c}
  Root = r
  Manager = m
  NoOne = NoOne
  Mode = "FORK"
  NumEntry = 2
  RefLimit = 16
  OneClock = TRUE
  MaxTime = 0
  Untimed <- MCUntimed
  MaxEvents = 1
  Mortal = {r, c, m}
CHECK_DEADLOCK FALSE
PROPERTIES DumpedAtExit
