SPECIFICATION Spec
CONSTANTS
  Clients = {r}
  Root = r
  Manager = m
  NoOne = NoOne
  Mode = "SINGLE"
  NumEntry = 2
  RefLimit = 16
  OneClock = TRUE
  MaxTime = 0
  Untimed <- MCUntimed
  MaxEvents = 5
  Mortal = {r, m}
CHECK_DEADLOCK FALSE
INVARIANTS InOrder NoOverwrite EndMeansOver
PROPERTIES KeptOnceAttached StreamImplemented
