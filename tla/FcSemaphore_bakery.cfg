SPECIFICATION OrderedSpec
CONSTANTS
  Procs = {1, 2, 3}
  NoPid = 0
  Ended = 1
  MaxClients = 3
  Protected = TRUE
  MaxDepth = 2
  MaxNumber = 4
CHECK_DEADLOCK FALSE
INVARIANTS MutualExclusion PrivateSlots NestingCounted
PROPERTIES LockImplemented NoStarvation
