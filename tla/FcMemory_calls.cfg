SPECIFICATION Spec

CONSTANTS
  Ids = {1, 2}
  Root = 1
  Modes = {"SINGLE", "FORK", "THREAD"}
  Addrs = {11, 12}
  FirstElements = 1
  MaxCalls = 4

CHECK_DEADLOCK FALSE

INVARIANTS LeaksExact InvalidExact ElementsApart
