SPECIFICATION Spec

CONSTANTS
  Ids = {1}
  Root = 1
  Funcs = {3, 7}
  Sites = {21}
  Modes = {"SINGLE"}
  StartTime = 1
  Garbage = {1}
  MaxEvents = 4
  Size = 4
  NbFaked = 2
  U64 = 1000
  U32 = 1000

CHECK_DEADLOCK FALSE

INVARIANT OneEntryPerFunction
