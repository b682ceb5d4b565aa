SPECIFICATION FairSpec

CONSTANTS
  Ids = {1, 2}
  Root = 1
  Funcs = {4, 8}
  Sites = {21}
  Modes = {"SINGLE", "FORK", "THREAD"}
  StartTime = 1
  Garbage = {1}
  MaxEvents = 5
  Size = 4
  NbFaked = 2
  U64 = 1000
  U32 = 1000

CHECK_DEADLOCK FALSE

INVARIANTS
  OccurrencesCounted StackFollows ArcsCountCalls LocalTimeExact TotalTimeExact
  OneEntryPerFunction

PROPERTY FlushEnds
