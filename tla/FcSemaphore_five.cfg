SPECIFICATION ScheduledSpec
CONSTANTS
  m = m
  k = k
  x = x
  a = a
  b = b
  Procs = {m, k, x, a, b}
  NoPid = NoPid
  Ended = 0
  MaxClients = 5
  Protected = FALSE
  MaxDepth = 1
  MaxNumber = 32767
CHECK_DEADLOCK FALSE
INVARIANT MutualExclusion
