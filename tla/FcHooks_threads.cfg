SPECIFICATION Spec

CONSTANTS
  Threads = {t1, t2}
  Main = t1
  MaxCalls = 3
  MaxDepth = 3

CHECK_DEADLOCK FALSE

INVARIANTS EachCallAnnounced NoRecursion HooksInPlace
