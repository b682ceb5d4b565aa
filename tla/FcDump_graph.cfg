SPECIFICATION Spec

CONSTANTS
  Funcs = {10, 20, 30}
  Sites = {11, 12, 21, 31, 45}
  Times <- MCTimes
  Inputs <- MCInputs
  MaxArcs = 3

CHECK_DEADLOCK FALSE

INVARIANTS ArcsKept CyclesExact EdgesKept ListingExact
