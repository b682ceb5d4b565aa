SPECIFICATION FairSpec

CONSTANTS
  Numerals <- MCNumerals
  Scenarios <- MCScenarios
  Micro = 4
  U32 = 16
  Word = 1000
  UINT_MAX = 99
  MaxCallstack = 2
  MaxStackSize = 4
  MaxLdyn = 4
  FirstNow = 3

CHECK_DEADLOCK FALSE

INVARIANTS ParamsAgree TableIsPower LibrariesSeen  ReadBack CutRefused
PROPERTY ProgramEnds
