SPECIFICATION Spec
CONSTANTS
  Keys = {1, 2, 4, 6}
  Vals = {1, 2}
  Primes <- SmallPrimes
  FirstBlock = 2
  MaxAdd = 1
CHECK_DEADLOCK FALSE
INVARIANTS NodesShared
PROPERTIES MapImplemented NodesStay
