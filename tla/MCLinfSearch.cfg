SPECIFICATION LinfSpec
CONSTANTS
  Scale = 2
  MaxQ = 4
  MaxC = 7
  MaxExcess = 3
  MaxWidth = 1
  MaxLimit = 4
INVARIANTS
  LoopInv
  Shortest
PROPERTY
  Terminates
CHECK_DEADLOCK FALSE
