SPECIFICATION Spec
CONSTANTS
  WordMod = 16
  CandMod = 4
  Q = 3
  Thresholds <- MCThresholds
  OrigThresholds <- MCOrigThresholds
  DrawBits = 2
  InputWords <- MCInputWords
  Poison = 11
  MaxWords = 4
  MaxN = 3
  Blocks = {0, 1, 2}
  Capacities = {1, 3}
INVARIANTS
  CallInv
  StagedEqualsFused
  WholeBlocksOnly
  WorkspaceDiscipline
PROPERTIES
  Implements
  Terminates
CHECK_DEADLOCK FALSE
