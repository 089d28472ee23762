SPECIFICATION Spec
CONSTANTS
  WordMod = 16
  CandMod = 4
  Q = 3
  Thresholds <- MCThresholds
  OrigThresholds <- MCOrigThresholds
  DrawBits = 2
  InputWords <- MCInputWords
  Poison = 11
  MaxWords = 4
  MaxN = 3
  OutCap = 5
INVARIANTS
  TypeOK
  ResultCorrect
  WriteFootprint
  StatsConserved
  LoopInv
PROPERTY
  Implements
CHECK_DEADLOCK FALSE
