SPECIFICATION Spec
CONSTANTS
  WordMod = 16
  CandMod = 8
  Q = 6
  Thresholds <- MCThresholds
  OrigThresholds <- MCOrigThresholds
  DrawBits = 3
  Lanes = 2
  ByteBits = 2
  RefillBytes = 2
  InputWords <- MCInputWords
  Poison = 11
  MaxWords = 3
  MaxBytes = 3
  MaxN = 3
  OutCap = 4
INVARIANTS
  BackendInvisible
  StatisticsDescribeTheCall
  VectorWorkReported
CHECK_DEADLOCK FALSE
