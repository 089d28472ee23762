SPECIFICATION Spec
CONSTANTS
  WordMod = 16
  CandMod = 8
  Q = 6
  Thresholds <- MCThresholds
  OrigThresholds <- MCOrigThresholds
  ByteBits = 2
  RefillBytes = 2
  DrawBits = 3
  Lanes = 2
  Poison = 11
  MaxBytes = 5
  MaxN = 3
INVARIANTS
  TypeOK
  OutputPrefix
  ReaderInSync
  BitAccounting
PROPERTY
  Implements
CHECK_DEADLOCK FALSE
