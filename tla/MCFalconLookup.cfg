SPECIFICATION LookupSpec
CONSTANTS
  LimbMod = 4
  UintMod = 8
  MidMod = 2
  Rows = 6
  OriginalTail <- MCOriginalTail
  SdaTail <- MCSdaTail
  QLimbs <- MCQLimbs
  Cumulative <- MCCumulative
INVARIANTS
  LookupTypeOK
  InverseCdf
  CoordinatesAgree
  MassesExact
CHECK_DEADLOCK FALSE
