SPECIFICATION Spec
CONSTANTS
  Tables <- MCTables
  Raws = {2, 5, 7}
  NarrowLanes = 2
  WideLanes = 2
  Poison = 77
  MaxN = 3
  MaxDraws = 4
  MaxCalls = 2
INVARIANTS
  TypeOK
  StoredPrefix
  CountersAccumulate
CHECK_DEADLOCK FALSE
