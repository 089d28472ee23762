SPECIFICATION Spec
CONSTANTS
  LimbMod = 2
  UintMod = 4
  MidMod = 1
  Rows = 4
  OriginalTail <- MCOriginalTail
  SdaTail <- MCSdaTail
  QLimbs <- MCQLimbs
  Cumulative <- MCCumulative
  DrawBytes = 9
  InputDraws = {0, 2, 4, 5}
  Poison = 77
  MaxDraws = 4
  MaxN = 3
  Blocks = {0, 1, 2}
  Capacities = {1, 3}
  MarkTicks = 19
  DrawTicks = 3
  SampleTicks = 5
INVARIANTS
  SamplerInv
  SameSamples
  CountersExact
  TimingAttributed
  BlockFresh
PROPERTY
  Implements
CHECK_DEADLOCK FALSE
