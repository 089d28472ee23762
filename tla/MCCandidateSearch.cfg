SPECIFICATION SearchSpec
CONSTANTS
  frozen = frozen
  other = other
  Vectors <- MCVectors
  Frozen = frozen
  Points <- MCPoints
  Rows = 2
  Cells = {2, 3, 4}
  Paper = {3}
  MaxSearches = 2
INVARIANTS
  PlateausExact
  VerifySeparates
\* The searches are over.
CHECK_DEADLOCK FALSE
