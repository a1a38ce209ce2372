SPECIFICATION Spec
CONSTANTS
  Typed <- ToleranceNames
  Unstaged <- Dropped
  Raw <- RawNames
  h1 = h1
  h2 = h2
  Handles <- TwoHandles
  MaxRecords = 7
INVARIANTS
  BlocksBalanced
  EventsAreExpected
  HandlesDistinct
SYMMETRY HandlesAlike
CHECK_DEADLOCK FALSE
