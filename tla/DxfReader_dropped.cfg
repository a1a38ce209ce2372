SPECIFICATION Spec
CONSTANTS
  h1 = h1
  h2 = h2
  Typed <- ToleranceNames
  Unstaged <- Dropped
  Raw <- RawNames
  Handles <- TwoHandles
  MaxRecords = 6
INVARIANTS
  EntitiesDelivered
SYMMETRY HandlesAlike
CHECK_DEADLOCK FALSE
