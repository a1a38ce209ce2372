\* The path leads to another directory twice, back to the first included, and
\* another program replaces or removes a temporary.
CONSTANTS
  w1 = w1  w2 = w2  n1 = n1  n2 = n2
  Target = Target
  Writers <- TwoWriters
  Names <- TwoNames
  Draws <- SeparateDraws
  MaxDirs = 2
  MaxAttempts = 1
  MaxForeign = 1
  MaxCrashes = 0
  MaxMoves = 2
  Perms <- OneBit
  OwnerWrite = "uw"
  Umask <- NoBits
SPECIFICATION Spec
INVARIANTS DestinationWholeUnlessReturned PublishesOnlyWhatItHeld
PROPERTY LeavesNothingBehind
SYMMETRY AlikeWithTheirNames
CHECK_DEADLOCK FALSE
