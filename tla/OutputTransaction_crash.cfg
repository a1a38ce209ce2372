\* Two transactions over one destination, colliding names, killed processes and
\* a machine crash; the destination has any permission bits.
CONSTANTS
  w1 = w1  w2 = w2  n1 = n1  n2 = n2
  Target = Target
  Writers <- TwoWriters
  Names <- TwoNames
  Draws <- SharedDraws
  MaxDirs = 1
  MaxAttempts = 2
  MaxForeign = 0
  MaxCrashes = 1
  MaxMoves = 0
  Perms <- ThreePerms
  OwnerWrite = "uw"
  Umask <- OthersMasked
SPECIFICATION Spec
INVARIANTS TypeOK DestinationWholeAfterCrash TemporaryNotWider
PROPERTY ImplementsAtomicReplace
SYMMETRY Alike
CHECK_DEADLOCK FALSE
