SPECIFICATION Spec
CONSTANTS
  Frames <- SixFrames
  Files <- ReadFiles
  Throwing <- Callbacks
  Refusing <- Rooms
INVARIANTS
  NeverAlarmed
  DeliveredOnce
  InItsBlock
  HeardOfWhole
  CompleteBlocks
  BlocksBalanced
PROPERTIES
  ImplementsFrameCoverage
  Terminates
CHECK_DEADLOCK FALSE
