SPECIFICATION Spec
CONSTANTS
  FirstHandle = 3
  MaxHandle = 9
  FixedHandles <- TwoLiterals
INVARIANTS
  HandlesBelowNext
PROPERTIES
  ImplementsHandleSource
  MintsAnUnusedHandle
