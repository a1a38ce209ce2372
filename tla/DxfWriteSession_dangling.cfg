SPECIFICATION Spec
CONSTANTS
  FirstHandle = 4
  MaxHandle = 16
  FixedHandles <- ThreeLiterals
  ModelSpace = 1
  PaperSpace = 2
  RootDictionary = 3
  SourceOwners = {}
  Sources = {s1, s2}
  s1 = s1
  s2 = s2
  Blocks = {}
  b1 = b1
  GroupMembers = {s1}
  Preserved = {}
  Layouts = {}
  Spaces <- ModelOnly
  Habits <- Plan
  MaxCalls = 1
  MaxWrites = 1
INVARIANTS
  ReferencesPublished
CHECK_DEADLOCK FALSE
