SPECIFICATION Spec
CONSTANTS
  FirstHandle = 4
  MaxHandle = 16
  FixedHandles <- ThreeLiterals
  ModelSpace = 1
  PaperSpace = 2
  RootDictionary = 3
  SourceOwners = {o1}
  o1 = o1
  Sources = {s1, s2}
  s1 = s1
  s2 = s2
  Blocks = {b1}
  b1 = b1
  GroupMembers = {}
  Preserved = {}
  Layouts = {}
  Spaces <- PaperOnly
  Habits <- PlanKeep
  MaxCalls = 2
  MaxWrites = 1
INVARIANTS
  UniqueHandles
  HandseedAboveAll
  OwnersPublished
PROPERTIES
  PublishesWhatItAccepted
  RollbackRestores
SYMMETRY SourcesAlike
CHECK_DEADLOCK FALSE
