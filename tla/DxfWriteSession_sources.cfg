\* Two writes of one codec that may fail anywhere, and a filter that writes
\* several entities of one source and keeps or remaps objects.
SPECIFICATION Spec
CONSTANTS
  FirstHandle = 4
  MaxHandle = 11
  FixedHandles <- ThreeLiterals
  ModelSpace = 1
  PaperSpace = 2
  RootDictionary = 3
  SourceOwners = {}
  Sources = {s1, s2}
  s1 = s1
  s2 = s2
  Blocks = {}
  b1 = b1
  GroupMembers = {s1, s2}
  Preserved = {6}
  Layouts = {7, 11}
  Spaces <- ModelOnly
  Habits <- ShareRemap
  MaxCalls = 2
  MaxWrites = 2
INVARIANTS
  UniqueHandles
  ReferencesPublished
  ModelerKeysUnique
SYMMETRY SourcesAlike
CHECK_DEADLOCK FALSE
