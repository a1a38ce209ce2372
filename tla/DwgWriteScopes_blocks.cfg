SPECIFICATION Spec
CONSTANTS
  FirstHandle = 3
  MaxHandle = 20
  FixedHandles <- Literals
  insert = insert
  attrib = attrib
  seqend = seqend
  line = line
  group = group
  layer = layer
  block = block
  other = other
  Entities = {line}
  Objects = {}
  Raws = {}
  Layers = {}
  Blocks = {block, other}
  Parts <- LineOnly
  Preset <- NothingPreset
  Habits <- DefinesInScope
  MaxCalls = 3
  MaxScopes = 1
PROPERTIES
  RollbackRestores
CHECK_DEADLOCK FALSE
