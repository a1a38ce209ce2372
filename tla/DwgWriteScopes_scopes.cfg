SPECIFICATION Spec
CONSTANTS
  FirstHandle = 3
  MaxHandle = 20
  FixedHandles <- Literals
  insert = insert
  attrib = attrib
  seqend = seqend
  line = line
  group = group
  layer = layer
  block = block
  other = other
  Entities = {insert, line}
  Objects = {group}
  Raws = {6}
  Layers = {layer}
  Blocks = {block}
  Parts <- InsertAndLine
  Preset <- AttribPreset
  Habits = {}
  MaxCalls = 2
  MaxScopes = 2
INVARIANTS
  OwnersListFrames
  CompoundsListedTogether
  HandlesDistinct
PROPERTIES
  RefusedWriteChangesNothing
  RollbackRestores
  LastUndone
  TrackedCallersRestored
CHECK_DEADLOCK FALSE
