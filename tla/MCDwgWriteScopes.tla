------------------------- MODULE MCDwgWriteScopes -------------------------
EXTENDS DwgWriteScopes

CONSTANTS insert, attrib, seqend, line, group, layer, block, other
Literals == {1, 2}
InsertAndLine == [e \in Entities |-> IF e = insert THEN <<insert, attrib, seqend>> ELSE <<e>>]
LineOnly == [e \in Entities |-> <<line>>]
NothingPreset == [r \in Records |-> 0]
AttribPreset == [r \in Records |-> IF r = attrib THEN 4 ELSE 0]
DefinesInScope == {"defineInScope"}
=============================================================================
