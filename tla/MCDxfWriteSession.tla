-------------------------- MODULE MCDxfWriteSession --------------------------
(* Instances of the DXF write session for TLC: three literals, handles from 4. *)
EXTENDS DxfWriteSession, TLC

ThreeLiterals == {1, 2, 3}
PaperOnly == {"paper"}
ModelOnly == {"model"}
SourcesAlike == Permutations(Sources)

Plan == {"preallocate"}
PlanKeep == {"preallocate", "keepOwners"}
ShareRemap == {"share", "remap"}
=============================================================================
