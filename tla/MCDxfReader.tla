---------------------------- MODULE MCDxfReader ----------------------------
(* Names for the records of DxfReader that TLC reads.                        *)
EXTENDS DxfReader, TLC

ToleranceNames == {"LINE", "TOLERANCE"}
RawNames == {"ACAD_UNKNOWN"}
CONSTANTS h1, h2
TwoHandles == {h1, h2}
HandlesAlike == Permutations(TwoHandles)
Dropped == {"TOLERANCE"}

=============================================================================
