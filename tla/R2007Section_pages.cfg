SPECIFICATION Spec
CONSTANTS
  Sections <- MCSections
  Codecs <- MCCodecs
  Faults <- MCFaults
INVARIANTS
  Repaired
  BurstRepaired
  DecodedHonestly
  ValidatorNeverRejects
CHECK_DEADLOCK FALSE
