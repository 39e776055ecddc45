SPECIFICATION Spec
CONSTANTS
  BackendOutputs <- MCBackendOutputs
  MaxFrames = 3
INVARIANTS
  TypeOK
  EvidenceDecides
  PersistedIsSound
  GivesUpOnlyWhenHopeless
CHECK_DEADLOCK FALSE
