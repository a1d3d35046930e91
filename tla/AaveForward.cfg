CONSTANTS
  MaxBlock = 3
  MaxBlocks = 2
  ChunkSize = 2
SPECIFICATION Spec
INVARIANTS
  CommittedIsServed
  CommittedIsEvidenced
  RunsOnItsOwnEvidence
PROPERTIES
  OnlyForward
CHECK_DEADLOCK FALSE
