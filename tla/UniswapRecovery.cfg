CONSTANTS
  MaxBlock = 3
  MaxBlocks = 2
  ChunkSize = 2
  Malformed = {1}
  Streamed = {3}
  MaxContract = 2
  Workers = {w1}
SPECIFICATION FairSpec
INVARIANTS
  SealedIsComplete
  EvidenceIsCaptured
PROPERTIES
  TagIsTheCapturedContract
  PlannedIsCommittedOrFails
CHECK_DEADLOCK FALSE
