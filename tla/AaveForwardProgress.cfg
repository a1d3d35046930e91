CONSTANTS
  MaxBlock = 2
  MaxBlocks = 2
  ChunkSize = 2
SPECIFICATION FairSpec
PROPERTY PlannedIsCommittedOrFails
CHECK_DEADLOCK FALSE
