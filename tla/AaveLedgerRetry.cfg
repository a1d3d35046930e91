CONSTANTS
  MaxBlock = 3
  MaxBlocks = 2
  ChunkSize = 2
SPECIFICATION Spec
INVARIANTS
  ReprocessingIsSafe
CHECK_DEADLOCK FALSE
