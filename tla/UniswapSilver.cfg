CONSTANTS
  MaxBlock = 3
  MaxBlocks = 2
  ChunkSize = 2
  Malformed = {}
  Streamed = {}
  MaxContract = 1
  Workers = {w1}
SPECIFICATION Spec
PROPERTIES
  CommittedIsLoaded
CHECK_DEADLOCK FALSE
