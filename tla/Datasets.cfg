\* The bounded backfills, the live producer, Bronze and local Silver, price enrichment and
\* the RAW load.
SPECIFICATION Spec
CONSTANTS
  MaxBlock = 3
  EventBlocks = {0, 1, 3}
  BadLogs = {3}
  ChunkSize = 2
  Window = 2
  Target = 2
  MaxRequests = 4
  LogAttempts = 2
  MaxAaveKills = 1
  MaxPhase = 2
  MaxRound = 2
  MaxTip = 3
  Malformed <- McMalformed
  Frozen <- McFrozen
  MaxTargets = 2
  BatchSize = 2
  Overlaps = {0, 1}
  MaxRoundKills = 1
  MaxLog = 5
  BlockOf <- McBlockOf
  Unusable = {2}
  CacheSize = 1
  BufferSize = 2
  MaxConnections = 2
  Swaps = {"s1", "s2"}
  OtherEvents = {"mint"}
  PollFeeds = {"eth", "btc"}
  RoundAt <- McRoundAt
  MaxTopic = 3
  MaxFiles = 4
  MaxStreamKills = 2
  Datasets <- McDatasetOrder
  LegsOf <- McLegsOf
  Absolute = {"swaps"}
  MappingRows <- McMappingRows
  EventPool <- McEventPool
  PricePool <- McPricePool
  MaxAge = 1
  Scale = 1
  AmountLimit = 1000
  CalculationLimit = 80
  MaxEnrichmentKills = 1
  Attempts = {"a1", "a2"}
  Keys = {"k1", "k2"}
  NoKey = "null"
  StageFiles = {"f1", "f2", "f3", "bad"}
  RowsIn <- McRowsIn
  Unreadable = {"bad"}
  PoolKeepsApart = TRUE
  MaxLoads = 3
INVARIANTS
  PassedIsAccountedFor
  SkippedIsRecorded
  TransientHoldsCheckpoint
  PublishedInOrder
  CommittedIsKept
  PricedPointInTime
  FinishedBuildsAreWhole
  MarkedIsMerged
PROPERTY
  CheckpointDescends
CHECK_DEADLOCK FALSE
