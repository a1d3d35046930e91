CONSTANTS
  manual1 = manual1
  manual2 = manual2
  scheduled = scheduled
  NoRun = NoRun
  NoWorker = NoWorker
  Workers <- MCWorkers
  Runs <- MCRuns
  RunOf <- MCRunOf
  Timeout <- MCTimeout
  Ttl = 2
  MaxTime = 4
  MaxVersion = 2
SPECIFICATION FairSpec
INVARIANTS
  TypeOK
  UniqueHandle
  HolderProtected
  ConflictMeansChange
PROPERTIES
  OneVersionPerChange
  AcquireReturns
CHECK_DEADLOCK FALSE
