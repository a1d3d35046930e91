CONSTANTS
  manual1 = manual1
  manual2 = manual2
  scheduled = scheduled
  NoRun = NoRun
  NoWorker = NoWorker
  Workers <- MCWorkers
  Runs <- MCRuns
  RunOf <- MCRunOf
  Timeout <- MCShortManualRuns
  Ttl = 2
  MaxTime = 4
  MaxVersion = 2
SPECIFICATION Spec
INVARIANTS
  LeaseExclusion
CHECK_DEADLOCK FALSE
