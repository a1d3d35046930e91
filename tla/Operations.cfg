\* Run history with kills, lost writes and a timed-out DAG run; alert
\* evaluation by two overlapping processes; the audit of a bounded interval
SPECIFICATION Spec
CONSTANTS
  Loads = {l1, l2}
  MaxRuns = 2
  MaxAttempts = 2
  MaxFaults = 3
  Evaluators = {e1, e2}
  Order <- McOrder
  Depth = 1
  WarnLag = 1
  StaleLag = 2
  MaxCas = 2
  MaxHead = 3
  MaxEvals = 3
  MaxChanges = 2
  MaxReplayBlock = 3
  ReplayDepth = 1
  MaxAuditBlocks = 2
  MinRange = 1
  RangeAttempts = 3
  MaxReorgs = 1
  MaxAdvances = 1
SYMMETRY McSymmetry
CHECK_DEADLOCK FALSE
INVARIANTS CountersMatchWork EventsAreEmittedOnce LagIsNotOverstated
           FindingsHaveACause
PROPERTIES TerminalIsFinal CriticalIsSticky
