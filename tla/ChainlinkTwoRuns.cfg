CONSTANTS
  f1 = f1
  f2 = f2
  Feeds = {f1}
  MaxPhase = 1
  MaxRound = 3
  MaxHead = 2
  MaxLate = 0
  MaxRounds = 3
  BatchSize = 2
  Malformed = {}
  OutOfRange = {}
  Workers = {w1, w2}
SPECIFICATION Spec
PROPERTIES
  SealedIsKept
