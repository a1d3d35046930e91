CONSTANTS
  f1 = f1
  f2 = f2
  Feeds <- MCFeeds
  MaxPhase = 2
  MaxRound = 3
  MaxHead = 3
  MaxLate = 1
  MaxRounds = 3
  BatchSize = 2
  Malformed <- MCMalformed
  OutOfRange <- MCOutOfRange
  Workers = {w1}
SPECIFICATION Spec
INVARIANTS
  CursorsShareOneBlock
  CursorIsLoaded
  NoRoundTwice
PROPERTIES
  OverLimitIsFinal
