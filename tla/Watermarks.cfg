CONSTANTS
  c1 = c1
  c2 = c2
  Clients <- MCClients
  N = 2
  Anchor = 2
  MaxValue = 2
  NoClient = NoClient
SPECIFICATION FairSpec
INVARIANTS
  TypeOK
  AllOrNothing
PROPERTIES
  OnlyForward
  CommitsOnlyItsPlan
  ImplementsAtomicProgress
  CallsReturn
