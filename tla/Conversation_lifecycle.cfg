SPECIFICATION FairSpec
CONSTANTS
  e1 = e1
  e2 = e2
  e3 = e3
  alice = alice
  bob = bob
  lobby = lobby
  den = den
  Events <- TwoEvents
  Nicks <- TwoNicks
  Channels <- OneChannel
  Admins <- JustAlice
  Kinds <- AllKinds
  MaxLoads = 2
INVARIANT RepliesAreRemembered
PROPERTY EveryEventEnds
CHECK_DEADLOCK FALSE
