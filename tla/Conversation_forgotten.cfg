SPECIFICATION Spec
CONSTANTS
  e1 = e1
  e2 = e2
  e3 = e3
  alice = alice
  bob = bob
  lobby = lobby
  den = den
  Events <- TwoEvents
  Nicks <- OneNick
  Channels <- OneChannel
  Admins <- JustAlice
  Kinds <- MessageAndOptOut
  MaxLoads = 1
INVARIANT OptOutForgets
SYMMETRY Symmetry
CHECK_DEADLOCK FALSE
