SPECIFICATION Spec
CONSTANTS
  e1 = e1
  e2 = e2
  e3 = e3
  alice = alice
  bob = bob
  lobby = lobby
  den = den
  Events <- ThreeEvents
  Nicks <- TwoNicks
  Channels <- TwoChannels
  Admins <- JustAlice
  Kinds <- SafetyKinds
  MaxLoads = 1
INVARIANT Inv
INVARIANT OnlyInFlightOutlivesOptOut
INVARIANT ExchangesAreWhole
INVARIANT ContextIsOneSession
INVARIANT CompactionsAreFinal
PROPERTY RetiredSessionsAreOver
SYMMETRY Symmetry
CHECK_DEADLOCK FALSE
