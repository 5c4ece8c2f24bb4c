SPECIFICATION FairChats
CONSTANTS
  c1 = c1
  c2 = c2
  c3 = c3
  Callers <- TwoCallers
  Free = Free
  RpmInterval = 1
  MinInterval = 2
  Cooldowns <- UpToThree
  EarlyWake = 1
  MaxTime = 2
  MaxCalls = 20
  MaxRounds = 1
  MaxRetries = 1
  MaxChats = 1
  Headers <- SomeHeaders
INVARIANT ChatsInv
INVARIANT StartsAreSpaced
PROPERTY NoStartInCooldown
PROPERTY ImplementsPacedStarts
PROPERTY RetryWaitsOut
PROPERTY EveryChatEnds
CHECK_DEADLOCK FALSE
