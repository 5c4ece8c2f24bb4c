SPECIFICATION FairSpec
CONSTANTS
  MaxToolRounds = 3
  MaxTransientRetries = 2
  Interval = 2
  Noisy = TRUE
  MaxCalls = 2
INVARIANT Inv
INVARIANT AttemptsBounded
INVARIANT ToolResultsConsumed
INVARIANT ToolCallsAnswered
INVARIANT RowsFollowAttempts
INVARIANT RetriesAreUsedUp
INVARIANT OneNoticePerWait
PROPERTY CallEnds
CHECK_DEADLOCK FALSE
