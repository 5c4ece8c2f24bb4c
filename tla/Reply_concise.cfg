SPECIFICATION Spec
CONSTANTS
  MaxConciseRetries = 2
  SafeBytes = 10
  Suffix <- Ellipsis
  Answers <- ShortTexts
  Noisy = TRUE
INVARIANT LimitKeepsLongestPrefix
INVARIANT ReplyIsFirstThatFits
CHECK_DEADLOCK FALSE
