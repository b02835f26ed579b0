\* Two requests per window of three ticks.
SPECIFICATION LimiterSpec
CONSTANTS
  Limit = 2
  Window = 3
  MaxPassed = 6
  RedisFails = TRUE
INVARIANTS
  AtMostLimitPerWindow
PROPERTIES
  RetryAfterIsHonest
