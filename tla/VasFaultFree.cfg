\* Three bills, betting top-ups or others, and no fault.
SPECIFICATION GuardedFairSpec
CONSTANTS
  Users <- MCUsers
  Requests <- MCRequests
  RowIds <- MCRequests
  Refs <- MCRefs
  UserOf <- MCUserOf
  AmountOf <- BetAmountOf
  RefOf <- MCRefOf
  Idempotent <- MCIdempotent
  FallbackRef <- MCFallbackRef
  ReversalRef <- MCReversalRef
  DailyLimit <- LimitForBets
  InitBalance <- FundsForBets
  HasFallback = TRUE
  Faults = {}
  Confirmed <- MCConfirmed
  HighValue = 2
  Scenes <- MCScenes
INVARIANTS
  OneChargePerReference
  UnusualBetsAreConfirmed
PROPERTIES
  EveryDebitSettles
CHECK_DEADLOCK FALSE
