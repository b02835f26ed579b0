\* A bill, its retry and a top-up of a negative amount, no fault: the books balance.
SPECIFICATION GuardedSpec
CONSTANTS
  Users <- MCUsers
  Requests <- MCRequests
  RowIds <- MCRequests
  Refs <- MCRefs
  UserOf <- MCUserOf
  AmountOf <- SignedAmountOf
  RefOf <- MCRefOf
  Idempotent <- MCIdempotent
  FallbackRef <- MCFallbackRef
  ReversalRef <- MCReversalRef
  DailyLimit <- LimitForBets
  InitBalance <- FundsForOne
  HasFallback = TRUE
  Faults = {}
  Confirmed <- MCConfirmed
  HighValue = 2
  Scenes <- SignedScenes
INVARIANTS
  
  LedgerExplainsBalance
CHECK_DEADLOCK FALSE
