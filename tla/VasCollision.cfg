\* Client references x and x_FB, no fault.
SPECIFICATION Spec
CONSTANTS
  Users <- MCUsers
  Requests <- MCTwoRequests
  RowIds <- MCTwoRequests
  Refs <- CollidingRefs
  UserOf <- MCUserOf
  AmountOf <- MCAmountOf
  RefOf <- CollidingRefOf
  Idempotent <- MCIdempotent
  FallbackRef <- MCFallbackRef
  ReversalRef <- MCReversalRef
  DailyLimit <- MCDailyLimit
  InitBalance <- MCInitBalance
  HasFallback = TRUE
  Faults = {}
INVARIANTS
  RefundClaimIsTrue
CHECK_DEADLOCK FALSE
