\* A purchase and its retry under every fault.
SPECIFICATION FairSpec
CONSTANTS
  Users <- MCUsers
  Requests <- MCTwoRequests
  RowIds <- MCTwoRequests
  Refs <- MCRefs
  UserOf <- MCUserOf
  AmountOf <- TwoEach
  RefOf <- MCRefOf
  Idempotent <- MCIdempotent
  FallbackRef <- MCFallbackRef
  ReversalRef <- MCReversalRef
  DailyLimit <- LimitOfTwo
  InitBalance <- FundsForTwo
  HasFallback = TRUE
  Faults = {"db", "disconnect", "crash"}
INVARIANTS
  TypeOK
  WithinFunds
  AnswerMatchesCharge
  OnePurchasePerReference
  ReversedIffReversalRow
PROPERTIES
  SettledIsFinal
  SagaSpec
  EveryRequestEnds
CHECK_DEADLOCK FALSE
