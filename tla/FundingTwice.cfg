\* Two overlapping deliveries of one event, no fault.
SPECIFICATION Spec
CONSTANTS
  Users <- MCUsers
  Fundings <- MCFundings
  Deliveries <- TwoDeliveries
  Calls = {}
  RowIds <- MCRefs
  Refs <- MCRefs
  OwnerOf <- MCOwnerOf
  AmountOf <- MCAmountOf
  FundingOf <- MCFundingOf
  PaymentOf <- MCPaymentOf
  ToKobo <- MCToKobo
  DailyLimit <- MCDailyLimit
  InitBalance <- MCInitBalance
  Environments <- OverlapOnly
INVARIANTS
  CreditedOnce
CHECK_DEADLOCK FALSE
