\* Two checkouts, redelivered events and calls of FundWallet.
SPECIFICATION FairSpec
CONSTANTS
  Users <- MCUsers
  Fundings <- MCFundings
  Deliveries <- MCDeliveries
  Calls <- MCCalls
  RowIds <- MCRefs
  Refs <- MCRefs
  OwnerOf <- MCOwnerOf
  AmountOf <- MCAmountOf
  FundingOf <- MCFundingOf
  PaymentOf <- MCPaymentOf
  ToKobo <- MCToKobo
  DailyLimit <- MCDailyLimit
  InitBalance <- MCInitBalance
  Environments <- MCEnvironments
INVARIANTS
  CreditedAtMostOnce
  CreditedIffBooked
PROPERTIES
  PaidIsCredited
CHECK_DEADLOCK FALSE
