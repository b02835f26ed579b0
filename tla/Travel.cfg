\* A bus and a flight under every fault, under all but lost answers, and under none;
\* flights and searches that share the offers of Amadeus.
SPECIFICATION Spec
CONSTANTS
  Users <- MCUsers
  Bookings <- MCBookings
  Buses <- MCBuses
  Searches <- MCSearches
  RowIds <- MCBookings
  Refs <- MCBookings
  UserOf <- MCUserOf
  AmountOf <- MCAmountOf
  DailyLimit <- MCDailyLimit
  InitBalance <- MCInitBalance
  OfferIds = {"1", "2"}
  Trips <- MCTrips
  ToKobo <- MCToKobo
  GdsRefOf <- MCGdsRefOf
  FareOf <- MCFareOf
  FoundBy <- MCFoundBy
  Environments <- MCEnvironments
INVARIANTS
  BookedIsPaid
  TicketIsPaid
  BooksAgree
  BookedAsPriced
  CallsAreAuthorised
PROPERTIES
  SagaSpec
CHECK_DEADLOCK FALSE
