\* Events and passengers, racing with faults or one after the other.
SPECIFICATION FairSpec
CONSTANTS
  Bookings <- MCBookings
  Sold <- MCSold
  Price <- MCPrice
  Vehicle <- MCVehicle
  Events <- MCEvents
  EventVehicle <- MCEventVehicle
  Requests <- MCRequests
  BookingOf <- MCBookingOf
  Replacement <- MCReplacement
  Environments <- MCEnvironments
INVARIANTS
  SettledOnce
  OnlyDisruptedIsSettled
  SettlementsAreRecorded
PROPERTIES
  DisruptedIsOffered
CHECK_DEADLOCK FALSE
