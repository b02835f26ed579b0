\* Awards and redemptions of one account: no fault, failing statements, a dying process.
SPECIFICATION FairSpec
CONSTANTS
  Users <- MCUsers
  Awards <- MCAwards
  Redemptions <- MCRedemptions
  UserOf <- MCUserOf
  Category <- MCCategory
  Kobo <- MCKobo
  Points <- MCPoints
  FaultSets <- MCFaultSets
INVARIANTS
  AccountMatchesLedger
  PointsBecomeCredit
PROPERTIES
  EveryAwardArrives
CHECK_DEADLOCK FALSE
