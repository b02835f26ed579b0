\* Sends and verifications, one after the other or overlapping; any statement may fail.
SPECIFICATION Spec
CONSTANTS
  Sends <- MCSends
  Verifies <- MCVerifies
  CodeOf <- MCCodeOf
  Environments <- MCEnvironments
INVARIANTS
  SingleUse
  OneLiveCode
  LastCodeIsGood
PROPERTIES
  SpentIsRefused
CHECK_DEADLOCK FALSE
