\* Signups, a Google login, a profile update and three upgrades.
SPECIFICATION FairSpec
CONSTANTS
  Signups <- MCSignups
  Logins <- MCLogins
  Profiles <- MCProfiles
  Upgrades <- MCUpgrades
  PhoneOf <- MCPhoneOf
  EmailOf <- MCEmailOf
  AccountOf <- MCAccountOf
  Documents <- MCDocuments
  Environments <- MCEnvironments
INVARIANTS
  UniqueIdentity
  TierHasDocument
PROPERTIES
  NeverDowngraded
  EveryUserHasWallet
CHECK_DEADLOCK FALSE
