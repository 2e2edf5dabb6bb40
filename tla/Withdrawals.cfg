CONSTANTS
  alice = alice
  bob = bob
  Contents <- MCContents
  BlocksToFinalise = 1
  PubkeyIDs = {alice, bob}
  l2Unit = 2
  withdrawManager = withdrawManager
  OtherSpokes = {otherRollup}
  Deposited = 12
  MaxBlock = 2
  MaxBatches = 2
  MaxSpokes = 2
SPECIFICATION Spec
INVARIANTS
  PaidOncePerRoot
  ManagerCoversClaims
  PaidAtMostMigrated
PROPERTIES
  ApprovedIsPermanent
CHECK_DEADLOCK FALSE
