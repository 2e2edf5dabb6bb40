CONSTANTS
  ByteBits = 3
  ExponentBits = 2
  MantissaBits = 4
  GenesisStates <- MCGenesisStates
  FeeReceivers <- MCFeeReceivers
  Keys = {1, 2}
  Offered <- MCOffered
  maxSize = 2
  MAX_TXS_PER_COMMIT = 2
  MAX_COMMIT_PER_BATCH = 2
  Users <- MCUsers
  maxTransfers = 3
  MaxPushes = 4
  MaxTogether = 2
SPECIFICATION Spec
INVARIANTS
  BatchesReplay
  StatusesAreTrue
  PendingIsHeld
PROPERTIES
  PendingIsDecided
CHECK_DEADLOCK FALSE
