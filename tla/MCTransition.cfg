CONSTANTS
  alice = alice
  bob = bob
  StateIDs = {0, 1, 2}
  PubkeyIDs = {alice, bob}
  TokenIDs = {1, 2}
  Transfers <- MCTransfers
  Create2Transfers <- MCCreate2Transfers
  MassMigrations <- MCMassMigrations
  DepositStates <- MCDepositStates
  paramMaxTxsPerCommit = 2
  MaxNonce = 2
  MaxLeaves = 3
  BitWidth = 8
  ByteBits = 3
  ExponentBits = 2
  MantissaBits = 4
  Txs <- MCTxs
  MaxTxs = 2
  MaxCommitments = 3
  Numbers <- MCNumbers
  MaxMerklized = 9
SPECIFICATION MCSpec
INVARIANTS
  TypeOK
  TokensConserved
  NoncesAreSpentInOrder
  NodeAgrees
  TreeAgrees
  CalldataDecodes
  BatchesAgree
PROPERTIES
  StatesKeepOwners
CHECK_DEADLOCK FALSE
