CONSTANTS
  Accounts = {alice, bob, donation}
  donationAddress = donation
  donationNumerator = 1
  DONATION_DENOMINATOR = 2
  BLOCKS_PER_SLOT = 2
  genesisBlock = 1
  Values = {0, 1, 3}
  MaxBlock = 5
  MaxEther = 7
SPECIFICATION AuctionSpec
INVARIANTS
  AuctionTypeOK
  AccountsAddUp
  DepositsAreCovered
PROPERTIES
  ProposersAreSettled
CHECK_DEADLOCK FALSE
