CONSTANTS
  me = me
  rival = rival
  willingnessToBid = 10
  RivalBids = {9, 12}
  MaxBehind = 2
  MaxStart = 2
  Accounts = {me, rival, donation}
  donationAddress = donation
  donationNumerator = 1
  DONATION_DENOMINATOR = 2
  BLOCKS_PER_SLOT = 4
  genesisBlock = 1
  Values = {}
  MaxBlock = 21
  MaxEther = 200
SPECIFICATION Spec
INVARIANTS
  SlotsAreWon
  PacksInOwnSlots
CHECK_DEADLOCK FALSE
VIEW WithoutAccounts
CONSTRAINT SomeSlots
