CONSTANTS
  maxSubtreeSize = 2
  chunksize = 2
  Usages = {"Deposit"}
  MaxBlocks = 4
  MaxSlots = 2
SPECIFICATION Spec
INVARIANT DepositRootsMatch
CONSTRAINT OnlyRepeated
CHECK_DEADLOCK FALSE
