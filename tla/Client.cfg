CONSTANTS
  maxSubtreeSize = 2
  chunksize = 2
  Usages = {"Transfer", "Deposit", "MassMigration"}
  MaxBlocks = 5
  MaxSlots = 3
SPECIFICATION Spec
INVARIANTS
  NodeFollowsL1
PROPERTIES
  CatchesUp
CHECK_DEADLOCK FALSE

CONSTRAINT WithoutFlaws
