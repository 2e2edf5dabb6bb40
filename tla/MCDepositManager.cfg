CONSTANTS
  MaxSubtreeDepth = 2
  L2Unit = 2
  Amounts = {0, 1, 2}
  Callers = {owner, rollupAddress, stranger}
  Owner = owner
  RollupAddress = rollupAddress
  NoAddress = noAddress
  MaxDeposits = 9
  MaxWaiting = 2
SPECIFICATION Spec
INVARIANTS
  BinaryCounter
  SubtreesReachRollup
  VaultBacksDeposits
PROPERTIES
  ImplementsQueue
CHECK_DEADLOCK FALSE
