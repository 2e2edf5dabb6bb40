CONSTANTS
  c1 = c1
  s1 = s1
  s2 = s2
  Coordinators = {c1}
  Deployer = deployer
  Payments = {2, 3}
  Slots = {s1, s2}
  L2Usage = {"Create2Transfer"}
  Bodies <- MCBodies
  paramStakeAmount = 3
  paramBlocksToFinalise = 2
  MaxCommits = 1
  MaxBlock = 1
  MaxBatchID = 4
  MaxSubtrees = 2
  MaxWaiting = 5
  MaxOverpaid = 1
SPECIFICATION Spec
INVARIANTS
  NoSubtreeLost
  DepositsCredited
CHECK_DEADLOCK FALSE
