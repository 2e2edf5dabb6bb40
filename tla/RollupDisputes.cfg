CONSTANTS
  c1 = c1
  s1 = s1
  s2 = s2
  Coordinators = {c1}
  Deployer = deployer
  Payments = {2, 3, 4}
  Slots = {s1}
  L2Usage = {"Create2Transfer", "MassMigration"}
  Bodies <- MCBodiesThatRevert
  paramStakeAmount = 3
  paramBlocksToFinalise = 1
  MaxCommits = 2
  MaxBlock = 4
  MaxBatchID = 3
  MaxSubtrees = 0
  MaxWaiting = 4
  MaxOverpaid = 1
SPECIFICATION FairSpec
INVARIANTS
  StakeLedger
PROPERTIES
  FinalisedIsPermanent
  RollbackIsThorough
  
  RollbackCompletes
  ImplementsChain
CHECK_DEADLOCK FALSE
