CONSTANTS
  BitWidth = 4
  Depth = 4
  itemA = itemA
  itemB = itemB
  Items = {itemA, itemB}
  Batches <- MCBatches
  Tasks = {t1, t2}
  UsedIDs = {2, 9}
  MaxUpdates = 3
  MaxRows = 2
  TreeDepth = 3
  BatchDepth = 1
  keyA = keyA
  keyB = keyB
  Pubkeys = {keyA, keyB}
  KeyBatches <- MCKeyBatches
  Callers = {c1, c2}
  MaxRegistrations = 3
SPECIFICATION StorageSpec
SYMMETRY StorageSymmetry
INVARIANTS
  TreesHold
  NoUpdateLost
  VacantIsVacant
  RegisteredIDsAreTrue
CHECK_DEADLOCK FALSE
