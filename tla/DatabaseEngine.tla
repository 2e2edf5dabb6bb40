--------------------------- MODULE DatabaseEngine ---------------------------
(***************************************************************************)
(* The storage engine on LevelDB (databaseEngine.ts, dbTree.ts): leaves    *)
(* and tree nodes are rows, and every read and write of one is awaited, so *)
(* that calls of several tasks interleave row by row and a crash may come  *)
(* between any two.  The root is a field of the process.  commit, revert   *)
(* and getCheckpoint do nothing, and create always throws: its get does    *)
(* when there is no item, and it does itself when there is one.            *)
(***************************************************************************)
EXTENDS StorageEngine

CONSTANT MaxRows  \* bound: the updates made
ASSUME RowsAssumption == MaxRows \in Nat

VARIABLES
  leafDB,       \* items by ID
  nodeDB,       \* nodes by level and index
  root,         \* DBTree._root
  updates,      \* by task: the update it is in the middle of
  updated,      \* bound: number of updates
  raced,        \* history: two updates ran at a time
  interrupted,  \* history: a crash came in the middle of an update
  restarted     \* history: no update ended since the last restart

databaseVars == <<leafDB, nodeDB, root, updates, updated, raced, interrupted, restarted>>

Zeros == zeros(Depth)
dbTree == [depth |-> Depth, zeros |-> Zeros, nodes |-> nodeDB]
Idle == [step |-> "none"]

\* What an update is in the middle of: an item, or a couple above it, of which
\* it has read the nodes so far.
AtItem(step, id, batch) == [step |-> step, itemID |-> id, batch |-> batch]
AtCouple(u, step, level, index, read) ==
  [step |-> step, itemID |-> u.itemID, batch |-> u.batch,
   level |-> level, index |-> index, read |-> read]
Updating == {t \in Tasks : updates[t] # Idle}

DatabaseTypeOK ==
  /\ IsStore(leafDB)
  /\ \A p \in DOMAIN nodeDB : p[1] \in 0 .. Depth
  /\ \A t \in Updating : updates[t].step \in {"leaf", "node", "left", "right", "parent", "root"}
  /\ updated \in 0 .. MaxRows
  /\ {raced, interrupted, restarted} \subseteq BOOLEAN

DatabaseInit ==
  /\ leafDB = << >> /\ nodeDB = << >> /\ root = treeRoot(NewTree(Depth))
  /\ updates = [t \in Tasks |-> Idle] /\ updated = 0
  /\ raced = FALSE /\ interrupted = FALSE /\ restarted = FALSE

\* update and updateBatch: the items from an ID on, one after the other.
updateFrom(t, id, batch) ==
  /\ updates[t] = Idle
  /\ updated < MaxRows /\ updated' = updated + 1
  /\ updates' = [updates EXCEPT ![t] = AtItem("leaf", id, batch)]
  /\ raced' = (raced \/ Updating # {})
  /\ UNCHANGED <<leafDB, nodeDB, root, interrupted, restarted>>

At(t, step) == t \in Updating /\ updates[t].step = step
Goes(t, call) == updates' = [updates EXCEPT ![t] = call]
History == UNCHANGED <<updated, raced, interrupted>>

putLeaf(t) ==
  /\ At(t, "leaf")
  /\ leafDB' = Put(leafDB, updates[t].itemID, Head(updates[t].batch))
  /\ Goes(t, AtItem("node", updates[t].itemID, updates[t].batch))
  /\ UNCHANGED <<nodeDB, root, restarted>> /\ History

putNode(t) ==
  /\ At(t, "node")
  /\ nodeDB' = Put(nodeDB, <<Depth, updates[t].itemID>>, toLeaf(Head(updates[t].batch)))
  /\ Goes(t, AtCouple(updates[t], "left", Depth, updates[t].itemID, << >>))
  /\ UNCHANGED <<leafDB, root, restarted>> /\ History

\* ascend of one leaf: at each level its couple is read and their parent written.
readLeft(t) ==
  /\ At(t, "left")
  /\ LET u == updates[t]
     IN  Goes(t, AtCouple(u, "right", u.level, u.index, <<getNode(dbTree, u.level, LeftOf(u.index))>>))
  /\ UNCHANGED <<leafDB, nodeDB, root, restarted>> /\ History

readRight(t) ==
  /\ At(t, "right")
  /\ LET u == updates[t]
     IN  Goes(t, AtCouple(u, "parent", u.level, u.index,
                          Append(u.read, getNode(dbTree, u.level, LeftOf(u.index) + 1))))
  /\ UNCHANGED <<leafDB, nodeDB, root, restarted>> /\ History

putParent(t) ==
  /\ At(t, "parent")
  /\ LET u == updates[t]
         above == ShiftRight(u.index, 1)
     IN  /\ nodeDB' = Put(nodeDB, <<u.level - 1, above>>, Hash2(u.read[1], u.read[2]))
         /\ Goes(t, IF u.level = 1 THEN AtItem("root", u.itemID, u.batch)
                    ELSE AtCouple(u, "left", u.level - 1, above, << >>))
  /\ UNCHANGED <<leafDB, root, restarted>> /\ History

\* updateRoot, and the next item of a batch.
updateRoot(t) ==
  /\ At(t, "root")
  /\ root' = treeRoot(dbTree)
  /\ restarted' = FALSE
  /\ LET u == updates[t]
     IN  Goes(t, IF Len(u.batch) = 1 THEN Idle
                 ELSE AtItem("leaf", u.itemID + 1, Tail(u.batch)))
  /\ UNCHANGED <<leafDB, nodeDB>> /\ History

\* The process stops and starts: the rows stay, the constructor sets the root.
Restart ==
  /\ updates' = [t \in Tasks |-> Idle]
  /\ root' = Zeros[0]
  /\ interrupted' = (interrupted \/ Updating # {})
  /\ restarted' = TRUE
  /\ UNCHANGED <<leafDB, nodeDB, updated, raced>>

VacantInDB(depth) == {p \in 0 .. Pow2[Depth - depth] - 1 : isZero(dbTree, Depth - depth, p)}

DatabaseNext ==
  \/ \E t \in Tasks :
       \/ \E id \in UsedIDs, item \in Items : updateFrom(t, id, <<item>>)
       \/ \E batch \in Batches, depth \in 1 .. Depth, path \in 0 .. Pow2[Depth] - 1 :
            /\ Len(batch) <= Pow2[depth] /\ path < Pow2[Depth - depth]
            /\ FirstOf(path, depth) \in UsedIDs
            /\ updateFrom(t, FirstOf(path, depth), batch)
       \/ putLeaf(t) \/ putNode(t)
       \/ readLeft(t) \/ readRight(t) \/ putParent(t) \/ updateRoot(t)
  \/ Restart

DatabaseSpec == DatabaseInit /\ [][DatabaseNext]_databaseVars

-----------------------------------------------------------------------------
(* After the last of updates that came one at a time the rows are a Merkle *)
(* tree of the leaves, in which a vacant subtree has no leaf; the root in  *)
(* memory is the tree's, once an update has ended since the last restart   *)
(* (dbTree.ts:31, 128-132, 183-200).                                       *)
RowsAreATree ==
  ~raced /\ ~interrupted /\ Updating = {} /\ Representable(leafDB) =>
    /\ Hashed(dbTree, LeavesFor(leafDB))
    /\ WitnessesProve(dbTree)
    /\ \A depth \in 0 .. Depth : \A path \in VacantInDB(depth) :
         Below(path, depth) \cap DOMAIN leafDB = {}
    /\ restarted \/ root = treeRoot(dbTree)
=============================================================================
