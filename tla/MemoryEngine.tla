---------------------------- MODULE MemoryEngine ----------------------------
(***************************************************************************)
(* The client's storage engine in memory (memoryEngine.ts): items by ID,   *)
(* a cache and a journal of updates that are not committed, and the Merkle *)
(* tree of the committed ones.  commit() awaits between the entries of the *)
(* journal, so calls of other tasks run in between, a second commit among  *)
(* them; everything else runs to its end without a pause.                  *)
(***************************************************************************)
EXTENDS StorageEngine

VARIABLES
  tree,
  items,        \* committed, by ID
  cache,        \* updates since the last commit ended, by ID
  journal,      \* the same in the order they were made
  calls,        \* by task: the call it is in the middle of
  made,         \* bound: number of updates
  latest,       \* history: the last item given to update for each ID
  overlapped,   \* history: a commit ended while another one was running
  reverted      \* history: a revert cut the journal, or came during a commit

memoryVars == <<tree, items, cache, journal, calls, made, latest, overlapped, reverted>>

Entries == [itemID : IDs, item : Items]

NoCall == [op |-> "none"]
\* A commit iterates an array: the engine's journal, that grows with updates,
\* or one that revert or another commit has put a new array in the place of.
InCommit(at) == [op |-> "commit", at |-> at, shared |-> TRUE, array |-> << >>]
Committing == {t \in Tasks : calls[t].op = "commit"}
ArrayOf(t) == IF calls[t].shared THEN journal ELSE calls[t].array
Detached == [t \in Tasks |->
  IF t \in Committing /\ calls[t].shared
  THEN [calls[t] EXCEPT !.shared = FALSE, !.array = journal] ELSE calls[t]]
InBatch(itemID, batch) == [op |-> "updateBatch", itemID |-> itemID, batch |-> batch]

MemoryTypeOK ==
  /\ tree.depth = Depth
  /\ IsStore(items)
  /\ IsStore(cache)
  /\ journal \in Seq(Entries)
  /\ IsStore(latest)
  /\ calls \in [Tasks -> {NoCall} \cup
       [op : {"commit"}, at : Nat, shared : BOOLEAN, array : Seq(Entries)] \cup
       [op : {"updateBatch"}, itemID : IDs, batch : Seq(Items)]]
  /\ made \in 0 .. MaxUpdates
  /\ overlapped \in BOOLEAN /\ reverted \in BOOLEAN

MemoryInit ==
  /\ tree = NewTree(Depth)
  /\ items = << >> /\ cache = << >> /\ journal = << >>
  /\ calls = [t \in Tasks |-> NoCall]
  /\ latest = << >> /\ made = 0 /\ overlapped = FALSE /\ reverted = FALSE

\* get: the cache before the items.
get(id) == IF id \in DOMAIN cache THEN cache[id] ELSE items[id]

Push(id, item) ==
  /\ made < MaxUpdates /\ made' = made + 1
  /\ cache' = Put(cache, id, item)
  /\ journal' = Append(journal, [itemID |-> id, item |-> item])
  /\ latest' = Put(latest, id, item)
  /\ UNCHANGED <<tree, items, overlapped, reverted>>

update(id, item) == Push(id, item) /\ UNCHANGED calls

\* create looks at the committed items alone.
create(id, item) == id \notin DOMAIN items /\ update(id, item)

\* getCheckpoint was the length of the journal at some time.
revert(checkpoint) ==
  /\ checkpoint <= Len(journal)
  /\ journal' = SubSeq(journal, 1, checkpoint)
  /\ calls' = Detached
  /\ reverted' = (reverted \/ checkpoint < Len(journal) \/ Committing # {})
  /\ UNCHANGED <<tree, items, cache, made, latest, overlapped>>

\* The loop of commit: one entry, or its end.
trueUpdate(entry) ==
  /\ items' = Put(items, entry.itemID, entry.item)
  /\ tree' = updateSingle(tree, entry.itemID, toLeaf(entry.item))

CommitEntry(t, at, array) ==
  /\ at <= Len(array)
  /\ trueUpdate(array[at])
  /\ UNCHANGED <<cache, journal, made, latest, overlapped, reverted>>

\* Mutant: the first entry is the only one.
EndsEarly(t, at, array) ==
  /\ at > Len(array) \/ at = 2
  /\ journal' = << >> /\ cache' = << >>
  /\ calls' = [Detached EXCEPT ![t] = NoCall]
  /\ overlapped' = (overlapped \/ Committing \ {t} # {})
  /\ UNCHANGED <<tree, items, made, latest, reverted>>

CommitEnd(t, at, array) ==
  /\ at > Len(array)
  /\ journal' = << >> /\ cache' = << >>
  /\ calls' = [Detached EXCEPT ![t] = NoCall]
  /\ overlapped' = (overlapped \/ Committing \ {t} # {})
  /\ UNCHANGED <<tree, items, made, latest, reverted>>

commit(t) ==
  /\ calls[t] = NoCall
  /\ \/ CommitEntry(t, 1, journal) /\ calls' = [calls EXCEPT ![t] = InCommit(2)]
     \/ CommitEnd(t, 1, journal)

CommitStep(t) ==
  /\ t \in Committing
  /\ \/ /\ CommitEntry(t, calls[t].at, ArrayOf(t))
        /\ calls' = [calls EXCEPT ![t].at = @ + 1]
     \/ CommitEnd(t, calls[t].at, ArrayOf(t))

\* findVacantSubtree: the first node without a leaf or a cached item below it.
\* Mutant: without a look into the cache.
ZeroNode(path, depth) == isZero(tree, Depth - depth, path)
Vacant(path, depth) ==
  /\ isZero(tree, Depth - depth, path)
  /\ Below(path, depth) \cap DOMAIN cache = {}
VacantSubtrees(depth) == {p \in 0 .. Pow2[Depth - depth] - 1 : Vacant(p, depth)}
findVacantSubtree(depth) ==
  CHOOSE p \in VacantSubtrees(depth) : \A q \in VacantSubtrees(depth) : p <= q

\* updateBatch awaits each of its updates.
BatchFrom(t, id, batch) ==
  /\ Push(id, batch[1])
  /\ calls' = [calls EXCEPT ![t] =
                 IF Len(batch) = 1 THEN NoCall ELSE InBatch(id + 1, Tail(batch))]

updateSubtree(t, path, depth, batch) ==
  calls[t] = NoCall /\ BatchFrom(t, FirstOf(path, depth), batch)

BatchStep(t) == /\ calls[t].op = "updateBatch"
                /\ BatchFrom(t, calls[t].itemID, calls[t].batch)

MemoryNext ==
  \/ \E id \in UsedIDs, item \in Items : update(id, item) \/ create(id, item)
  \/ \E checkpoint \in 0 .. MaxUpdates : revert(checkpoint)
  \/ \E t \in Tasks : commit(t) \/ CommitStep(t) \/ BatchStep(t)
  \/ \E t \in Tasks, batch \in Batches, depth \in 0 .. Depth :
       /\ Len(batch) <= Pow2[depth]
       /\ \E path \in 0 .. Pow2[Depth - depth] - 1 :
            FirstOf(path, depth) \in UsedIDs /\ updateSubtree(t, path, depth, batch)

MemorySpec == MemoryInit /\ [][MemoryNext]_memoryVars

-----------------------------------------------------------------------------
(* Every node of the tree is the hash of the committed items below it and  *)
(* every witness proves its leaf, whatever commits interleave, while no    *)
(* item has an ID the bit operators take for a negative number             *)
(* (memoryTree.ts:174, memoryEngine.ts:49).                                *)
MemoryTreeHolds ==
  Representable(items) =>
    /\ Hashed(tree, LeavesFor(items))
    /\ WitnessesProve(tree)

(* What was given to update is what get returns, in the cache, half        *)
(* committed or committed, however updates interleave with a commit        *)
(* (memoryEngine.ts:66-72).  Two commits at a time may lose an update that *)
(* comes between their ends, and revert leaves the cache as it is.         *)
NoUpdateLost ==
  ~overlapped /\ ~reverted =>
    /\ DOMAIN latest = DOMAIN cache \cup DOMAIN items
    /\ \A id \in DOMAIN latest : get(id) = latest[id]

(* A subtree that is found vacant has no item, committed or waiting, that  *)
(* storing deposits there would overwrite (memoryEngine.ts:74-101).        *)
VacantIsVacant ==
  ~overlapped /\ ~reverted /\ Representable(latest) =>
    \A depth \in 0 .. Depth : \A path \in VacantSubtrees(depth) :
      Below(path, depth) \cap DOMAIN latest = {}
=============================================================================
