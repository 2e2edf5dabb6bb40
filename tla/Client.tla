-------------------------------- MODULE Client --------------------------------
(***************************************************************************)
(* ts/client/services/syncer.ts and events/*, contexts.ts, coreAPI.ts,     *)
(* features/deposit.ts and services/packer.ts: how a node keeps up with    *)
(* the L1, from past events and as a listener, and takes over as the       *)
(* proposer.  The L1 is a log of one event a block: deposits, by number,   *)
(* and batches.  A state root stands for the L2 states: the subtrees of    *)
(* deposits by path, and how many transfer batches were applied, which are *)
(* the subject of module Packing.                                          *)
(*                                                                         *)
(* A step of the node goes from one answer of the L1 to the next; its own  *)
(* storages are in memory.                                                 *)
(***************************************************************************)
EXTENDS DepositPool, BatchStorage, FiniteSetsExt

CONSTANTS
  chunksize,   \* blocks of one query of the initial sync, 100
  Usages,      \* the usages of the batches that others submit
  MaxBlocks,   \* bound: blocks of the L1
  MaxSlots     \* bound: changes of the slot

ASSUME ClientAssumption ==
  /\ {chunksize, MaxBlocks, MaxSlots} \subseteq Nat \ {0}
  /\ Usages \subseteq {"Transfer", "Deposit", "MassMigration"}

VARIABLES
  log,         \* the L1: the event of each block
  proposing,   \* the L1: whether the node is the proposer of the slot
  leaving,     \* the L1: whether the next slot is known to be another's
  slots,       \* changes of the slot so far
  tree,        \* the node's states
  stored,      \* its batches
  pool,        \* its deposit pool
  syncpoint,   \* its sync point
  strategy,    \* the strategy of its batch handling context
  handlers,    \* the calls of handleNewBatch that await the parsed batch
  syncer,      \* its syncer
  polled,      \* of each kind of events, the block that listeners have heard to
  packer,      \* its packer
  pushed,      \* history: the deposits that were pushed to the pool, in order
  flaws,       \* history: what went wrong around the node, see below
  raised       \* history: whether an exception was raised

l1Vars == <<log, proposing, leaving, slots>>
nodeVars == <<tree, stored, pool, syncpoint, strategy, handlers, syncer, polled, packer>>
history == <<pushed, flaws, raised>>
vars == <<l1Vars, nodeVars, history>>

(***************************************************************************)
(* The L1, as modules Rollup and DepositManager have it.                   *)
(***************************************************************************)
Tree(leaves, transfers) == [leaves |-> leaves, transfers |-> transfers]
GenesisTree == Tree(<<>>, 0)

insert(t, path, states) == Tree((path :> states) @@ t.leaves, t.transfers)
findVacantSubtree(t) ==
  CHOOSE path \in 0 .. Cardinality(DOMAIN t.leaves) :
    /\ path \notin DOMAIN t.leaves
    /\ 0 .. path - 1 \subseteq DOMAIN t.leaves
afterTransfers(t) == Tree(t.leaves, t.transfers + 1)

Batch(id, usage, stateRoot) ==
  [kind |-> "batch", id |-> id, usage |-> usage, stateRoot |-> stateRoot]
DepositBatch(id, t, subtreeID, states, path) ==
  [kind |-> "batch", id |-> id, usage |-> "Deposit", stateRoot |-> insert(t, path, states),
   subtreeID |-> subtreeID, subtree |-> states, path |-> path]

EventsOf(kind) == {b \in DOMAIN log : log[b].kind = kind}
BlockOf(id) == CHOOSE b \in EventsOf("batch") : log[b].id = id
Chain == [i \in 1 .. Cardinality(EventsOf("batch")) |-> log[BlockOf(i - 1)]]
L1Tree == Last(Chain).stateRoot

Subtree(id) == [i \in 1 .. maxSubtreeSize |-> (id - 1) * maxSubtreeSize + i]
DepositBatches == Cardinality({i \in DOMAIN Chain : Chain[i].usage = "Deposit"})
HasSubtree == Cardinality(EventsOf("deposit")) \div maxSubtreeSize > DepositBatches

\* The next batch of the L1, if t is the tree it is for.
NextBatch(usage, t, path) ==
  CASE usage = "Transfer"      -> Batch(Len(Chain), usage, afterTransfers(t))
    [] usage = "MassMigration" -> Batch(Len(Chain), usage, afterTransfers(t))
    [] usage = "Deposit"       ->
         DepositBatch(Len(Chain), t, DepositBatches + 1, Subtree(DepositBatches + 1), path)

\* Actions that add to the log leave room for those of the node.
HasBlock == Len(log) < MaxBlocks

QueueDeposit ==
  /\ HasBlock
  /\ log' = Append(log, [kind |-> "deposit", n |-> Cardinality(EventsOf("deposit")) + 1])
  /\ UNCHANGED <<proposing, leaving, slots, nodeVars, history>>

OtherProposes(usage) ==
  /\ HasBlock
  /\ ~proposing
  /\ usage = "Deposit" => HasSubtree
  /\ log' = Append(log, NextBatch(usage, L1Tree, findVacantSubtree(L1Tree)))
  /\ UNCHANGED <<proposing, leaving, slots, nodeVars, history>>

(***************************************************************************)
(* DepositQueuedEventSyncer.                                               *)
(***************************************************************************)
\* The deposits of these blocks, which are numbered as they come.
DepositsBetween(first, last) ==
  LET before == Cardinality({b \in EventsOf("deposit") : b < first})
      until  == Cardinality({b \in EventsOf("deposit") : b <= last})
  IN  [i \in 1 .. until - before |-> before + i]

PushFlaws(all) ==
  IF ~IsInjective(all) THEN {"repeated"}
  ELSE IF \E i \in DOMAIN all : all[i] # i THEN {"reordered"} ELSE {}

Push(deposits) ==
  /\ pool' = FoldLeft(pushDeposit, pool, deposits)
  /\ pushed' = pushed \o deposits

(***************************************************************************)
(* NewBatchEventSyncer with the batch handling context it keeps.           *)
(***************************************************************************)
strategies == {"Genesis", "Transfer", "Deposit"}
setStrategy(usage) == strategy' = IF usage \in strategies THEN usage ELSE "none"

\* A call for the event of a block, by the initial sync (0) or a listener.
Handler(block, by) == [block |-> block, by |-> by]
BySync == 0
ByPacker == -1

\* handleNewBatch until parseBatch has its answers.
\* Mutant: the event of the batch after the last one is skipped too.
NextToo(id)      == syncpoint.batchID + 1 >= id
SyncedBefore(id) == syncpoint.batchID >= id

\* A batch of the packer that is not recorded yet.
IsOwn(block) == packer.block = block

BeginFlaws(block, callers) ==
  (IF handlers # {} \/ Cardinality(callers) > 1 THEN {"overlap"} ELSE {})
    \cup (IF log[block].usage \in strategies THEN {} ELSE {"unsupported"})
    \cup (IF IsOwn(block) THEN {"own"} ELSE {})

Begin(block, callers) ==
  LET event == log[block]
  IN  IF SyncedBefore(event.id)
      THEN UNCHANGED <<strategy, handlers, flaws, raised>>
      ELSE /\ setStrategy(event.usage)
           /\ flaws' = flaws \cup BeginFlaws(block, callers)
           /\ IF event.usage \in strategies
              THEN handlers' = handlers \cup {Handler(block, by) : by \in callers} /\ UNCHANGED raised
              ELSE raised' = TRUE /\ UNCHANGED handlers

\* processBatch, by the strategy that is set by now.
Processed(ok, t, p) == [ok |-> ok, tree |-> t, pool |-> p]
applyBatch(event) ==
  IF ~isSubtreeReady(pool) THEN Processed(FALSE, tree, pool)
  ELSE LET subtree == FrontSubtree(pool)
           rest    == popDepositSubtree(pool)
       IN  IF \/ event.usage # "Deposit"
              \/ subtree.states # event.subtree
              \/ subtree.id # event.subtreeID
           THEN Processed(FALSE, tree, rest)
           ELSE Processed(TRUE, insert(tree, event.path, subtree.states), rest)
processTransfers(event) ==
  IF event.usage # "Transfer" THEN Processed(FALSE, tree, pool)
  ELSE Processed(afterTransfers(tree) = event.stateRoot, afterTransfers(tree), pool)
processBatch(event) ==
  CASE strategy = "Genesis"  -> Processed(TRUE, tree, pool)
    [] strategy = "Transfer" -> processTransfers(event)
    [] strategy = "Deposit"  -> applyBatch(event)
    [] strategy = "none"     -> Processed(FALSE, tree, pool)

CanUpdate(blockNumber, batchID) ==
  blockNumber >= syncpoint.blockNumber /\ batchID >= syncpoint.batchID
SyncPoint(blockNumber, batchID) == [blockNumber |-> blockNumber, batchID |-> batchID]

\* A deposit batch that comes before the deposits it is of.
IsEarly(block) ==
  /\ log[block].usage = "Deposit"
  /\ ~ToSet(log[block].subtree) \subseteq ToSet(pushed)

\* The sync point moves, or will, while an initial sync is under way.
Busy == syncer.pc \in {"reading", "deposits", "query", "batches", "complete"}
Overtaken(by) == IF Busy /\ by # BySync THEN {"overtaken"} ELSE {}

\* The rest of handleNewBatch: whether it ends without an exception.
FinishedOk(block) ==
  LET event == log[block]
  IN  /\ CanAdd(stored, event)
      /\ processBatch(event).ok
      /\ CanUpdate(block, event.id)
Finish(block, by) ==
  LET event == log[block]
      done  == processBatch(event)
  IN  /\ IF CanAdd(stored, event)
         THEN stored' = add(stored, event) /\ tree' = done.tree /\ pool' = done.pool
         ELSE UNCHANGED <<stored, tree, pool>>
      /\ IF FinishedOk(block)
         THEN syncpoint' = SyncPoint(block, event.id) /\ UNCHANGED raised
         ELSE raised' = TRUE /\ UNCHANGED syncpoint
      /\ flaws' = flaws \cup (IF IsEarly(block) THEN {"early"} ELSE {}) \cup Overtaken(by)

(***************************************************************************)
(* SyncerService.start and initialSync.                                    *)
(***************************************************************************)
start == [syncer EXCEPT !.pc = "reading", !.start = syncpoint.blockNumber]

getBlockNumber ==
  /\ syncer.pc = "reading"
  /\ syncer' = [syncer EXCEPT !.latest = Len(log),
                  !.pc = IF syncer.start <= Len(log) THEN "deposits" ELSE "complete"]
  /\ UNCHANGED <<l1Vars, tree, stored, pool, syncpoint, strategy, handlers, polled, packer, history>>

end == Min({syncer.start + chunksize - 1, syncer.latest})

SyncDeposits ==
  /\ syncer.pc = "deposits"
  /\ Push(DepositsBetween(syncer.start, end))
  /\ flaws' = flaws \cup PushFlaws(pushed')
  /\ syncer' = [syncer EXCEPT !.pc = "query"]
  /\ UNCHANGED <<l1Vars, tree, stored, syncpoint, strategy, handlers, polled, packer, raised>>

QueryBatches ==
  /\ syncer.pc = "query"
  /\ syncer' = [syncer EXCEPT !.pc = "batches",
                  !.todo = {b \in EventsOf("batch") : b \in syncer.start .. end}]
  /\ UNCHANGED <<l1Vars, tree, stored, pool, syncpoint, strategy, handlers, polled, packer, history>>

Awaited == \E handler \in handlers : handler.by = BySync

SyncBatch ==
  /\ syncer.pc = "batches"
  /\ syncer.todo # {}
  /\ ~Awaited
  /\ Begin(Min(syncer.todo), {BySync})
  /\ syncer' = IF raised' /\ ~raised THEN [syncer EXCEPT !.pc = "failed"]
               ELSE [syncer EXCEPT !.todo = @ \ {Min(@)}]
  /\ UNCHANGED <<l1Vars, tree, stored, pool, syncpoint, polled, packer, pushed>>

FinishBatch(handler) ==
  /\ Finish(handler.block, handler.by)
  /\ handlers' = handlers \ {handler}
  /\ syncer' = IF handler.by = BySync /\ ~FinishedOk(handler.block)
               THEN [syncer EXCEPT !.pc = "failed"] ELSE syncer
  /\ UNCHANGED <<l1Vars, strategy, polled, packer, pushed>>

EndChunk ==
  /\ syncer.pc = "batches"
  /\ syncer.todo = {}
  /\ ~Awaited
  /\ IF CanUpdate(end, CurrentBatchID(stored))
     THEN /\ syncpoint' = SyncPoint(end, CurrentBatchID(stored))
          /\ syncer' = [syncer EXCEPT !.pc = "reading", !.start = end + 1]
          /\ UNCHANGED raised
     ELSE /\ syncer' = [syncer EXCEPT !.pc = "failed"]
          /\ raised' = TRUE
          /\ UNCHANGED syncpoint
  /\ UNCHANGED <<l1Vars, tree, stored, pool, strategy, handlers, polled, packer, pushed, flaws>>

\* listen: events are polled from the first time on that somebody listens.
PolledFrom == IF polled.on THEN polled ELSE [on |-> TRUE, deposit |-> Len(log), batch |-> Len(log)]
IsMissed(block) ==
  LET event == log[block]
  IN  CASE event.kind = "deposit" -> block <= PolledFrom.deposit /\ event.n \notin ToSet(pushed)
        [] event.kind = "batch"   -> /\ block <= PolledFrom.batch
                                     /\ ~SyncedBefore(event.id)
                                     /\ \A handler \in handlers : handler.block # block
SyncComplete ==
  /\ syncer.pc = "complete"
  /\ syncer' = [syncer EXCEPT !.pc = "done", !.regular = TRUE, !.listeners = @ + 1]
  /\ polled' = PolledFrom
  /\ flaws' = flaws \cup IF \E block \in DOMAIN log : IsMissed(block) THEN {"missed"} ELSE {}
  /\ UNCHANGED <<l1Vars, tree, stored, pool, syncpoint, strategy, handlers, packer, pushed, raised>>

stop == IF syncer.regular THEN [syncer EXCEPT !.listeners = IF @ > 0 THEN @ - 1 ELSE 0] ELSE syncer

(***************************************************************************)
(* The listeners: each hears of the events of its kind, in their order.    *)
(***************************************************************************)
Unheard(kind) == {b \in EventsOf(kind) : b > polled[kind]}

HearDeposit ==
  /\ polled.on
  /\ Unheard("deposit") # {}
  /\ LET block == Min(Unheard("deposit"))
     IN  /\ Push([i \in 1 .. syncer.listeners + packer.listeners |-> log[block].n])
         /\ polled' = [polled EXCEPT !.deposit = block]
         /\ flaws' = flaws \cup PushFlaws(pushed')
                           \cup IF log[block].n \in ToSet(pushed') THEN {} ELSE {"unheard"}
  /\ UNCHANGED <<l1Vars, tree, stored, syncpoint, strategy, handlers, syncer, packer, raised>>

HearBatch ==
  /\ polled.on
  /\ Unheard("batch") # {}
  /\ LET block == Min(Unheard("batch"))
     IN  /\ polled' = [polled EXCEPT !.batch = block]
         /\ IF syncer.listeners = 0
            THEN /\ flaws' = flaws \cup IF IsOwn(block) \/ SyncedBefore(log[block].id)
                                        THEN {} ELSE {"unheard"}
                 /\ UNCHANGED <<strategy, handlers, raised>>
            ELSE Begin(block, 1 .. syncer.listeners)
  /\ UNCHANGED <<l1Vars, tree, stored, pool, syncpoint, syncer, packer, pushed>>

(***************************************************************************)
(* The packer.  An exception ends its run, and leaves its listeners.       *)
(***************************************************************************)
Stopped == [pc |-> "stopped", stopping |-> FALSE, listeners |-> 0, path |-> 0, block |-> 0]
Started == [Stopped EXCEPT !.pc = "idle", !.listeners = 1]

PackerRests == packer.pc \in {"stopped", "idle", "deposits", "transfers", "dead"}

\* onRun: deposits while there is a subtree, then transfers while there are any.
RunOnce ==
  /\ packer.pc = "idle"
  /\ ~packer.stopping
  /\ packer' = [packer EXCEPT !.pc = "deposits"]
  /\ UNCHANGED <<l1Vars, tree, stored, pool, syncpoint, strategy, handlers, syncer, polled, history>>

Dies == packer' = [packer EXCEPT !.pc = "dead"] /\ raised' = TRUE
Submitted(batch, next) ==
  log' = Append(log, batch) /\ packer' = next /\ UNCHANGED <<raised, flaws>>

\* The L1 may refuse a batch when its gas is estimated, which ends the packer at
\* once, or when it is to be mined, which the packer learns after it has stored
\* the batch.
NotMined == 0
Refused(next) ==
  /\ \/ Dies
     \/ packer' = [next EXCEPT !.block = NotMined] /\ UNCHANGED raised
  /\ flaws' = flaws \cup {"refused"}
  /\ UNCHANGED log

\* The L1 wants the proposer, the next ID, and a proof of the states it has.
IsNext == proposing /\ nextBatchID(stored) = Len(Chain)

submitDeposits ==
  /\ packer.pc = "deposits"
  /\ isSubtreeReady(pool)
  /\ HasBlock
  /\ LET path == findVacantSubtree(tree)
         next == [packer EXCEPT !.pc = "deposited", !.path = path, !.block = Len(log) + 1]
     IN  \/ /\ IsNext /\ current(stored).stateRoot = L1Tree /\ tree = L1Tree /\ HasSubtree
            /\ Submitted(NextBatch("Deposit", L1Tree, path), next)
         \/ Refused(next)
  /\ UNCHANGED <<proposing, leaving, slots, tree, stored, pool, syncpoint, strategy, handlers, syncer, polled, pushed>>

\* Storing the batch that was submitted, which throws when a listener has
\* stored it, and waiting for the L1.
Record(batch, pc) ==
  IF CanAdd(stored, batch)
  THEN /\ stored' = add(stored, batch)
       /\ packer' = [packer EXCEPT !.pc = pc]
       /\ UNCHANGED raised
  ELSE Dies /\ UNCHANGED stored

\* The pool's own first subtree is taken to be the one that the L1 took.
Deposited ==
  /\ packer.pc = "deposited"
  /\ IF isSubtreeReady(pool)
     THEN LET subtree == FrontSubtree(pool)
              batch   == DepositBatch(nextBatchID(stored), tree, subtree.id, subtree.states, packer.path)
          IN  /\ pool' = popDepositSubtree(pool)
              /\ tree' = batch.stateRoot
              /\ Record(batch, "depositsMined")
     ELSE Dies /\ UNCHANGED <<pool, tree, stored>>
  /\ UNCHANGED <<l1Vars, syncpoint, strategy, handlers, syncer, polled, pushed, flaws>>

\* The states are changed before the call; the L1 does not look at them.
submitTransfers ==
  /\ packer.pc = "transfers"
  /\ HasBlock
  /\ tree' = afterTransfers(tree)
  /\ LET next == [packer EXCEPT !.pc = "transferred", !.block = Len(log) + 1]
     IN  \/ IsNext /\ Submitted(NextBatch("Transfer", tree, 0), next)
         \/ Refused(next)
  /\ UNCHANGED <<proposing, leaving, slots, stored, pool, syncpoint, strategy, handlers, syncer, polled, pushed>>

Transferred ==
  /\ packer.pc = "transferred"
  /\ Record(Batch(nextBatchID(stored), "Transfer", tree), "transfersMined")
  /\ UNCHANGED <<l1Vars, tree, pool, syncpoint, strategy, handlers, syncer, polled, pushed, flaws>>

\* wait, which throws when the batch was not mined, and bump.
StaysPut(pc) == IF pc = "depositsMined" THEN "deposits" ELSE "transfers"
Mined ==
  /\ packer.pc \in {"depositsMined", "transfersMined"}
  /\ IF packer.block # NotMined /\ packer.block >= syncpoint.blockNumber
     THEN /\ syncpoint' = SyncPoint(packer.block, syncpoint.batchID + 1)
          /\ packer' = [packer EXCEPT !.pc = StaysPut(@)]
          /\ UNCHANGED raised
     ELSE Dies /\ UNCHANGED syncpoint
  /\ flaws' = flaws \cup Overtaken(ByPacker)
  /\ UNCHANGED <<l1Vars, tree, stored, pool, strategy, handlers, syncer, polled, pushed>>

\* No subtree is left; the transfer pool may be empty any time.
NoneLeft ==
  /\ \/ packer.pc = "deposits" /\ ~isSubtreeReady(pool)
        /\ packer' = [packer EXCEPT !.pc = "transfers"]
     \/ packer.pc = "transfers" /\ packer' = [packer EXCEPT !.pc = "idle"]
  /\ UNCHANGED <<l1Vars, tree, stored, pool, syncpoint, strategy, handlers, syncer, polled, history>>

\* stop takes effect when the run is over.
StopPacker ==
  /\ packer.pc = "idle"
  /\ packer.stopping
  /\ packer' = Stopped
  /\ UNCHANGED <<l1Vars, tree, stored, pool, syncpoint, strategy, handlers, syncer, polled, history>>

(***************************************************************************)
(* Slots, as the node follows them once its first sync is complete.  A     *)
(* sync is over before the next slot.                                      *)
(***************************************************************************)
\* onSlotBoundary, when the next slot is another's.  A service that is not
\* running waits for ever for its run to end.
SlotBoundary ==
  /\ proposing
  /\ ~leaving
  /\ leaving' = TRUE
  /\ packer' = IF ~syncer.regular \/ packer.pc = "dead" THEN packer
               ELSE IF packer.pc = "stopped" THEN [packer EXCEPT !.pc = "dead"]
               ELSE [packer EXCEPT !.stopping = TRUE]
  /\ UNCHANGED <<log, proposing, slots, tree, stored, pool, syncpoint, strategy, handlers, syncer, polled, history>>

NewSlot(isProposer) ==
  /\ slots < MaxSlots
  /\ ~Busy
  /\ proposing => (isProposer <=> ~leaving)
  /\ slots' = slots + 1
  /\ proposing' = isProposer
  /\ leaving' = FALSE
  /\ IF ~syncer.regular THEN UNCHANGED <<syncer, packer>>
     ELSE IF ~isProposer THEN syncer' = start /\ UNCHANGED packer
     ELSE syncer' = stop /\ packer' = IF packer.pc = "stopped" THEN Started ELSE packer
  /\ flaws' = flaws \cup IF syncer' = start /\ ~PackerRests THEN {"unfinished"} ELSE {}
  /\ UNCHANGED <<log, tree, stored, pool, syncpoint, strategy, handlers, polled, pushed, raised>>

(***************************************************************************)
(* The specification.                                                      *)
(***************************************************************************)
Init ==
  /\ log = <<Batch(0, "Genesis", GenesisTree)>>
  /\ proposing = FALSE
  /\ leaving = FALSE
  /\ slots = 0
  /\ tree = GenesisTree
  /\ stored = <<>>
  /\ pool = EmptyDepositPool
  /\ syncpoint = SyncPoint(1, -1)
  /\ strategy = "none"
  /\ handlers = {}
  /\ syncer = [pc |-> "reading", start |-> 1, latest |-> 0, todo |-> {},
               regular |-> FALSE, listeners |-> 0]
  /\ polled = [on |-> FALSE, deposit |-> 0, batch |-> 0]
  /\ packer = Stopped
  /\ pushed = <<>>
  /\ flaws = {}
  /\ raised = FALSE

NodeStep ==
  \/ getBlockNumber
  \/ SyncDeposits
  \/ QueryBatches
  \/ SyncBatch
  \/ \E handler \in handlers : FinishBatch(handler)
  \/ EndChunk
  \/ SyncComplete
  \/ HearDeposit
  \/ HearBatch
  \/ Deposited
  \/ Transferred
  \/ Mined
  \/ StopPacker

Next ==
  \/ QueueDeposit
  \/ \E usage \in Usages : OtherProposes(usage)
  \/ \E isProposer \in BOOLEAN : NewSlot(isProposer)
  \/ SlotBoundary
  \/ RunOnce
  \/ submitDeposits
  \/ submitTransfers
  \/ NoneLeft
  \/ NodeStep

\* The L1 answers, its events are delivered, and the node goes on with them.
Spec == Init /\ [][Next]_vars /\ WF_vars(NodeStep)

(***************************************************************************)
(* Properties.                                                             *)
(***************************************************************************)
AllHeard ==
  /\ syncer.pc = "done"
  /\ handlers = {}
  /\ polled.deposit >= Max(EventsOf("deposit") \cup {0})
  /\ polled.batch >= Max(EventsOf("batch"))

\* The pool of the L1's deposits that are in no batch.
Waiting(deposits, batches) ==
  LET subtrees == deposits \div maxSubtreeSize
  IN  [depositLeaves    |-> [i \in 1 .. deposits % maxSubtreeSize |-> subtrees * maxSubtreeSize + i],
       subtreeQueue     |-> [i \in 1 .. subtrees - batches |->
                               [id |-> batches + i, states |-> Subtree(batches + i)]],
       currentSubtreeID |-> subtrees]

Follows ==
  /\ stored = Chain
  /\ tree = L1Tree
  /\ pool = Waiting(Cardinality(EventsOf("deposit")), DepositBatches)
\* Each batch leads from the states of the one before it.
ChainIsRight ==
  \A i \in 2 .. Len(Chain) :
    LET before == Chain[i - 1].stateRoot
    IN  Chain[i].stateRoot = IF Chain[i].usage = "Deposit"
                             THEN insert(before, Chain[i].path, Chain[i].subtree)
                             ELSE afterTransfers(before)

\* The sync of the L1, from the genesis or from where it was left, with the
\* listeners and the packer, gives the node the L1's batches, its states and
\* its waiting deposits, raises nothing, and adds to the L1 only batches from
\* the states that it has; unless one of these happened:
\*   repeated    an event of a deposit is handled twice (syncer.ts:54)
\*   reordered   an event of a deposit is handled before an earlier one
\*   early       a batch is handled before the deposits it is of (deposit.ts:148)
\*   overlap     two batches are handled at once (contexts.ts:43)
\*   unsupported a batch has a usage without a strategy (contexts.ts:44)
\*   overtaken   the sync point is moved during an initial sync (syncer.ts:64)
\*   own         the packer's batch is handled as well (packer.ts:75)
\*   unfinished  the packer's batch is under way when a sync starts (node.ts:159)
\*   missed      nobody listens yet when an event comes (syncer.ts:47)
\*   unheard     nobody listens any more when an event comes (node.ts:163)
\*   refused     the L1 refuses the packer's batch
NodeFollowsL1 ==
  flaws = {} =>
    /\ ~raised
    /\ ChainIsRight
    /\ AllHeard /\ PackerRests => Follows

\* The node comes to have every batch of the L1, whether it was submitted
\* before the node's sync, during it, or while it listens, unless it is the
\* proposer by then or one of the above happened.
CatchesUp == <>[](flaws # {} \/ proposing \/ stored = Chain)

\* applyBatch asserts that the pool's first subtree is the one of the batch,
\* also for a node that was synced before and syncs again.
DepositRootsMatch ==
  flaws \subseteq {"repeated"} =>
    \A handler \in handlers :
      log[handler.block].usage = "Deposit" /\ isSubtreeReady(pool)
        => FrontSubtree(pool).states = log[handler.block].subtree
=============================================================================
