--------------------------------- MODULE Node ---------------------------------
(***************************************************************************)
(* ts/client/node.ts, services/bidder.ts and ts/burnAuction.ts: a node     *)
(* that bids for slots in the burn auction and packs batches in the slots  *)
(* it wins.  It acts on the events of new blocks; each is handled by       *)
(* asynchronous calls that ask the L1 and go on when it has answered.      *)
(* What the packer and the syncer do is the subject of module Client.      *)
(***************************************************************************)
EXTENDS Service, SequencesExt, FiniteSetsExt

CONSTANTS
  me,                    \* the account of the node
  rival,                 \* another coordinator
  willingnessToBid,
  RivalBids,             \* the amounts that the rival may bid
  MaxBehind,             \* bound: blocks that are not delivered, calls not answered
  MaxStart,              \* bound: the block by which the node proposes
  Accounts, donationAddress, donationNumerator, DONATION_DENOMINATOR,
  BLOCKS_PER_SLOT, genesisBlock, Values, MaxBlock, MaxEther

ASSUME NodeAssumption ==
  /\ {me, rival} \subseteq Accounts /\ me # rival
  /\ willingnessToBid \in Nat /\ RivalBids \subseteq Nat
  /\ MaxBehind \in Nat \ {0} /\ MaxStart \in Nat
  /\ BLOCKS_PER_SLOT \in Nat /\ BLOCKS_PER_SLOT > 3 /\ genesisBlock \in Nat

VARIABLES
  block, auction, deposits, balance, paid,   \* the L1's auction
  mode,       \* of the node: off, failed, syncing, following, proposing, closed
  delivered,  \* the last block whose event was delivered
  bidder,     \* the last slot it acted on, and its calls of maybeBid
  handlers,   \* the node's calls of onSlotBoundary and onNewSlot
  packer,     \* the packing service
  listening,  \* how many times the syncer's listeners are registered
  inTime,     \* history: slots whose call of maybeBid ended within the slot
  misread,    \* history: slots where the best bid was compared wrongly
  overtaken   \* history: whether a boundary was answered before its slot's start

l1Vars == <<block, auction, deposits, balance, paid>>
history == <<inTime, misread, overtaken>>
vars == <<l1Vars, mode, delivered, bidder, handlers, packer, listening, history>>

Auction == INSTANCE BurnAuction

(***************************************************************************)
(* BurnAuctionWrapper: slots computed from the number of a block.          *)
(***************************************************************************)
currentSlot(blockNumber) ==
  IF blockNumber < genesisBlock THEN 0
  ELSE (blockNumber - genesisBlock) \div BLOCKS_PER_SLOT
slotProgress(blockNumber) ==
  IF blockNumber < genesisBlock THEN 0
  ELSE (blockNumber - genesisBlock) % BLOCKS_PER_SLOT

\* Mutant: the bid for the slot before the one that was asked for.
SlotBefore(n, blockNumber) == currentSlot(blockNumber) + n - 1
NSlotFromNow(n, blockNumber) == currentSlot(blockNumber) + n

IsMine(slot) == slot \in DOMAIN auction /\ auction[slot].coordinator = me
checkAmIProposerNow(blockNumber)  == IsMine(NSlotFromNow(0, blockNumber))
checkAmIProposerNext(blockNumber) == IsMine(NSlotFromNow(1, blockNumber))

(***************************************************************************)
(* Bidder.                                                                 *)
(***************************************************************************)
\* Two BigNumbers are compared with >= as their decimal strings are.
decimal[n \in Nat] == IF n < 10 THEN <<n>> ELSE Append(decimal[n \div 10], n % 10)
AtLeast(a, b) ==
  LET s == decimal[a]
      t == decimal[b]
  IN  \/ IsPrefix(t, s)
      \/ \E i \in DOMAIN s \cap DOMAIN t :
           s[i] > t[i] /\ \A j \in 1 .. i - 1 : s[j] = t[j]

Call(blockNumber, pc) == [block |-> blockNumber, pc |-> pc]

\* maybeBid until it asks for the best bid of the slot that is auctioned.
Notified(blockNumber) ==
  IF currentSlot(blockNumber) <= bidder.currentSlot THEN bidder
  ELSE [currentSlot |-> currentSlot(blockNumber),
        calls       |-> bidder.calls \cup {Call(blockNumber, "asked")}]

Ended(call) ==
  inTime' = IF currentSlot(call.block) = Auction!currentSlot
            THEN inTime \cup {currentSlot(call.block)} ELSE inTime

getAuctioningSlotBid(call) ==
  LET slot == NSlotFromNow(2, call.block)
      best == Auction!CurrentBid(slot)
      bids == ~IsMine(slot) /\ ~AtLeast(best, willingnessToBid)
  IN  /\ call.pc = "asked"
      /\ bidder' = [bidder EXCEPT
           !.calls = (@ \ {call}) \cup IF bids THEN {Call(call.block, "bids")} ELSE {}]
      /\ IF bids THEN UNCHANGED inTime ELSE Ended(call)
      /\ misread' = IF AtLeast(best, willingnessToBid) # (best >= willingnessToBid)
                    THEN misread \cup {currentSlot(call.block)} ELSE misread
      /\ UNCHANGED <<l1Vars, mode, delivered, handlers, packer, listening, overtaken>>

\* The bid is for the slot that is auctioned when it is mined, and reverts
\* unless it is the best.
Bids(call) ==
  /\ call.pc = "bids"
  /\ \/ Auction!bid(me, willingnessToBid, willingnessToBid)
     \/ willingnessToBid <= Auction!CurrentBid(Auction!auctionSlot) /\ UNCHANGED l1Vars
  /\ bidder' = [bidder EXCEPT !.calls = @ \ {call}]
  /\ Ended(call)
  /\ UNCHANGED <<mode, delivered, handlers, packer, listening, misread, overtaken>>

(***************************************************************************)
(* HubbleNode: init, start and close.                                      *)
(***************************************************************************)
Configs == [proposer : BOOLEAN, watcher : BOOLEAN, feeReceivers : BOOLEAN, willingness : BOOLEAN]
Accepted(config) ==
  /\ config.proposer => config.feeReceivers /\ config.willingness
  /\ ~config.watcher

init(config) ==
  /\ mode = "off"
  /\ mode' = IF ~Accepted(config) THEN "failed"
             ELSE IF config.proposer THEN "syncing" ELSE "following"
  /\ bidder' = [bidder EXCEPT !.currentSlot = Auction!currentSlot]
  /\ UNCHANGED <<l1Vars, delivered, handlers, packer, listening, history>>

\* From here on the node and its bidder hear of new blocks; the listeners of
\* the syncer are registered right after.
onSyncComplete ==
  /\ mode = "syncing"
  /\ mode' = "proposing"
  /\ delivered' = block
  /\ listening' = listening + 1
  /\ UNCHANGED <<l1Vars, bidder, handlers, packer, history>>

stopSyncer == listening' = IF listening > 0 THEN listening - 1 ELSE 0

\* The bidder stops hearing of blocks, the node does not.
close ==
  /\ mode = "proposing"
  /\ mode' = "closed"
  /\ stopSyncer
  /\ packer' = stopService(packer)
  /\ UNCHANGED <<l1Vars, delivered, bidder, handlers, history>>

(***************************************************************************)
(* The events of blocks.                                                   *)
(***************************************************************************)
Handler(kind, blockNumber) == [kind |-> kind, block |-> blockNumber]
Handled(blockNumber) ==
  IF blockNumber < genesisBlock THEN {}
  ELSE CASE slotProgress(blockNumber) = BLOCKS_PER_SLOT - 3 -> {Handler("boundary", blockNumber)}
         [] slotProgress(blockNumber) = 0                   -> {Handler("new", blockNumber)}
         [] OTHER                                           -> {}

Deliver ==
  /\ mode \in {"proposing", "closed"}
  /\ delivered < block
  /\ Cardinality(handlers) + Cardinality(bidder.calls) < MaxBehind
  /\ delivered' = delivered + 1
  /\ bidder' = IF mode = "proposing" THEN Notified(delivered + 1) ELSE bidder
  /\ handlers' = handlers \cup Handled(delivered + 1)
  /\ UNCHANGED <<l1Vars, mode, packer, listening, history>>

onSlotBoundary(handler) ==
  /\ handler.kind = "boundary"
  /\ packer' = IF checkAmIProposerNow(handler.block) /\ ~checkAmIProposerNext(handler.block)
               THEN stopService(packer) ELSE packer
  /\ UNCHANGED listening

\* Mutant: the packer is started whether or not it is stopped.
StartAnyway == startService(packer)
Restarted   == IF isStopped(packer) THEN startService(packer) ELSE packer

onNewSlot(handler) ==
  /\ handler.kind = "new"
  /\ IF checkAmIProposerNow(handler.block)
     THEN stopSyncer /\ packer' = Restarted
     ELSE listening' = listening + 1 /\ UNCHANGED packer

\* The answers for a slot's boundary come before those for its start.
Overtakes(handler, other) ==
  handler.kind = "boundary" /\ other.kind = "new" /\ other.block < handler.block

Answered(handler) ==
  /\ onSlotBoundary(handler) \/ onNewSlot(handler)
  /\ handlers' = handlers \ {handler}
  /\ overtaken' = (overtaken \/ \E other \in handlers :
                     Overtakes(handler, other))
  /\ UNCHANGED <<l1Vars, mode, delivered, bidder, inTime, misread>>

PackerSteps ==
  /\ \/ RunOver(packer, packer')
     \/ RunFails(packer, packer')
     \/ StopOver(packer, packer')
  /\ UNCHANGED <<l1Vars, mode, delivered, bidder, handlers, listening, history>>

(***************************************************************************)
(* The specification.                                                      *)
(***************************************************************************)
NewBlock ==
  /\ IF mode \in {"proposing", "closed"} THEN block - delivered < MaxBehind ELSE block < MaxStart
  /\ Auction!NewBlock
  /\ UNCHANGED <<mode, delivered, bidder, handlers, packer, listening, history>>

RivalBid(amount) ==
  /\ Auction!bid(rival, amount, amount)
  /\ UNCHANGED <<mode, delivered, bidder, handlers, packer, listening, history>>

Init ==
  /\ Auction!AuctionInit
  /\ mode = "off"
  /\ delivered = 0
  /\ bidder = [currentSlot |-> 0, calls |-> {}]
  /\ handlers = {}
  /\ packer = NewService
  /\ listening = 0
  /\ inTime = {}
  /\ misread = {}
  /\ overtaken = FALSE

Next ==
  \/ NewBlock
  \/ \E amount \in RivalBids : RivalBid(amount)
  \/ \E config \in Configs : init(config)
  \/ onSyncComplete
  \/ close
  \/ Deliver
  \/ \E call \in bidder.calls : getAuctioningSlotBid(call) \/ Bids(call)
  \/ \E handler \in handlers : Answered(handler)
  \/ PackerSteps

Spec == Init /\ [][Next]_vars

(***************************************************************************)
(* Properties.                                                             *)
(***************************************************************************)
\* Whoever outbids nobody loses: once the bidder's call for a slot has ended
\* before the slot did, the slot that was auctioned is the node's, or its best
\* bid is no less than the node was willing to bid, unless the comparison of
\* the two went wrong (bidder.ts:42).
SlotsAreWon ==
  \A slot \in inTime \ misread :
    IsMine(slot + 2) \/ Auction!CurrentBid(slot + 2) >= willingnessToBid

\* The event of a slot's boundary is still to be delivered or answered.
Behind ==
  \/ \E late \in delivered + 1 .. block : slotProgress(late) = BLOCKS_PER_SLOT - 3
  \/ \E handler \in handlers : handler.kind = "boundary"

\* However late the events are handled, and in whatever order: there is at most
\* one run loop; and the packer, unless it is told to stop, runs in the node's
\* own slots only, up to the events that were not handled yet, unless the start
\* of a slot was answered after its boundary: then the packer was told to stop
\* first and is started with nobody to stop it (node.ts:164).
PacksInOwnSlots ==
  /\ packer.loops <= 1
  /\ packer.state = "RUNNING" /\ ~IsMine(Auction!currentSlot) => Behind \/ overtaken
=============================================================================
