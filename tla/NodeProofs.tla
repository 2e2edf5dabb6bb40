----------------------------- MODULE NodeProofs -----------------------------
(***************************************************************************)
(* The node: its services, and the trees its states and its accounts are   *)
(* kept in.                                                                *)
(*                                                                         *)
(* The node's bids: whatever calls of maybeBid overlap, and however the    *)
(* rival bids between their answers, the node's bids are all of what it is *)
(* willing to pay, so that a slot it holds, or gave up, has a best bid of  *)
(* no less.  The packer: at most one loop runs, none when it is stopped or *)
(* has finished, which is what start relies on; and it runs in the slots   *)
(* that are the node's.                                                    *)
(*                                                                         *)
(* Merkle trees, for every depth the bit operators have room for: updating *)
(* a range of leaves hashes the couples above it, and the witness of a     *)
(* node proves it.  The memory engine: no update is lost while one commit  *)
(* runs at a time, its tree is the tree of its items whatever commits      *)
(* interleave, and a leaf found vacant has no item.  The database engine:  *)
(* its rows are the tree of its leaves when updates come one at a time.    *)
(* The account registry: the contract's roots are the roots of all its     *)
(* keys, and the IDs a registration returns are those of its keys.         *)
(***************************************************************************)
EXTENDS Node, Storage, SequenceTheorems, SumTheorems

BestBid(slot) == Auction!CurrentBid(slot)

\* The bids in place, and those the node answered for in time.
BidsInv ==
  /\ \A slot \in DOMAIN auction :
       /\ auction[slot].amount \in Nat
       /\ auction[slot].coordinator = me => auction[slot].amount = willingnessToBid
  /\ \A slot \in inTime \ misread : BestBid(slot + 2) >= willingnessToBid

\* The packer's loop.
Services ==
  [state : {"STOPPED", "RUNNING", "STOPPING", "FINISHED"}, loops : 0 .. 1, stops : Nat]
LoopInv ==
  /\ packer \in Services
  /\ packer.state \in {"STOPPED", "FINISHED"} => packer.loops = 0

(***************************************************************************)
(* Bids.                                                                   *)
(***************************************************************************)
LEMMA BestBidType ==
  ASSUME BidsInv, NEW slot
  PROVE  BestBid(slot) \in Nat /\ (IsMine(slot) => BestBid(slot) >= willingnessToBid)
BY NodeAssumption DEF BidsInv, BestBid, Auction!CurrentBid, IsMine

\* A bid that does not revert is the best of its slot, and leaves the others.
LEMMA BidStep ==
  ASSUME BidsInv, NEW sender, NEW amount \in Nat, NEW value,
         sender = me => amount = willingnessToBid,
         NEW CONSTANT open, open = Auction!auctionSlot,
         Auction!bid(sender, amount, value)
  PROVE  /\ \A slot \in DOMAIN auction' :
              /\ auction'[slot].amount \in Nat
              /\ auction'[slot].coordinator = me => auction'[slot].amount = willingnessToBid
         /\ \A slot : BestBid(slot)' >= BestBid(slot)
         /\ BestBid(open)' = amount
<1>1. /\ amount > BestBid(open)
      /\ auction' = [s \in DOMAIN auction \cup {open} |->
                       IF s = open THEN [coordinator |-> sender, amount |-> amount]
                                   ELSE auction[s]]
  BY DEF Auction!bid, BestBid
<1>2. \A slot : BestBid(slot) \in Nat
  BY BestBidType
<1>3. \A slot : BestBid(slot)' = IF slot \in DOMAIN auction' THEN auction'[slot].amount ELSE 0
  BY DEF BestBid, Auction!CurrentBid
<1>4. \A slot : BestBid(slot) = IF slot \in DOMAIN auction THEN auction[slot].amount ELSE 0
  BY DEF BestBid, Auction!CurrentBid
<1>5. BestBid(open)' = amount
  BY <1>1, <1>3
<1>6. ASSUME NEW CONSTANT slot, slot # open PROVE BestBid(slot)' = BestBid(slot)
  BY <1>1, <1>3, <1>4, <1>6
<1>7. ASSUME NEW CONSTANT slot PROVE BestBid(slot)' >= BestBid(slot)
  BY <1>1, <1>2, <1>5, <1>6
<1>8. ASSUME NEW slot \in DOMAIN auction'
      PROVE  /\ auction'[slot].amount \in Nat
             /\ auction'[slot].coordinator = me => auction'[slot].amount = willingnessToBid
  <2>1. CASE slot = open
    BY <1>1, <2>1
  <2>2. CASE slot # open
    BY <1>1, <2>2 DEF BidsInv
  <2> QED
    BY <2>1, <2>2
<1> QED
  BY <1>5, <1>7, <1>8

LEMMA AnswerStep ==
  ASSUME BidsInv, NEW call \in bidder.calls, getAuctioningSlotBid(call)
  PROVE  BidsInv'
<1> DEFINE slot == currentSlot(call.block)
           best == BestBid(slot + 2)
           bids == ~IsMine(slot + 2) /\ ~AtLeast(best, willingnessToBid)
<1>1. /\ auction' = auction
      /\ IF bids THEN inTime' = inTime ELSE inTime' \subseteq inTime \cup {slot}
      /\ misread' = IF AtLeast(best, willingnessToBid) # (best >= willingnessToBid)
                    THEN misread \cup {slot} ELSE misread
  BY DEF getAuctioningSlotBid, Ended, NSlotFromNow, BestBid, l1Vars
<1>2. \A s : BestBid(s)' = BestBid(s)
  BY <1>1 DEF BestBid, Auction!CurrentBid
<1>3. best \in Nat /\ (IsMine(slot + 2) => best >= willingnessToBid)
  BY BestBidType
<1> HIDE DEF slot, best
<1>4. AtLeast(best, willingnessToBid) \in BOOLEAN
  BY DEF AtLeast
<1>5. ~bids /\ slot \notin misread' => best >= willingnessToBid
  BY <1>1, <1>3, <1>4
<1>6. ASSUME NEW s \in inTime' \ misread' PROVE BestBid(s + 2)' >= willingnessToBid
  <2>1. misread \subseteq misread'
    BY <1>1
  <2>2. CASE s \in inTime
    BY <1>2, <2>1, <2>2 DEF BidsInv
  <2>3. CASE s \notin inTime
    <3>1. s = slot /\ ~bids
      BY <1>1, <2>3
    <3>2. BestBid(s + 2) = best
      BY <3>1 DEF best
    <3> QED
      BY <1>2, <1>5, <3>1, <3>2
  <2> QED
    BY <2>2, <2>3
<1> QED
  BY <1>1, <1>6 DEF BidsInv

\* A bid that comes too late for the slot of its call is for another one, and
\* the call is then not in time.
LEMMA NodeBidStep ==
  ASSUME BidsInv, NEW call \in bidder.calls, Bids(call)
  PROVE  BidsInv'
<1> SUFFICES ASSUME NEW CONSTANT open, open = Auction!auctionSlot PROVE BidsInv'
  OBVIOUS
<1>1. /\ misread' = misread
      /\ \A s \in inTime' : s \in inTime \/ s + 2 = open
  BY DEF Bids, Ended, Auction!auctionSlot
<1>2. CASE Auction!bid(me, willingnessToBid, willingnessToBid)
  <2>1. /\ \A slot \in DOMAIN auction' :
             /\ auction'[slot].amount \in Nat
             /\ auction'[slot].coordinator = me => auction'[slot].amount = willingnessToBid
        /\ \A slot : BestBid(slot)' >= BestBid(slot)
        /\ BestBid(open)' = willingnessToBid
    BY <1>2, BidStep, NodeAssumption
  <2>2. ASSUME NEW CONSTANT s, s \in inTime' \ misread' PROVE BestBid(s + 2)' >= willingnessToBid
    <3>1. CASE s \in inTime
      <4>1. BestBid(s + 2) >= willingnessToBid /\ BestBid(s + 2) \in Nat
        BY <1>1, <2>2, <3>1, BestBidType DEF BidsInv
      <4>2. BestBid(s + 2)' >= BestBid(s + 2)
        BY <2>1
      <4>3. BestBid(s + 2)' \in Nat
        BY <2>1 DEF BestBid, Auction!CurrentBid
      <4> QED
        BY <4>1, <4>2, <4>3, NodeAssumption
    <3>2. CASE s + 2 = open
      BY <2>1, <3>2, NodeAssumption
    <3> QED
      BY <1>1, <2>2, <3>1, <3>2
  <2> QED
    BY <2>1, <2>2 DEF BidsInv
<1>3. CASE willingnessToBid <= Auction!CurrentBid(Auction!auctionSlot) /\ UNCHANGED l1Vars
  <2>1. BestBid(open) >= willingnessToBid
    BY <1>3, NodeAssumption, BestBidType DEF BestBid
  <2>2. auction' = auction /\ \A s : BestBid(s)' = BestBid(s)
    BY <1>3 DEF l1Vars, BestBid, Auction!CurrentBid
  <2>3. ASSUME NEW CONSTANT s, s \in inTime' \ misread' PROVE BestBid(s + 2)' >= willingnessToBid
    BY <1>1, <2>1, <2>2, <2>3 DEF BidsInv
  <2> QED
    BY <2>2, <2>3 DEF BidsInv
<1> QED
  BY <1>2, <1>3 DEF Bids

LEMMA RivalStep ==
  ASSUME BidsInv, NEW amount \in RivalBids, RivalBid(amount)
  PROVE  BidsInv'
<1> SUFFICES ASSUME NEW CONSTANT open, open = Auction!auctionSlot PROVE BidsInv'
  OBVIOUS
<1>1. Auction!bid(rival, amount, amount) /\ inTime' = inTime /\ misread' = misread
  BY DEF RivalBid, history
<1>2. /\ \A slot \in DOMAIN auction' :
           /\ auction'[slot].amount \in Nat
           /\ auction'[slot].coordinator = me => auction'[slot].amount = willingnessToBid
      /\ \A slot : BestBid(slot)' >= BestBid(slot)
  BY <1>1, BidStep, NodeAssumption
<1>3. ASSUME NEW CONSTANT s, s \in inTime \ misread PROVE BestBid(s + 2)' >= willingnessToBid
  <2>1. BestBid(s + 2) >= willingnessToBid /\ BestBid(s + 2) \in Nat
    BY <1>3, BestBidType DEF BidsInv
  <2>2. BestBid(s + 2)' >= BestBid(s + 2)
    BY <1>2
  <2>3. BestBid(s + 2)' \in Nat
    BY <1>2 DEF BestBid, Auction!CurrentBid
  <2> QED
    BY <2>1, <2>2, <2>3, NodeAssumption
<1> QED
  BY <1>1, <1>2, <1>3 DEF BidsInv

LEMMA BidsUnchanged ==
  ASSUME BidsInv, UNCHANGED <<auction, inTime, misread>>
  PROVE  BidsInv'
BY DEF BidsInv, BestBid, Auction!CurrentBid

LEMMA BidsKept ==
  ASSUME BidsInv, [Next]_vars
  PROVE  BidsInv'
<1>1. CASE NewBlock
  BY <1>1, BidsUnchanged DEF NewBlock, Auction!NewBlock, history
<1>2. ASSUME NEW amount \in RivalBids, RivalBid(amount) PROVE BidsInv'
  BY <1>2, RivalStep
<1>3. ASSUME NEW config \in Configs, init(config) PROVE BidsInv'
  BY <1>3, BidsUnchanged DEF init, l1Vars, history
<1>4. CASE onSyncComplete
  BY <1>4, BidsUnchanged DEF onSyncComplete, l1Vars, history
<1>5. CASE close
  BY <1>5, BidsUnchanged DEF close, l1Vars, history
<1>6. CASE Deliver
  BY <1>6, BidsUnchanged DEF Deliver, l1Vars, history
<1>7. ASSUME NEW call \in bidder.calls, getAuctioningSlotBid(call) PROVE BidsInv'
  BY <1>7, AnswerStep
<1>8. ASSUME NEW call \in bidder.calls, Bids(call) PROVE BidsInv'
  BY <1>8, NodeBidStep
<1>9. ASSUME NEW handler \in handlers, Answered(handler) PROVE BidsInv'
  BY <1>9, BidsUnchanged DEF Answered, l1Vars
<1>10. CASE PackerSteps
  BY <1>10, BidsUnchanged DEF PackerSteps, l1Vars, history
<1>11. CASE UNCHANGED vars
  BY <1>11, BidsUnchanged DEF vars, l1Vars, history
<1> QED
  BY <1>1, <1>2, <1>3, <1>4, <1>5, <1>6, <1>7, <1>8, <1>9, <1>10, <1>11 DEF Next

\* Whatever is bid in between: a slot for which the node's call was answered in
\* time is its own, or has a best bid of no less than it would have paid, unless
\* the two amounts were compared wrongly (bidder.ts:42).
THEOREM SlotsWon == Spec => []SlotsAreWon
<1>1. Init => BidsInv
  BY DEF Init, Auction!AuctionInit, BidsInv
<1>2. BidsInv /\ [Next]_vars => BidsInv'
  BY BidsKept
<1>3. BidsInv => SlotsAreWon
  BY DEF BidsInv, SlotsAreWon, BestBid
<1> QED
  BY <1>1, <1>2, <1>3, PTL DEF Spec

(***************************************************************************)
(* The packer's loop.                                                      *)
(***************************************************************************)
LEMMA LoopUnchanged ==
  ASSUME LoopInv, UNCHANGED packer
  PROVE  LoopInv'
BY DEF LoopInv

LEMMA StopKeepsLoop ==
  ASSUME LoopInv, packer' = stopService(packer)
  PROVE  LoopInv'
<1>1. packer' = [packer EXCEPT !.state = "STOPPING", !.stops = packer.stops + 1]
  BY DEF stopService
<1>2. packer.stops + 1 \in Nat
  BY DEF LoopInv, Services
<1>3. packer' \in Services /\ packer'.state = "STOPPING"
  BY <1>1, <1>2 DEF LoopInv, Services
<1> QED
  BY <1>3 DEF LoopInv

\* Only a packer that is stopped is started, and it has no loop.
LEMMA StartKeepsLoop ==
  ASSUME LoopInv, packer' = Restarted
  PROVE  LoopInv'
<1>1. CASE isStopped(packer)
  <2>1. packer' = [packer EXCEPT !.state = "RUNNING", !.loops = packer.loops + 1]
    BY <1>1 DEF Restarted, startService
  <2>2. packer.loops + 1 \in 0 .. 1
    BY <1>1 DEF LoopInv, Services, isStopped
  <2>3. packer' \in Services /\ packer'.state = "RUNNING"
    BY <2>1, <2>2 DEF LoopInv, Services
  <2> QED
    BY <2>3 DEF LoopInv
<1>2. CASE ~isStopped(packer)
  BY <1>2, LoopUnchanged DEF Restarted
<1> QED
  BY <1>1, <1>2

LEMMA RunKeepsLoop ==
  ASSUME LoopInv, PackerSteps
  PROVE  LoopInv'
<1>1. ASSUME packer.loops > 0 PROVE packer.loops - 1 \in 0 .. 1 /\ packer.loops - 1 = 0
  BY <1>1 DEF LoopInv, Services
<1>2. CASE RunOver(packer, packer')
  <2>1. packer.loops > 0 /\ packer' = [packer EXCEPT !.state = "FINISHED", !.loops = packer.loops - 1]
    BY <1>2 DEF RunOver
  <2>2. packer' \in Services /\ packer'.loops = 0
    BY <1>1, <2>1 DEF LoopInv, Services
  <2> QED
    BY <2>2 DEF LoopInv
<1>3. CASE RunFails(packer, packer')
  <2>1. packer.loops > 0 /\ packer' = [packer EXCEPT !.loops = packer.loops - 1]
    BY <1>3 DEF RunFails
  <2>2. packer' \in Services /\ packer'.loops = 0
    BY <1>1, <2>1 DEF LoopInv, Services
  <2> QED
    BY <2>2 DEF LoopInv
<1>4. CASE StopOver(packer, packer')
  <2>1. /\ packer.stops > 0 /\ packer.state = "FINISHED"
        /\ packer' = [packer EXCEPT !.state = "STOPPED", !.stops = packer.stops - 1]
    BY <1>4 DEF StopOver
  <2>2. packer.loops = 0 /\ packer.stops - 1 \in Nat
    BY <2>1 DEF LoopInv, Services
  <2>3. packer' \in Services /\ packer'.loops = 0
    BY <2>1, <2>2 DEF LoopInv, Services
  <2> QED
    BY <2>3 DEF LoopInv
<1> QED
  BY <1>2, <1>3, <1>4 DEF PackerSteps

LEMMA LoopKept ==
  ASSUME LoopInv, [Next]_vars
  PROVE  LoopInv'
<1>1. CASE NewBlock
  BY <1>1, LoopUnchanged DEF NewBlock
<1>2. ASSUME NEW amount \in RivalBids, RivalBid(amount) PROVE LoopInv'
  BY <1>2, LoopUnchanged DEF RivalBid
<1>3. ASSUME NEW config \in Configs, init(config) PROVE LoopInv'
  BY <1>3, LoopUnchanged DEF init
<1>4. CASE onSyncComplete
  BY <1>4, LoopUnchanged DEF onSyncComplete
<1>5. CASE close
  BY <1>5, StopKeepsLoop DEF close
<1>6. CASE Deliver
  BY <1>6, LoopUnchanged DEF Deliver
<1>7. ASSUME NEW call \in bidder.calls, getAuctioningSlotBid(call) \/ Bids(call) PROVE LoopInv'
  BY <1>7, LoopUnchanged DEF getAuctioningSlotBid, Bids
<1>8. ASSUME NEW handler \in handlers, Answered(handler) PROVE LoopInv'
  <2>1. packer' \in {stopService(packer), Restarted, packer}
    BY <1>8 DEF Answered, onSlotBoundary, onNewSlot
  <2> QED
    BY <2>1, StopKeepsLoop, StartKeepsLoop, LoopUnchanged
<1>9. CASE PackerSteps
  BY <1>9, RunKeepsLoop
<1>10. CASE UNCHANGED vars
  BY <1>10, LoopUnchanged DEF vars
<1> QED
  BY <1>1, <1>2, <1>3, <1>4, <1>5, <1>6, <1>7, <1>8, <1>9, <1>10 DEF Next

\* The two loops that a second start would run (base.ts:28) never do: the node
\* looks at the state of its packer in the same step, and a packer that is
\* stopped has no loop, also after stops that overlap or an exception.
THEOREM OneLoop == Spec => [](packer.loops <= 1)
<1>1. Init => LoopInv
  BY DEF Init, LoopInv, NewService, Services
<1>2. LoopInv /\ [Next]_vars => LoopInv'
  BY LoopKept
<1>3. LoopInv => packer.loops <= 1
  BY DEF LoopInv, Services
<1> QED
  BY <1>1, <1>2, <1>3, PTL DEF Spec
(***************************************************************************)
(* The slots in which the packer runs.  A packer that runs was started at  *)
(* the start of a slot of the node's; of the boundaries since then, those  *)
(* after which the slot is not the node's any more are still to be         *)
(* answered, because the answer would have stopped the packer.             *)
(***************************************************************************)
LEMMA SlotNumbers == BLOCKS_PER_SLOT \in Nat \ {0} /\ genesisBlock \in Nat
BY NodeAssumption

LEMMA SlotOfBlock ==
  ASSUME NEW b \in Nat, b >= genesisBlock
  PROVE  /\ currentSlot(b) \in Nat /\ slotProgress(b) \in Nat
         /\ slotProgress(b) < BLOCKS_PER_SLOT
         /\ b = genesisBlock + BLOCKS_PER_SLOT * currentSlot(b) + slotProgress(b)
<1>1. PICK n, p : n = b - genesisBlock /\ p = BLOCKS_PER_SLOT
  OBVIOUS
<1>2. n \in Nat /\ p \in Nat \ {0} /\ b = genesisBlock + n /\ ~ (b < genesisBlock)
  BY <1>1, SlotNumbers
<1>3. n \div p \in Nat /\ n % p \in Nat /\ n % p < p /\ n = p * (n \div p) + (n % p)
  BY <1>2
<1>4. currentSlot(b) = n \div p /\ slotProgress(b) = n % p
  BY <1>1, <1>2 DEF currentSlot, slotProgress
<1>5. PICK m \in Nat : m = p * (n \div p)
  BY <1>2, <1>3
<1>6. b = genesisBlock + m + (n % p)
  BY <1>2, <1>3, <1>5, SlotNumbers
<1> QED
  BY <1>1, <1>3, <1>4, <1>5, <1>6

LEMMA BlockOfSlot ==
  ASSUME NEW b, NEW s \in Nat, NEW p \in Nat, p < BLOCKS_PER_SLOT,
         b = genesisBlock + BLOCKS_PER_SLOT * s + p
  PROVE  b \in Nat /\ b >= genesisBlock /\ currentSlot(b) = s /\ slotProgress(b) = p
<1>1. PICK k, m : k = BLOCKS_PER_SLOT /\ m = k * s
  OBVIOUS
<1>2. k \in Nat \ {0} /\ m \in Nat /\ b = genesisBlock + m + p /\ p < k
  BY <1>1, SlotNumbers
<1>3. b \in Nat /\ b >= genesisBlock /\ b - genesisBlock = m + p
  BY <1>2, SlotNumbers
<1>4. (m + p) \div k = s
  BY <1>1, <1>2, QuotientIs
<1>5. (m + p) % k = p
  <2>1. m + p = k * ((m + p) \div k) + ((m + p) % k) /\ (m + p) % k \in Nat
    BY <1>2
  <2> QED
    BY <1>1, <1>2, <1>4, <2>1
<1>6. ~ (b < genesisBlock)
  BY <1>3, SlotNumbers
<1>7. currentSlot(b) = (m + p) \div k /\ slotProgress(b) = (m + p) % k
  BY <1>1, <1>3, <1>6 DEF currentSlot, slotProgress
<1> QED
  BY <1>3, <1>4, <1>5, <1>7

LEMMA SlotsGrow ==
  ASSUME NEW a \in Nat, NEW b \in Nat, a <= b
  PROVE  currentSlot(a) \in Nat /\ currentSlot(b) \in Nat /\ currentSlot(a) <= currentSlot(b)
<1>1. currentSlot(a) \in Nat /\ currentSlot(b) \in Nat
  BY SlotOfBlock, SlotNumbers DEF currentSlot
<1>2. CASE a < genesisBlock
  BY <1>1, <1>2, SlotNumbers DEF currentSlot
<1>3. CASE a >= genesisBlock
  <2>1. PICK k, x, y, p, q : /\ k = BLOCKS_PER_SLOT /\ x = currentSlot(a) /\ y = currentSlot(b)
                             /\ p = slotProgress(a) /\ q = slotProgress(b)
    OBVIOUS
  <2>2. /\ a = genesisBlock + k * x + p /\ b = genesisBlock + k * y + q
        /\ p \in Nat /\ q \in Nat /\ q < k /\ x \in Nat /\ y \in Nat /\ k \in Nat
    <3>1. b >= genesisBlock
      BY <1>3, SlotNumbers
    <3> QED
      BY <1>3, <2>1, <3>1, SlotOfBlock, SlotNumbers
  <2>3. ASSUME y < x PROVE FALSE
    <3>1. PICK d \in Nat : x = y + 1 + d
      <4>1. x - (y + 1) \in Nat /\ x = y + 1 + (x - (y + 1))
        BY <2>2, <2>3
      <4> QED
        BY <4>1
    <3>2. PICK ky \in Nat, kd \in Nat : ky = k * y /\ kd = k * d
      BY <2>2
    <3>3. k * x = ky + k + kd
      BY <2>2, <3>1, <3>2
    <3>4. a = genesisBlock + ky + k + kd + p /\ b = genesisBlock + ky + q
      BY <2>2, <3>2, <3>3, SlotNumbers
    <3> QED
      BY <2>2, <3>2, <3>4, SlotNumbers
  <2> QED
    BY <2>1, <2>2, <2>3
<1> QED
  BY <1>2, <1>3, SlotNumbers

\* The block of a slot's boundary, and whether the packer stops there.
IsBoundary(b) == slotProgress(b) = BLOCKS_PER_SLOT - 3
EndsAt(b) == IsMine(currentSlot(b)) /\ ~IsMine(currentSlot(b) + 1)
Waits(b) == Handler("boundary", b) \in handlers

\* The packer that runs was started with the slot of this block.
RunsFrom(start) ==
  /\ start \in genesisBlock .. delivered
  /\ slotProgress(start) = 0
  /\ IsMine(currentSlot(start))
  /\ \A b \in start .. delivered : IsBoundary(b) /\ EndsAt(b) => Waits(b)

\* Starts of slots are answered before the boundaries behind them.
NewsFirst ==
  \A h \in handlers : h.kind = "new" =>
    \A b \in h.block .. delivered : IsBoundary(b) => Waits(b)

HandlersType ==
  \A h \in handlers : \E kind \in {"boundary", "new"}, b \in genesisBlock .. delivered :
    h = Handler(kind, b) /\ (kind = "new" => slotProgress(b) = 0)

PackInv ==
  /\ block \in Nat /\ delivered \in Nat /\ delivered <= block
  /\ HandlersType
  /\ mode \notin {"proposing", "closed"} => handlers = {} /\ packer.state # "RUNNING"
  /\ ~overtaken => /\ NewsFirst
                   /\ packer.state = "RUNNING" => \E start : RunsFrom(start)

\* Where the node's slots end, a boundary waits: so the packer that runs in a
\* slot of others has the event of one before it.
LEMMA RunsInOwnSlots ==
  ASSUME PackInv, ~overtaken, packer.state = "RUNNING", ~IsMine(Auction!currentSlot)
  PROVE  Behind
<1>1. PICK start : RunsFrom(start)
  BY DEF PackInv
<1>2. PICK s0, m, k : s0 = currentSlot(start) /\ m = currentSlot(block) /\ k = BLOCKS_PER_SLOT
  OBVIOUS
<1>3. /\ start \in Nat /\ start >= genesisBlock /\ start <= delivered /\ start <= block
      /\ block \in Nat /\ delivered \in Nat /\ delivered <= block
      /\ block >= genesisBlock
  BY <1>1, SlotNumbers DEF PackInv, RunsFrom
<1>4. s0 \in Nat /\ m \in Nat /\ s0 <= m /\ IsMine(s0) /\ ~IsMine(m)
  <2>1. Auction!currentSlot = m
    BY <1>2 DEF Auction!currentSlot, Auction!block2slot, Auction!SlotFromGenesis, currentSlot
  <2> QED
    BY <1>1, <1>2, <1>3, <2>1, SlotsGrow DEF RunsFrom
<1>5. PICK s \in Nat : s >= s0 /\ s < m /\ IsMine(s) /\ ~IsMine(s + 1)
  <2> SUFFICES ASSUME \A s \in Nat : s >= s0 /\ s < m /\ IsMine(s) => IsMine(s + 1)
               PROVE  FALSE
    OBVIOUS
  <2> DEFINE T == {d \in Nat : IsMine(s0 + d)}
  <2>1. 0 \in T
    BY <1>4
  <2>2. PICK n \in Nat : n = m - s0
    BY <1>4
  <2>3. ASSUME NEW d \in T \cap 0 .. n - 1 PROVE d + 1 \in T
    <3>1. /\ s0 + d \in Nat /\ s0 + d >= s0 /\ s0 + d < m /\ IsMine(s0 + d)
          /\ s0 + (d + 1) = (s0 + d) + 1
      BY <1>4, <2>2
    <3>2. IsMine((s0 + d) + 1)
      BY <3>1
    <3> QED
      BY <3>1, <3>2
  <2>4. n \in 0 .. n
    BY <2>2
  <2> HIDE DEF T
  <2>5. n \in T
    BY <2>1, <2>3, <2>4, NumbersUpTo
  <2>6. s0 + n = m
    BY <1>4, <2>2
  <2> QED
    BY <1>4, <2>5, <2>6 DEF T
<1>6. PICK b, p : p = k - 3 /\ b = genesisBlock + k * s + p
  OBVIOUS
<1>7. p \in Nat /\ p < k /\ k \in Nat /\ p = BLOCKS_PER_SLOT - 3
  BY <1>2, <1>6, NodeAssumption
<1>8. b \in Nat /\ currentSlot(b) = s /\ slotProgress(b) = p
  BY <1>2, <1>6, <1>7, BlockOfSlot
<1>9. start <= b /\ b <= block
  <2>1. /\ start = genesisBlock + k * s0 + 0
        /\ block = genesisBlock + k * m + slotProgress(block)
        /\ slotProgress(block) \in Nat
    BY <1>1, <1>2, <1>3, SlotOfBlock DEF RunsFrom
  <2>2. PICK x \in Nat, y \in Nat : s = s0 + x /\ m = s + 1 + y
    <3>1. s - s0 \in Nat /\ m - (s + 1) \in Nat
      BY <1>4, <1>5
    <3>2. s = s0 + (s - s0) /\ m = s + 1 + (m - (s + 1))
      BY <1>4, <1>5
    <3> QED
      BY <3>1, <3>2
  <2>3. PICK ks0 \in Nat, kx \in Nat, ks \in Nat, ky \in Nat, km \in Nat :
          ks0 = k * s0 /\ kx = k * x /\ ks = k * s /\ ky = k * y /\ km = k * m
    BY <1>4, <1>5, <1>7
  <2>4. ks = ks0 + kx
    BY <1>4, <1>7, <2>2, <2>3
  <2>5. km = ks + k + ky
    BY <1>5, <1>7, <2>2, <2>3
  <2>6. start = genesisBlock + ks0 /\ b = genesisBlock + ks + p
    BY <1>6, <2>1, <2>3, SlotNumbers
  <2>7. block = genesisBlock + km + slotProgress(block)
    BY <2>1, <2>3
  <2> QED
    BY <1>7, <2>1, <2>3, <2>4, <2>5, <2>6, <2>7, SlotNumbers
<1>10. CASE b \in delivered + 1 .. block
  BY <1>7, <1>8, <1>10 DEF Behind
<1>11. CASE b \notin delivered + 1 .. block
  <2>1. b \in start .. delivered
    BY <1>3, <1>8, <1>9, <1>11
  <2>2. IsBoundary(b) /\ EndsAt(b)
    BY <1>5, <1>7, <1>8 DEF IsBoundary, EndsAt
  <2>3. Handler("boundary", b) \in handlers
    BY <1>1, <2>1, <2>2 DEF RunsFrom, Waits
  <2>4. Handler("boundary", b).kind = "boundary"
    BY DEF Handler
  <2> QED
    BY <2>3, <2>4 DEF Behind
<1> QED
  BY <1>10, <1>11
\* Whose a slot is does not change once it is the current or the next one.
LEMMA BidSettles ==
  ASSUME PackInv, NEW sender, NEW amount, NEW value, Auction!bid(sender, amount, value),
         NEW b \in Nat, b <= block, NEW n \in {0, 1}
  PROVE  IsMine(currentSlot(b) + n)' <=> IsMine(currentSlot(b) + n)
<1>1. PICK open, s : open = Auction!auctionSlot /\ s = currentSlot(b) + n
  OBVIOUS
<1>2. block \in Nat
  BY DEF PackInv
<1>3. Auction!currentSlot = currentSlot(block)
  BY DEF Auction!currentSlot, Auction!block2slot, Auction!SlotFromGenesis, currentSlot
<1>4. open = currentSlot(block) + 2
  BY <1>1, <1>3 DEF Auction!auctionSlot
<1>5. /\ currentSlot(b) \in Nat /\ currentSlot(block) \in Nat
      /\ currentSlot(b) <= currentSlot(block)
  BY <1>2, SlotsGrow
<1>6. s # open
  BY <1>1, <1>4, <1>5
<1>7. auction' = [x \in DOMAIN auction \cup {open} |->
                    IF x = open THEN [coordinator |-> sender, amount |-> amount]
                                ELSE auction[x]]
  BY <1>1 DEF Auction!bid
<1>8. IsMine(s)' <=> IsMine(s)
  BY <1>6, <1>7 DEF IsMine
<1>9. IsMine(currentSlot(b) + n)' <=> IsMine(s)'
  BY <1>1 DEF IsMine, currentSlot
<1> QED
  BY <1>1, <1>8, <1>9

\* The slots of the blocks up to now keep their proposers.
Settled ==
  \A b \in Nat, n \in {0, 1} :
    b <= block => (IsMine(currentSlot(b) + n)' <=> IsMine(currentSlot(b) + n))

LEMMA UnbidSettles ==
  ASSUME UNCHANGED auction
  PROVE  Settled
BY DEF Settled, IsMine, currentSlot

\* A packer goes on running from where it was started, as long as the boundaries
\* at which it would stop wait.
LEMMA RunsOn ==
  ASSUME PackInv, Settled, NEW start, RunsFrom(start),
         delivered' \in Nat, delivered <= delivered',
         \A b \in start .. delivered' :
           IsBoundary(b) /\ EndsAt(b)' => Waits(b)'
  PROVE  RunsFrom(start)'
<1>1. start \in genesisBlock .. delivered' /\ slotProgress(start) = 0
  BY SlotNumbers DEF RunsFrom, PackInv
<1>2. IsMine(currentSlot(start))'
  <2>1. start \in Nat /\ start <= block
    BY SlotNumbers DEF RunsFrom, PackInv
  <2>2. IsMine(currentSlot(start) + 0)' <=> IsMine(currentSlot(start) + 0)
    BY <2>1 DEF Settled
  <2>3. currentSlot(start) \in Nat
    BY <2>1, SlotsGrow
  <2>4. currentSlot(start) + 0 = currentSlot(start)
    BY <2>3
  <2> QED
    BY <2>2, <2>4 DEF RunsFrom, IsMine
<1> QED
  BY <1>1, <1>2 DEF RunsFrom, IsBoundary, slotProgress

LEMMA EndSettled ==
  ASSUME Settled, NEW b \in Nat, b <= block
  PROVE  EndsAt(b)' <=> EndsAt(b)
<1>1. IsMine(currentSlot(b) + 1)' <=> IsMine(currentSlot(b) + 1)
  BY DEF Settled
<1>2. IsMine(currentSlot(b) + 0)' <=> IsMine(currentSlot(b) + 0)
  BY DEF Settled
<1>3. currentSlot(b) + 0 = currentSlot(b)
  BY SlotsGrow
<1>4. IsMine(currentSlot(b))' <=> IsMine(currentSlot(b))
  BY <1>2, <1>3 DEF IsMine, currentSlot
<1> QED
  BY <1>1, <1>4 DEF EndsAt

\* Steps that neither deliver nor answer, nor start the packer.
LEMMA QuietStep ==
  ASSUME PackInv, Settled, block' \in Nat, block <= block',
         UNCHANGED <<delivered, handlers, overtaken>>,
         mode' \notin {"proposing", "closed"} => mode \notin {"proposing", "closed"},
         packer'.state = "RUNNING" => packer.state = "RUNNING"
  PROVE  PackInv'
<1>1. block' \in Nat /\ delivered' \in Nat /\ delivered' <= block'
  BY DEF PackInv
<1>2. HandlersType'
  BY DEF PackInv, HandlersType
<1>3. (mode \notin {"proposing", "closed"} => handlers = {} /\ packer.state # "RUNNING")'
  BY DEF PackInv
<1>4. ASSUME ~overtaken' PROVE NewsFirst'
  BY <1>4 DEF PackInv, NewsFirst, Waits, IsBoundary, slotProgress
<1>5. ASSUME ~overtaken', packer'.state = "RUNNING" PROVE (\E start : RunsFrom(start))'
  <2>1. PICK start : RunsFrom(start)
    BY <1>5 DEF PackInv
  <2>2. ASSUME NEW b \in start .. delivered', IsBoundary(b), EndsAt(b)' PROVE Waits(b)'
    <3>1. b \in Nat /\ b <= block /\ b \in start .. delivered
      BY <2>1, <2>2, SlotNumbers DEF PackInv, RunsFrom
    <3>2. Waits(b)
      BY <2>1, <2>2, <3>1, EndSettled DEF RunsFrom
    <3> QED
      BY <3>2 DEF Waits
  <2>3. RunsFrom(start)'
    BY <1>1, <2>1, <2>2, RunsOn DEF PackInv
  <2> QED
    BY <2>3
<1> QED
  BY <1>1, <1>2, <1>3, <1>4, <1>5 DEF PackInv

LEMMA SyncedStep ==
  ASSUME PackInv, onSyncComplete
  PROVE  PackInv'
<1>1. handlers' = {} /\ packer'.state # "RUNNING" /\ delivered' = block /\ block' = block
  BY DEF PackInv, onSyncComplete, l1Vars
<1>2. HandlersType' /\ NewsFirst'
  BY <1>1 DEF HandlersType, NewsFirst
<1> QED
  BY <1>1, <1>2 DEF PackInv

\* What is called for the event of a block.
LEMMA HandledIs ==
  ASSUME NEW d \in Nat
  PROVE  /\ \A h \in Handled(d) : /\ d >= genesisBlock
                                  /\ \/ h = Handler("boundary", d)
                                     \/ h = Handler("new", d) /\ slotProgress(d) = 0
         /\ d >= genesisBlock /\ IsBoundary(d) => Handler("boundary", d) \in Handled(d)
         /\ slotProgress(d) = 0 => ~IsBoundary(d)
<1>1. PICK p, q : p = slotProgress(d) /\ q = BLOCKS_PER_SLOT - 3
  OBVIOUS
<1>2. q \in Nat /\ q # 0 /\ (d < genesisBlock \/ (d >= genesisBlock /\ ~(d < genesisBlock)))
  BY <1>1, SlotNumbers, NodeAssumption
<1>3. CASE d < genesisBlock
  <2>1. Handled(d) = {}
    BY <1>3 DEF Handled
  <2>2. ~(d >= genesisBlock)
    BY <1>3, SlotNumbers
  <2> QED
    BY <1>1, <1>2, <2>1, <2>2 DEF IsBoundary
<1>4. CASE d >= genesisBlock /\ ~(d < genesisBlock)
  <2>1. CASE p = q
    <3>1. slotProgress(d) = BLOCKS_PER_SLOT - 3 /\ slotProgress(d) # 0
      BY <1>1, <1>2, <2>1
    <3>2. Handled(d) = {Handler("boundary", d)}
      BY <1>4, <3>1 DEF Handled
    <3> QED
      BY <1>1, <1>2, <1>4, <2>1, <3>2 DEF IsBoundary
  <2>2. CASE p # q /\ p = 0
    <3>1. Handled(d) = {Handler("new", d)}
      BY <1>1, <1>4, <2>2 DEF Handled
    <3> QED
      BY <1>1, <1>2, <1>4, <2>2, <3>1 DEF IsBoundary
  <2>3. CASE p # q /\ p # 0
    <3>1. Handled(d) = {}
      BY <1>1, <1>4, <2>3 DEF Handled
    <3> QED
      BY <1>1, <1>2, <1>4, <2>3, <3>1 DEF IsBoundary
  <2> QED
    BY <2>1, <2>2, <2>3
<1> QED
  BY <1>2, <1>3, <1>4

LEMMA DeliverStep ==
  ASSUME PackInv, Deliver
  PROVE  PackInv'
<1>1. PICK d : d = delivered + 1
  OBVIOUS
<1>2. /\ d \in Nat /\ delivered' = d /\ d <= block /\ block' = block /\ delivered < d
      /\ handlers' = handlers \cup Handled(d)
      /\ UNCHANGED <<auction, mode, packer, overtaken>>
      /\ mode \in {"proposing", "closed"}
  BY <1>1 DEF PackInv, Deliver, l1Vars, history
<1>3. \A b : b <= delivered /\ Waits(b) => Waits(b)'
  BY <1>2 DEF Waits
<1>4. IsBoundary(d) /\ d >= genesisBlock => Waits(d)'
  BY <1>2, HandledIs DEF Waits
<1>5. HandlersType'
  <2> SUFFICES ASSUME NEW h \in handlers'
               PROVE  \E kind \in {"boundary", "new"}, b \in genesisBlock .. d :
                        h = Handler(kind, b) /\ (kind = "new" => slotProgress(b) = 0)
    BY <1>2 DEF HandlersType, slotProgress
  <2>1. CASE h \in handlers
    <3>1. PICK kind \in {"boundary", "new"}, b \in genesisBlock .. delivered :
            h = Handler(kind, b) /\ (kind = "new" => slotProgress(b) = 0)
      BY <2>1 DEF PackInv, HandlersType
    <3>2. b \in genesisBlock .. d
      BY <1>2, SlotNumbers DEF PackInv
    <3> QED
      BY <3>1, <3>2
  <2>2. CASE h \in Handled(d)
    <3>1. d \in genesisBlock .. d
      BY <1>2, <2>2, SlotNumbers, HandledIs
    <3> QED
      BY <1>2, <2>2, <3>1, HandledIs
  <2> QED
    BY <1>2, <2>1, <2>2
<1>6. ASSUME ~overtaken, NEW h \in handlers', h.kind = "new",
             NEW b \in h.block .. d, IsBoundary(b)
      PROVE  Waits(b)'
  <2>1. CASE h \in handlers
    <3>1. h.block \in genesisBlock .. delivered
      BY <2>1 DEF PackInv, HandlersType, Handler
    <3>2. b \in Nat /\ b >= genesisBlock /\ (b = d \/ b \in h.block .. delivered)
      BY <1>1, <1>2, <3>1, SlotNumbers DEF PackInv
    <3>3. ASSUME b \in h.block .. delivered PROVE Waits(b)'
      <4>1. Waits(b) /\ b <= delivered
        BY <1>6, <2>1, <3>1, <3>3, SlotNumbers DEF PackInv, NewsFirst
      <4> QED
        BY <1>3, <4>1
    <3> QED
      BY <1>4, <1>6, <3>2, <3>3
  <2>2. CASE h \in Handled(d)
    <3>1. h.block = d /\ slotProgress(d) = 0
      <4>1. h = Handler("boundary", d) \/ (h = Handler("new", d) /\ slotProgress(d) = 0)
        BY <1>2, <2>2, HandledIs
      <4>2. /\ Handler("boundary", d).kind = "boundary"
            /\ Handler("new", d).kind = "new" /\ Handler("new", d).block = d
        BY DEF Handler
      <4>3. h # Handler("boundary", d)
        BY <1>6, <4>2
      <4> QED
        BY <4>1, <4>2, <4>3
    <3>2. b = d
      BY <1>2, <3>1
    <3> QED
      BY <1>2, <1>6, <3>1, <3>2, HandledIs
  <2> QED
    BY <1>2, <2>1, <2>2
<1>7. ASSUME ~overtaken, packer.state = "RUNNING" PROVE (\E start : RunsFrom(start))'
  <2>1. PICK start : RunsFrom(start)
    BY <1>7 DEF PackInv
  <2>2. Settled
    BY <1>2, UnbidSettles
  <2>3. ASSUME NEW b \in start .. delivered', IsBoundary(b), EndsAt(b)' PROVE Waits(b)'
    <3>1. b \in Nat /\ b <= block /\ b >= genesisBlock /\ (b = d \/ b \in start .. delivered)
      BY <1>1, <1>2, <2>1, <2>3, SlotNumbers DEF PackInv, RunsFrom
    <3>2. ASSUME b \in start .. delivered PROVE Waits(b)'
      <4>1. EndsAt(b)
        BY <2>2, <2>3, <3>1, EndSettled
      <4>2. Waits(b) /\ b <= delivered
        BY <2>1, <2>3, <3>1, <3>2, <4>1, SlotNumbers DEF RunsFrom, PackInv
      <4> QED
        BY <1>3, <4>2
    <3> QED
      BY <1>4, <2>3, <3>1, <3>2
  <2>4. RunsFrom(start)'
    BY <1>2, <2>1, <2>2, <2>3, RunsOn DEF PackInv
  <2> QED
    BY <2>4
<1>8. ~overtaken' => NewsFirst'
  BY <1>2, <1>6 DEF NewsFirst, IsBoundary, slotProgress
<1>9. ~overtaken' /\ packer'.state = "RUNNING" => (\E start : RunsFrom(start))'
  BY <1>2, <1>7
<1> QED
  BY <1>2, <1>5, <1>8, <1>9 DEF PackInv

LEMMA HandlerFields ==
  ASSUME NEW kind, NEW b
  PROVE  Handler(kind, b).kind = kind /\ Handler(kind, b).block = b
BY DEF Handler

LEMMA HandlerOf ==
  ASSUME PackInv, NEW h \in handlers
  PROVE  /\ h.block \in genesisBlock .. delivered
         /\ \/ h = Handler("boundary", h.block) /\ h.kind = "boundary"
            \/ h = Handler("new", h.block) /\ h.kind = "new" /\ slotProgress(h.block) = 0
<1>1. PICK kind \in {"boundary", "new"}, b \in genesisBlock .. delivered :
        h = Handler(kind, b) /\ (kind = "new" => slotProgress(b) = 0)
  BY DEF PackInv, HandlersType
<1>2. h.kind = kind /\ h.block = b
  BY <1>1, HandlerFields
<1> QED
  BY <1>1, <1>2

\* The answer for a boundary stops the packer where the node's slots end.
LEMMA BoundaryStep ==
  ASSUME PackInv, LoopInv, NEW handler \in handlers, onSlotBoundary(handler), Answered(handler)
  PROVE  PackInv'
<1>1. /\ handlers' = handlers \ {handler} /\ handler.kind = "boundary"
      /\ UNCHANGED <<block, auction, delivered, mode>>
      /\ overtaken' = (overtaken \/ \E other \in handlers : Overtakes(handler, other))
  BY DEF onSlotBoundary, Answered, l1Vars
<1>2. PICK c : c = handler.block
  OBVIOUS
<1>3. c \in genesisBlock .. delivered /\ c \in Nat /\ handler = Handler("boundary", c)
  BY <1>1, <1>2, HandlerOf, SlotNumbers DEF PackInv
<1>4. \A b : Waits(b) /\ b # c => Waits(b)'
  <2> SUFFICES ASSUME NEW b, Waits(b), b # c PROVE Waits(b)'
    OBVIOUS
  <2>1. Handler("boundary", b) # handler
    BY <1>2, HandlerFields
  <2> QED
    BY <1>1, <2>1 DEF Waits
<1>5. HandlersType'
  BY <1>1 DEF PackInv, HandlersType, slotProgress
<1>6. mode \in {"proposing", "closed"}
  BY DEF PackInv
<1>7. ASSUME ~overtaken' PROVE NewsFirst'
  <2>1. ~overtaken
    BY <1>1, <1>7
  <2> SUFFICES ASSUME NEW h \in handlers', h.kind = "new",
                      NEW b \in h.block .. delivered, IsBoundary(b)
               PROVE  Waits(b)'
    BY <1>1 DEF NewsFirst, IsBoundary, slotProgress
  <2>2. h \in handlers /\ h.block \in genesisBlock .. delivered /\ slotProgress(h.block) = 0
    BY <1>1, HandlerOf
  <2>3. Waits(b)
    BY <2>1, <2>2 DEF PackInv, NewsFirst
  <2>4. ~ (h.block < c)
    BY <1>1, <1>2, <1>7, <2>2 DEF Overtakes
  <2>5. h.block \in Nat /\ ~IsBoundary(h.block)
    BY <2>2, SlotNumbers, HandledIs DEF PackInv
  <2>6. b # c
    <3> SUFFICES ASSUME b = c PROVE FALSE
      OBVIOUS
    <3>1. h.block = c
      BY <1>3, <2>2, <2>4, <2>5
    <3> QED
      BY <2>5, <3>1
  <2> QED
    BY <1>4, <2>3, <2>6
<1>8. ASSUME packer'.state = "RUNNING" PROVE packer' = packer /\ ~EndsAt(c)
  <2>1. packer' = IF checkAmIProposerNow(c) /\ ~checkAmIProposerNext(c)
                  THEN stopService(packer) ELSE packer
    BY <1>2 DEF onSlotBoundary
  <2>2. stopService(packer).state = "STOPPING"
    BY DEF LoopInv, Services, stopService
  <2>3. ~(checkAmIProposerNow(c) /\ ~checkAmIProposerNext(c)) /\ packer' = packer
    BY <1>8, <2>1, <2>2
  <2>4. currentSlot(c) \in Nat
    BY <1>3, SlotsGrow
  <2>5. NSlotFromNow(0, c) = currentSlot(c) /\ NSlotFromNow(1, c) = currentSlot(c) + 1
    BY <2>4 DEF NSlotFromNow
  <2> QED
    BY <2>3, <2>5 DEF checkAmIProposerNow, checkAmIProposerNext, EndsAt
<1>9. ASSUME ~overtaken', packer'.state = "RUNNING" PROVE (\E start : RunsFrom(start))'
  <2>1. ~overtaken /\ packer.state = "RUNNING" /\ ~EndsAt(c)
    BY <1>1, <1>8, <1>9
  <2>2. PICK start : RunsFrom(start)
    BY <2>1 DEF PackInv
  <2>3. Settled
    BY <1>1, UnbidSettles
  <2>4. ASSUME NEW b \in start .. delivered', IsBoundary(b), EndsAt(b)' PROVE Waits(b)'
    <3>1. b \in Nat /\ b <= block /\ b \in start .. delivered
      BY <1>1, <2>2, <2>4, SlotNumbers DEF PackInv, RunsFrom
    <3>2. EndsAt(b)
      BY <2>3, <2>4, <3>1, EndSettled
    <3>3. Waits(b) /\ b # c
      BY <2>1, <2>2, <2>4, <3>1, <3>2 DEF RunsFrom
    <3> QED
      BY <1>4, <3>3
  <2>5. delivered' \in Nat /\ delivered <= delivered'
    BY <1>1 DEF PackInv
  <2>6. RunsFrom(start)'
    BY <2>2, <2>3, <2>4, <2>5, RunsOn
  <2> QED
    BY <2>6
<1> QED
  BY <1>1, <1>5, <1>6, <1>7, <1>9 DEF PackInv

\* The answer for the start of a slot starts the packer in a slot of the node's.
LEMMA NewStep ==
  ASSUME PackInv, NEW handler \in handlers, onNewSlot(handler), Answered(handler)
  PROVE  PackInv'
<1>1. /\ handlers' = handlers \ {handler} /\ handler.kind = "new"
      /\ UNCHANGED <<block, auction, delivered, mode>>
      /\ ~overtaken' => ~overtaken
  BY DEF onNewSlot, Answered, l1Vars
<1>2. PICK c : c = handler.block
  OBVIOUS
<1>3. c \in genesisBlock .. delivered /\ c \in Nat /\ c <= block /\ slotProgress(c) = 0
  BY <1>1, <1>2, HandlerOf, SlotNumbers DEF PackInv
<1>4. \A b : Waits(b) => Waits(b)'
  <2> SUFFICES ASSUME NEW b, Waits(b) PROVE Waits(b)'
    OBVIOUS
  <2>1. Handler("boundary", b) # handler
    BY <1>1, HandlerFields
  <2> QED
    BY <1>1, <2>1 DEF Waits
<1>5. HandlersType'
  BY <1>1 DEF PackInv, HandlersType, slotProgress
<1>6. mode \in {"proposing", "closed"}
  BY DEF PackInv
<1>7. ASSUME ~overtaken PROVE NewsFirst'
  <2> SUFFICES ASSUME NEW h \in handlers', h.kind = "new",
                      NEW b \in h.block .. delivered, IsBoundary(b)
               PROVE  Waits(b)'
    BY <1>1 DEF NewsFirst, IsBoundary, slotProgress
  <2>1. Waits(b)
    BY <1>1, <1>7 DEF PackInv, NewsFirst
  <2> QED
    BY <1>4, <2>1
<1>8. Settled
  BY <1>1, UnbidSettles
<1>9. delivered' \in Nat /\ delivered <= delivered'
  BY <1>1 DEF PackInv
<1>10. ASSUME ~overtaken, packer.state = "RUNNING" PROVE (\E start : RunsFrom(start))'
  <2>1. PICK start : RunsFrom(start)
    BY <1>10 DEF PackInv
  <2>2. ASSUME NEW b \in start .. delivered', IsBoundary(b), EndsAt(b)' PROVE Waits(b)'
    <3>1. b \in Nat /\ b <= block /\ b \in start .. delivered
      BY <1>1, <2>1, <2>2, SlotNumbers DEF PackInv, RunsFrom
    <3>2. EndsAt(b)
      BY <1>8, <2>2, <3>1, EndSettled
    <3>3. Waits(b)
      BY <2>1, <2>2, <3>1, <3>2 DEF RunsFrom
    <3> QED
      BY <1>4, <3>3
  <2>3. RunsFrom(start)'
    BY <1>8, <1>9, <2>1, <2>2, RunsOn
  <2> QED
    BY <2>3
<1>11. ASSUME ~overtaken, packer.state # "RUNNING", packer'.state = "RUNNING"
       PROVE  (\E start : RunsFrom(start))'
  <2>1. packer' # packer
    BY <1>11
  <2>2. checkAmIProposerNow(c)
    BY <1>2, <2>1 DEF onNewSlot
  <2>3. currentSlot(c) \in Nat
    BY <1>3, SlotsGrow
  <2>4. IsMine(currentSlot(c))
    BY <2>2, <2>3 DEF checkAmIProposerNow, NSlotFromNow
  <2>5. \A b \in c .. delivered : IsBoundary(b) => Waits(b)
    BY <1>1, <1>2, <1>11 DEF PackInv, NewsFirst
  <2>6. RunsFrom(c)
    BY <1>3, <2>4, <2>5 DEF RunsFrom
  <2>7. ASSUME NEW b \in c .. delivered', IsBoundary(b), EndsAt(b)' PROVE Waits(b)'
    BY <1>1, <1>4, <2>5, <2>7
  <2>8. RunsFrom(c)'
    BY <1>8, <1>9, <2>6, <2>7, RunsOn
  <2> QED
    BY <2>8
<1>12. ~overtaken' => NewsFirst'
  BY <1>1, <1>7
<1>13. ~overtaken' /\ packer'.state = "RUNNING" => (\E start : RunsFrom(start))'
  BY <1>1, <1>10, <1>11
<1> QED
  BY <1>1, <1>5, <1>6, <1>12, <1>13 DEF PackInv

LEMMA PackKept ==
  ASSUME PackInv, LoopInv, [Next]_vars
  PROVE  PackInv'
<1>0. block \in Nat
  BY DEF PackInv
<1>1. CASE NewBlock
  BY <1>0, <1>1, UnbidSettles, QuietStep DEF NewBlock, Auction!NewBlock, history
<1>2. ASSUME NEW sender, NEW amount, NEW value, Auction!bid(sender, amount, value)
      PROVE  Settled /\ block' = block
  BY <1>2, BidSettles DEF Settled, Auction!bid
<1>3. ASSUME NEW amount \in RivalBids, RivalBid(amount) PROVE PackInv'
  BY <1>0, <1>2, <1>3, QuietStep DEF RivalBid, history
<1>4. ASSUME NEW config \in Configs, init(config) PROVE PackInv'
  <2>1. mode = "off" /\ UNCHANGED <<block, auction, delivered, handlers, packer, overtaken>>
    BY <1>4 DEF init, l1Vars, history
  <2> QED
    BY <1>0, <2>1, UnbidSettles, QuietStep
<1>5. CASE onSyncComplete
  BY <1>5, SyncedStep
<1>6. CASE close
  <2>1. /\ UNCHANGED <<block, auction, delivered, handlers, overtaken>>
        /\ mode = "proposing" /\ mode' = "closed" /\ packer' = stopService(packer)
    BY <1>6 DEF close, l1Vars, history
  <2>2. packer'.state = "STOPPING"
    BY <2>1 DEF LoopInv, Services, stopService
  <2>3. mode' \in {"proposing", "closed"} /\ block' \in Nat /\ block <= block'
    BY <1>0, <2>1
  <2>4. Settled
    BY <2>1, UnbidSettles
  <2> QED
    BY <2>1, <2>2, <2>3, <2>4, QuietStep
<1>7. CASE Deliver
  BY <1>7, DeliverStep
<1>8. ASSUME NEW call \in bidder.calls, getAuctioningSlotBid(call) PROVE PackInv'
  BY <1>0, <1>8, UnbidSettles, QuietStep DEF getAuctioningSlotBid, l1Vars
<1>9. ASSUME NEW call \in bidder.calls, Bids(call) PROVE PackInv'
  <2>1. UNCHANGED <<mode, delivered, handlers, packer, overtaken>>
    BY <1>9 DEF Bids
  <2>2. Settled /\ block' = block
    BY <1>2, <1>9, UnbidSettles DEF Bids, l1Vars
  <2> QED
    BY <1>0, <2>1, <2>2, QuietStep
<1>10. ASSUME NEW handler \in handlers, Answered(handler) PROVE PackInv'
  BY <1>10, BoundaryStep, NewStep DEF Answered
<1>11. CASE PackerSteps
  <2>1. UNCHANGED <<block, auction, mode, delivered, handlers, overtaken>>
    BY <1>11 DEF PackerSteps, l1Vars, history
  <2>2. packer'.state = "RUNNING" => packer.state = "RUNNING"
    BY <1>11 DEF PackerSteps, RunOver, RunFails, StopOver, LoopInv, Services
  <2> QED
    BY <1>0, <2>1, <2>2, UnbidSettles, QuietStep
<1>12. CASE UNCHANGED vars
  BY <1>0, <1>12, UnbidSettles, QuietStep DEF vars, l1Vars, history
<1> QED
  BY <1>1, <1>3, <1>4, <1>5, <1>6, <1>7, <1>8, <1>9, <1>10, <1>11, <1>12 DEF Next

\* A coordinator that packs in a slot of others has its batches refused; one
\* that is late does so only as long as it has not heard of, or not answered
\* for, the boundary at which it stops (node.ts:164).
THEOREM PacksWhereItMay == Spec => []PacksInOwnSlots
<1>1. Init => LoopInv /\ PackInv
  <2>1. Init => LoopInv
    BY DEF Init, LoopInv, NewService, Services
  <2>2. ASSUME Init PROVE PackInv
    <3>1. block = 0 /\ delivered = 0 /\ handlers = {} /\ packer.state = "STOPPED" /\ mode = "off"
      BY <2>2 DEF Init, Auction!AuctionInit, NewService
    <3> QED
      BY <3>1 DEF PackInv, HandlersType, NewsFirst
  <2> QED
    BY <2>1, <2>2
<1>2. LoopInv /\ PackInv /\ [Next]_vars => LoopInv' /\ PackInv'
  BY LoopKept, PackKept
<1>3. LoopInv /\ PackInv => PacksInOwnSlots
  BY RunsInOwnSlots DEF LoopInv, Services, PacksInOwnSlots
<1> QED
  BY <1>1, <1>2, <1>3, PTL DEF Spec

(***************************************************************************)
(* Powers of two.                                                          *)
(***************************************************************************)
\* What the definition of Pow2 says.
LEMMA PowersOfTwo ==
  /\ Pow2[0] = 1
  /\ \A n \in Nat : Pow2[n] \in Nat \ {0} /\ Pow2[n + 1] = 2 * Pow2[n]
<1>1. Pow2 = CHOOSE p : p = [n \in Nat |-> IF n = 0 THEN 1 ELSE 2 * p[n - 1]]
  BY DEF Pow2
<1> QED
  BY <1>1, PowersOf

\* A power of a sum of exponents is a product.
LEMMA PowerOfSum ==
  ASSUME NEW m \in Nat, NEW n \in Nat
  PROVE  Pow2[m + n] = Pow2[m] * Pow2[n]
<1> DEFINE T == {k \in Nat : Pow2[m + k] = Pow2[m] * Pow2[k]}
<1>1. 0 \in T
  BY PowersOfTwo
<1>2. \A k \in T \cap 0 .. n - 1 : k + 1 \in T
  <2> SUFFICES ASSUME NEW k \in Nat, Pow2[m + k] = Pow2[m] * Pow2[k]
               PROVE  Pow2[m + (k + 1)] = Pow2[m] * Pow2[k + 1]
    OBVIOUS
  <2>1. Pow2[(m + k) + 1] = 2 * Pow2[m + k] /\ Pow2[k + 1] = 2 * Pow2[k]
    BY PowersOfTwo
  <2>2. m + (k + 1) = (m + k) + 1
    OBVIOUS
  <2>3. Pow2[m] \in Nat /\ Pow2[k] \in Nat
    BY PowersOfTwo
  <2>4. \A a, b \in Nat : 2 * (a * b) = a * (2 * b)
    OBVIOUS
  <2> QED
    BY <2>1, <2>2, <2>3, <2>4
<1>3. 0 .. n \subseteq T
  <2> HIDE DEF T
  <2> QED
    BY <1>1, <1>2, NumbersUpTo
<1> QED
  BY <1>3

\* Powers grow with their exponents.
LEMMA PowersGrow ==
  ASSUME NEW m \in Nat, NEW n \in Nat, m <= n
  PROVE  Pow2[m] <= Pow2[n] /\ (m < n => 2 * Pow2[m] <= Pow2[n])
<1>1. PICK k \in Nat : n = m + k
  BY n - m \in Nat /\ n = m + (n - m)
<1>2. Pow2[n] = Pow2[m] * Pow2[k]
  BY <1>1, PowerOfSum
<1>3. \A a, b \in Nat \ {0} : a <= a * b
  <2> TAKE a, b \in Nat \ {0}
  <2>1. PICK c \in Nat : b = c + 1
    BY b - 1 \in Nat /\ b = (b - 1) + 1
  <2>2. a * b = a * c + a /\ a * c \in Nat
    BY <2>1
  <2> QED
    BY <2>2
<1>4. Pow2[m] \in Nat \ {0} /\ Pow2[k] \in Nat \ {0}
  BY PowersOfTwo
<1>5. m < n => 2 * Pow2[m] <= Pow2[n]
  <2> SUFFICES ASSUME m < n PROVE 2 * Pow2[m] <= Pow2[n]
    OBVIOUS
  <2>1. PICK j \in Nat : k = j + 1
    BY <1>1, k - 1 \in Nat /\ k = (k - 1) + 1
  <2>2. Pow2[n] = Pow2[m] * (2 * Pow2[j]) /\ Pow2[j] \in Nat \ {0}
    BY <1>2, <2>1, PowersOfTwo
  <2>3. \A a, b \in Nat : a * (2 * b) = 2 * (a * b)
    OBVIOUS
  <2>4. Pow2[m] <= Pow2[m] * Pow2[j] /\ Pow2[m] * Pow2[j] \in Nat
    BY <1>3, <1>4, <2>2
  <2> QED
    BY <1>4, <2>2, <2>3, <2>4
<1> QED
  BY <1>2, <1>3, <1>4, <1>5

\* Dividing by a power and by two is dividing by the next power.
LEMMA NextQuotient ==
  ASSUME NEW n \in Nat, NEW k \in Nat
  PROVE  /\ n \div Pow2[k] \in Nat
         /\ n \div Pow2[k + 1] = (n \div Pow2[k]) \div 2
<1> DEFINE p == Pow2[k]
           q == n \div p
           r == q \div 2
<1>1. p \in Nat \ {0} /\ Pow2[k + 1] = 2 * p
  BY PowersOfTwo
<1>2. q \in Nat /\ p * q <= n /\ n < p * q + p
  <2> HIDE DEF p
  <2> QED
    BY <1>1, Quotient
<1> HIDE DEF p, q
<1>3. r \in Nat /\ (q = 2 * r \/ q = 2 * r + 1)
  BY <1>2
<1>4. PICK s \in Nat : s = p * r
  BY <1>1, <1>3
<1> HIDE DEF r
<1>5. p * q = 2 * s \/ p * q = 2 * s + p
  BY <1>1, <1>3, <1>4
<1>6. (2 * p) * r = 2 * s
  BY <1>1, <1>3, <1>4
<1>7. (2 * p) * r <= n /\ n < (2 * p) * r + 2 * p
  <2>1. PICK u \in Int : u = p * q
    BY <1>1, <1>2
  <2>2. u <= n /\ n < u + p /\ (u = 2 * s \/ u = 2 * s + p)
    BY <1>2, <1>5, <2>1
  <2>3. 2 * s <= n /\ n < 2 * s + 2 * p
    BY <1>1, <2>1, <2>2
  <2> QED
    BY <1>6, <2>3, Zenon
<1>8. n \div (2 * p) = r
  <2>1. 2 * p \in Nat \ {0}
    BY <1>1
  <2> QED
    BY <1>3, <1>7, <2>1, QuotientIs
<1> QED
  BY <1>1, <1>2, <1>8 DEF p, q, r

\* The nodes of a level are those above the leaves.
LEMMA QuotientOfBelow ==
  ASSUME NEW i \in Nat, NEW k \in Nat, NEW j \in i * Pow2[k] .. i * Pow2[k] + Pow2[k] - 1
  PROVE  j \in Nat /\ j \div Pow2[k] = i
<1>1. Pow2[k] \in Nat \ {0}
  BY PowersOfTwo
<1>2. PICK p \in Nat \ {0} : p = Pow2[k]
  BY <1>1
<1>3. i * p \in Nat /\ i * p = p * i
  BY <1>2
<1>4. j \in Nat /\ p * i <= j /\ j < p * i + p
  BY <1>2, <1>3
<1> QED
  BY <1>2, <1>4, QuotientIs

\* A node above a leaf of a tree of depth m + k is one of its level.
LEMMA QuotientInLevel ==
  ASSUME NEW m \in Nat, NEW k \in Nat, NEW n \in 0 .. Pow2[m + k] - 1
  PROVE  n \div Pow2[k] \in 0 .. Pow2[m] - 1
<1>1. PICK p \in Nat \ {0} : p = Pow2[k]
  BY PowersOfTwo
<1>2. PICK b \in Nat \ {0} : b = Pow2[m]
  BY PowersOfTwo
<1>3. n \in Nat /\ n < p * b
  <2>1. Pow2[m + k] = b * p
    BY <1>1, <1>2, PowerOfSum
  <2>2. b * p = p * b /\ b * p \in Nat
    BY <1>1, <1>2
  <2> QED
    BY <2>1, <2>2
<1>4. PICK q \in Nat : q = n \div p /\ p * q <= n
  <2>1. n \in Nat
    BY <1>3
  <2>2. n \div p \in Nat /\ p * (n \div p) <= n
    BY <1>1, <2>1, Quotient
  <2> QED
    BY <2>2
<1>5. q < b
  <2> SUFFICES ASSUME b <= q PROVE FALSE
    BY <1>2, <1>4
  <2>1. PICK d \in Nat : q = b + d
    BY <1>2, <1>4, q - b \in Nat /\ q = b + (q - b)
  <2>2. p * q = p * b + p * d /\ p * d \in Nat /\ p * b \in Nat
    BY <1>1, <1>2, <2>1
  <2> QED
    BY <1>3, <1>4, <2>2
<1> QED
  BY <1>1, <1>2, <1>4, <1>5

(***************************************************************************)
(* The bit operators, on numbers they do not take for negative ones.       *)
(***************************************************************************)
Half == Pow2[BitWidth - 1]

\* Half of the numbers is an even number of them.
LEMMA HalfIs ==
  \E h \in Nat \ {0} : Half = 2 * h /\ Pow2[BitWidth] = 2 * Half
<1>1. BitWidth - 2 \in Nat /\ BitWidth - 1 = (BitWidth - 2) + 1 /\ BitWidth = (BitWidth - 1) + 1
  BY BitWidthAssumption
<1>2. Half = 2 * Pow2[BitWidth - 2] /\ Pow2[BitWidth - 2] \in Nat \ {0}
  BY <1>1, PowersOfTwo DEF Half
<1>3. Pow2[BitWidth] = 2 * Half
  <2>1. BitWidth - 1 \in Nat
    BY <1>1
  <2> QED
    BY <1>1, <2>1, PowersOfTwo DEF Half
<1> QED
  BY <1>2, <1>3

\* The operators are those of arithmetic.
LEMMA BitOperators ==
  ASSUME NEW n \in 0 .. Half - 1
  PROVE  /\ ToSigned(n) = n
         /\ IsOdd(n) <=> n % 2 = 1
         /\ LeftOf(n) = 2 * (n \div 2)
         /\ Sibling(n) = IF n % 2 = 1 THEN n - 1 ELSE n + 1
         /\ \A k \in Nat : ShiftRight(n, k) = n \div Pow2[k]
         /\ ShiftRight(n, 1) = n \div 2
<1>1. PICK h \in Nat \ {0} : Half = 2 * h /\ Pow2[BitWidth] = 2 * Half
  BY HalfIs
<1>2. n \in Nat /\ n < Half /\ n % (2 * Half) = n
  BY <1>1
<1>3. ToSigned(n) = n
  BY <1>1, <1>2 DEF ToSigned, Half
<1>4. Pow2[1] = 2
  BY PowersOfTwo, 0 + 1 = 1
<1>5. n = 2 * (n \div 2) + (n % 2)
  <2>1. \A m \in Nat : m = 2 * (m \div 2) + (m % 2)
    OBVIOUS
  <2> QED
    BY <1>2, <2>1
<1> QED
  BY <1>3, <1>4, <1>5 DEF IsOdd, LeftOf, Sibling, ShiftRight

\* A number of BitWidth bits that is not taken for a negative one is below Half.
LEMMA NotNegative ==
  ASSUME NEW n \in 0 .. Pow2[BitWidth] - 1, ToSigned(n) >= 0
  PROVE  n \in 0 .. Half - 1
<1>1. PICK h \in Nat \ {0} : Half = 2 * h /\ Pow2[BitWidth] = 2 * Half
  BY HalfIs
<1>2. n \in Nat /\ n < 2 * Half /\ n % (2 * Half) = n
  BY <1>1
<1> QED
  BY <1>1, <1>2 DEF ToSigned, Half

(***************************************************************************)
(* Merkle trees as functions from levels to nodes.                         *)
(***************************************************************************)
IsMerkle(N, depth) ==
  \A l \in 0 .. depth - 1 : \A i \in 0 .. Pow2[l] - 1 :
    N[l][i] = Hash2(N[l + 1][2 * i], N[l + 1][2 * i + 1])

\* The children of a node k + 1 levels below the i-th one are k + 2 below it.
LEMMA ChildrenBelow ==
  ASSUME NEW i \in Nat, NEW k \in Nat, NEW j \in i * Pow2[k] .. i * Pow2[k] + Pow2[k] - 1
  PROVE  2 * j \in i * Pow2[k + 1] .. i * Pow2[k + 1] + Pow2[k + 1] - 1 /\
         2 * j + 1 \in i * Pow2[k + 1] .. i * Pow2[k + 1] + Pow2[k + 1] - 1
<1>1. PICK p \in Nat \ {0} : p = Pow2[k] /\ Pow2[k + 1] = 2 * p
  BY PowersOfTwo
<1>2. PICK w \in Nat : w = i * p /\ i * (2 * p) = 2 * w
  <2>1. i * p \in Nat /\ i * (2 * p) = 2 * (i * p)
    BY <1>1
  <2> QED
    BY <2>1
<1>3. j \in w .. w + p - 1
  BY <1>1, <1>2
<1>4. j \in Nat /\ w <= j /\ j < w + p
  BY <1>1, <1>2, <1>3
<1>5. 2 * w <= 2 * j /\ 2 * j + 1 <= 2 * w + 2 * p - 1
  BY <1>1, <1>2, <1>4
<1> QED
  BY <1>1, <1>2, <1>4, <1>5

\* The parent of a node k + 1 levels below the i-th one is k below it.
LEMMA ParentBelow ==
  ASSUME NEW i \in Nat, NEW k \in Nat,
         NEW j \in i * Pow2[k + 1] .. i * Pow2[k + 1] + Pow2[k + 1] - 1
  PROVE  /\ j \in Nat
         /\ j \div 2 \in i * Pow2[k] .. i * Pow2[k] + Pow2[k] - 1
         /\ j = 2 * (j \div 2) \/ j = 2 * (j \div 2) + 1
<1>1. PICK p \in Nat \ {0} : p = Pow2[k] /\ Pow2[k + 1] = 2 * p
  BY PowersOfTwo
<1>2. PICK w \in Nat : w = i * p /\ i * (2 * p) = 2 * w
  <2>1. i * p \in Nat /\ i * (2 * p) = 2 * (i * p)
    BY <1>1
  <2> QED
    BY <2>1
<1>3. j \in 2 * w .. 2 * w + 2 * p - 1
  BY <1>1, <1>2
<1>4. j \in Nat /\ 2 * w <= j /\ j < 2 * w + 2 * p
  BY <1>1, <1>2, <1>3
<1>5. j \div 2 \in Nat /\ (j = 2 * (j \div 2) \/ j = 2 * (j \div 2) + 1)
  BY <1>4
<1>6. w <= j \div 2 /\ j \div 2 < w + p
  BY <1>1, <1>2, <1>4, <1>5
<1> QED
  BY <1>1, <1>2, <1>4, <1>5, <1>6

\* Nodes below the i-th one of a level are nodes of their level.
LEMMA BelowIsInLevel ==
  ASSUME NEW l \in Nat, NEW k \in Nat, NEW i \in 0 .. Pow2[l] - 1,
         NEW j \in i * Pow2[k] .. i * Pow2[k] + Pow2[k] - 1
  PROVE  j \in 0 .. Pow2[l + k] - 1
<1>1. PICK p \in Nat \ {0} : p = Pow2[k]
  BY PowersOfTwo
<1>2. PICK b \in Nat \ {0} : b = Pow2[l]
  BY PowersOfTwo
<1>3. Pow2[l + k] = b * p
  BY <1>1, <1>2, PowerOfSum
<1>4. PICK c \in Nat : b = i + 1 + c
  BY <1>2, b - i - 1 \in Nat /\ b = i + 1 + (b - i - 1)
<1>5. b * p = i * p + p + c * p /\ i * p \in Nat /\ c * p \in Nat
  <2>1. i \in Nat
    BY <1>2
  <2> QED
    BY <1>1, <1>4, <2>1
<1>6. PICK w \in Nat : w = i * p
  BY <1>5
<1>7. PICK v \in Nat : v = c * p
  BY <1>5
<1>8. j \in w .. w + p - 1 /\ Pow2[l + k] = w + p + v
  BY <1>1, <1>3, <1>5, <1>6, <1>7
<1> QED
  BY <1>1, <1>6, <1>7, <1>8

\* Trees with the same leaves below a node have the same node.
LEMMA NodesFromLeaves ==
  ASSUME NEW M, NEW N, NEW depth \in Nat, IsMerkle(M, depth), IsMerkle(N, depth),
         NEW l \in 0 .. depth, NEW i \in 0 .. Pow2[l] - 1,
         \A j \in i * Pow2[depth - l] .. i * Pow2[depth - l] + Pow2[depth - l] - 1 :
           M[depth][j] = N[depth][j]
  PROVE  M[l][i] = N[l][i]
<1> DEFINE Under(k) == i * Pow2[k] .. i * Pow2[k] + Pow2[k] - 1
           T == {n \in 0 .. depth - l : \A j \in Under(depth - l - n) :
                   M[depth - n][j] = N[depth - n][j]}
<1>0. l \in Nat /\ depth - l \in Nat /\ i \in Nat /\ Pow2[l] \in Nat
  BY PowersOfTwo
<1>1. 0 \in T
  BY <1>0
<1>2. \A n \in T \cap 0 .. (depth - l) - 1 : n + 1 \in T
  <2> SUFFICES ASSUME NEW n \in T, n \in 0 .. (depth - l) - 1 PROVE n + 1 \in T
    OBVIOUS
  <2> DEFINE k == depth - l - n - 1
  <2>1. k \in Nat /\ depth - l - n = k + 1 /\ depth - l - (n + 1) = k /\ l + k \in 0 .. depth - 1
        /\ depth - n = l + k + 1 /\ depth - (n + 1) = l + k
    BY <1>0
  <2> HIDE DEF k
  <2>2. \A j \in Under(k + 1) : M[l + k + 1][j] = N[l + k + 1][j]
    BY <2>1
  <2>3. ASSUME NEW j \in Under(k) PROVE M[l + k][j] = N[l + k][j]
    <3>1. 2 * j \in Under(k + 1) /\ 2 * j + 1 \in Under(k + 1)
      BY <1>0, <2>1, ChildrenBelow
    <3>2. j \in 0 .. Pow2[l + k] - 1
      BY <1>0, <2>1, BelowIsInLevel
    <3> HIDE DEF Under
    <3>3. M[l + k + 1][2 * j] = N[l + k + 1][2 * j] /\
          M[l + k + 1][2 * j + 1] = N[l + k + 1][2 * j + 1]
      BY <2>2, <3>1
    <3> QED
      BY <2>1, <3>2, <3>3 DEF IsMerkle
  <2> QED
    BY <2>1, <2>3
<1>3. 0 .. depth - l \subseteq T
  <2> HIDE DEF T
  <2> QED
    BY <1>0, <1>1, <1>2, NumbersUpTo
<1>4. depth - l \in T
  <2> HIDE DEF T
  <2> QED
    BY <1>0, <1>3
<1>5. i \in Under(0) /\ depth - l - (depth - l) = 0 /\ depth - (depth - l) = l
  BY <1>0, PowersOfTwo
<1> HIDE DEF Under
<1> QED
  BY <1>4, <1>5

\* A node tells the leaves below it: two hashes are the same of the same nodes.
LEMMA LeavesFromNodes ==
  ASSUME NEW M, NEW N, NEW depth \in Nat, IsMerkle(M, depth), IsMerkle(N, depth),
         NEW l \in 0 .. depth, NEW i \in 0 .. Pow2[l] - 1, M[l][i] = N[l][i],
         NEW j \in i * Pow2[depth - l] .. i * Pow2[depth - l] + Pow2[depth - l] - 1
  PROVE  M[depth][j] = N[depth][j]
<1> DEFINE Under(k) == i * Pow2[k] .. i * Pow2[k] + Pow2[k] - 1
           T == {n \in 0 .. depth - l : \A m \in Under(n) : M[l + n][m] = N[l + n][m]}
<1>0. l \in Nat /\ depth - l \in Nat /\ i \in Nat /\ Pow2[l] \in Nat
  BY PowersOfTwo
<1>1. 0 \in T
  BY <1>0, PowersOfTwo
<1>2. \A n \in T \cap 0 .. (depth - l) - 1 : n + 1 \in T
  <2> SUFFICES ASSUME NEW n \in T, n \in 0 .. (depth - l) - 1, NEW m \in Under(n + 1)
               PROVE  M[l + n + 1][m] = N[l + n + 1][m]
    BY <1>0
  <2>1. n \in Nat /\ l + n \in 0 .. depth - 1 /\ l + n + 1 = l + (n + 1)
    BY <1>0
  <2> DEFINE h == m \div 2
  <2>2. h \in Under(n) /\ (m = 2 * h \/ m = 2 * h + 1)
    BY <1>0, <2>1, ParentBelow
  <2> HIDE DEF h
  <2>3. h \in 0 .. Pow2[l + n] - 1
    BY <1>0, <2>1, <2>2, BelowIsInLevel
  <2>4. M[l + n][h] = N[l + n][h]
    BY <2>2
  <2>5. Hash2(M[l + n + 1][2 * h], M[l + n + 1][2 * h + 1]) =
        Hash2(N[l + n + 1][2 * h], N[l + n + 1][2 * h + 1])
    BY <2>1, <2>3, <2>4 DEF IsMerkle
  <2> QED
    BY <2>2, <2>5 DEF Hash2
<1>3. 0 .. depth - l \subseteq T
  <2> HIDE DEF T
  <2> QED
    BY <1>0, <1>1, <1>2, NumbersUpTo
<1>4. depth - l \in T
  <2> HIDE DEF T
  <2> QED
    BY <1>0, <1>3
<1>5. l + (depth - l) = depth
  BY <1>0
<1> QED
  BY <1>4, <1>5

\* The leaves of a tree, and the nodes of a level above those of the next one.
LeafNodes(depth, leaves) ==
  [i \in 0 .. Pow2[depth] - 1 |-> IF i \in DOMAIN leaves THEN leaves[i] ELSE ZeroLeaf]
NodesAbove(level, below) ==
  [i \in 0 .. Pow2[level] - 1 |-> Hash2(below[2 * i], below[2 * i + 1])]

\* The zeros are what their definition says.
LEMMA ZerosAre ==
  ASSUME NEW n \in Nat
  PROVE  \E f : /\ zeros(n) = f
               /\ \A i \in 0 .. n : f[i] = IF i = n THEN ZeroLeaf
                                             ELSE Hash2(f[i + 1], f[i + 1])
<1> DEFINE start == ZeroLeaf
           step(i, v) == Hash2(v, v)
           Is(g, k) == g = [i \in n - k .. n |-> IF i = n THEN start ELSE step(i, g[i + 1])]
           All(g) == g = [i \in 0 .. n |-> IF i = n THEN start ELSE step(i, g[i + 1])]
           T == {k \in 0 .. n : \E g : Is(g, k)}
<1>1. zeros(n) = (CHOOSE g : All(g))
  BY DEF zeros
<1> HIDE DEF start, step
<1>2. 0 \in T
  <2>1. Is([i \in n .. n |-> start], 0)
    OBVIOUS
  <2> HIDE DEF Is
  <2> QED
    BY <2>1
<1>3. \A k \in T \cap 0 .. n - 1 : k + 1 \in T
  <2> SUFFICES ASSUME NEW k \in 0 .. n - 1, \E g : Is(g, k) PROVE \E g : Is(g, k + 1)
    <3> HIDE DEF Is
    <3> QED
      OBVIOUS
  <2>1. PICK g : Is(g, k)
    OBVIOUS
  <2> DEFINE S == n - (k + 1) .. n
             h == [i \in S |-> IF i = n - (k + 1) THEN step(i, g[i + 1]) ELSE g[i]]
  <2>2. \A i \in n - k .. n : h[i] = g[i] /\ g[i] = IF i = n THEN start ELSE step(i, g[i + 1])
    BY <2>1
  <2>3. \A i \in S : i = n - (k + 1) \/ i \in n - k .. n
    OBVIOUS
  <2>4. \A i \in S : i # n => h[i + 1] = g[i + 1]
    BY <2>2
  <2>5. h[n - (k + 1)] = step(n - (k + 1), g[n - (k + 1) + 1]) /\ n - (k + 1) # n
    OBVIOUS
  <2>6. h = [i \in S |-> h[i]]
    OBVIOUS
  <2>7. \A i \in S : h[i] = IF i = n THEN start ELSE step(i, h[i + 1])
    <3> HIDE DEF h
    <3>1. TAKE i \in S
    <3>2. CASE i = n - (k + 1)
      BY <2>4, <2>5, <3>2
    <3>3. CASE i \in n - k .. n
      BY <2>2, <2>4, <3>3
    <3> QED
      BY <2>3, <3>2, <3>3
  <2>8. Is(h, k + 1)
    <3> HIDE DEF h
    <3> QED
      BY <2>6, <2>7
  <2> QED
    BY <2>8
<1>4. 0 .. n \subseteq T
  <2> HIDE DEF T
  <2> QED
    BY <1>2, <1>3, NumbersUpTo
<1>5. All(CHOOSE g : All(g))
  <2>1. \E g : Is(g, n)
    <3>1. n \in T
      <4> HIDE DEF T
      <4> QED
        BY <1>4
    <3> HIDE DEF Is
    <3> QED
      BY <3>1
  <2>2. n - n .. n = 0 .. n
    OBVIOUS
  <2>3. \E g : All(g)
    BY <2>1, <2>2
  <2> HIDE DEF All
  <2> QED
    BY <2>3
<1>6. \A i \in 0 .. n : (CHOOSE g : All(g))[i] =
        IF i = n THEN start ELSE step(i, (CHOOSE g : All(g))[i + 1])
  <2> DEFINE g == CHOOSE g : All(g)
  <2>1. All(g)
    BY <1>5
  <2> HIDE DEF g
  <2>2. \A i \in 0 .. n : g[i] = IF i = n THEN start ELSE step(i, g[i + 1])
    BY <2>1
  <2> QED
    BY <2>2 DEF g
<1>7. PICK f : f = CHOOSE g : All(g)
  OBVIOUS
<1> HIDE DEF All
<1>8. \A i \in 0 .. n : f[i] = IF i = n THEN ZeroLeaf ELSE Hash2(f[i + 1], f[i + 1])
  <2>1. \A i \in 0 .. n : f[i] = IF i = n THEN start ELSE step(i, f[i + 1])
    BY <1>6, <1>7
  <2>2. start = ZeroLeaf
    BY DEF start
  <2>3. \A i, v : step(i, v) = Hash2(v, v)
    BY DEF step
  <2> QED
    BY <2>1, <2>2, <2>3
<1>9. zeros(n) = f
  BY <1>1, <1>7
<1> QED
  BY <1>8, <1>9

\* The hashes above leaves are what their definition says.
LEMMA MerkleNodesAre ==
  ASSUME NEW n \in Nat, NEW leaves
  PROVE  \E f : /\ MerkleNodes(n, leaves) = f
               /\ \A i \in 0 .. n : f[i] = IF i = n THEN LeafNodes(n, leaves)
                                             ELSE NodesAbove(i, f[i + 1])
<1> DEFINE start == LeafNodes(n, leaves)
           step(i, v) == NodesAbove(i, v)
           Is(g, k) == g = [i \in n - k .. n |-> IF i = n THEN start ELSE step(i, g[i + 1])]
           All(g) == g = [i \in 0 .. n |-> IF i = n THEN start ELSE step(i, g[i + 1])]
           T == {k \in 0 .. n : \E g : Is(g, k)}
<1>1. MerkleNodes(n, leaves) = (CHOOSE g : All(g))
  BY DEF MerkleNodes, LeafNodes, NodesAbove
<1> HIDE DEF start, step
<1>2. 0 \in T
  <2>1. Is([i \in n .. n |-> start], 0)
    OBVIOUS
  <2> HIDE DEF Is
  <2> QED
    BY <2>1
<1>3. \A k \in T \cap 0 .. n - 1 : k + 1 \in T
  <2> SUFFICES ASSUME NEW k \in 0 .. n - 1, \E g : Is(g, k) PROVE \E g : Is(g, k + 1)
    <3> HIDE DEF Is
    <3> QED
      OBVIOUS
  <2>1. PICK g : Is(g, k)
    OBVIOUS
  <2> DEFINE S == n - (k + 1) .. n
             h == [i \in S |-> IF i = n - (k + 1) THEN step(i, g[i + 1]) ELSE g[i]]
  <2>2. \A i \in n - k .. n : h[i] = g[i] /\ g[i] = IF i = n THEN start ELSE step(i, g[i + 1])
    BY <2>1
  <2>3. \A i \in S : i = n - (k + 1) \/ i \in n - k .. n
    OBVIOUS
  <2>4. \A i \in S : i # n => h[i + 1] = g[i + 1]
    BY <2>2
  <2>5. h[n - (k + 1)] = step(n - (k + 1), g[n - (k + 1) + 1]) /\ n - (k + 1) # n
    OBVIOUS
  <2>6. h = [i \in S |-> h[i]]
    OBVIOUS
  <2>7. \A i \in S : h[i] = IF i = n THEN start ELSE step(i, h[i + 1])
    <3> HIDE DEF h
    <3>1. TAKE i \in S
    <3>2. CASE i = n - (k + 1)
      BY <2>4, <2>5, <3>2
    <3>3. CASE i \in n - k .. n
      BY <2>2, <2>4, <3>3
    <3> QED
      BY <2>3, <3>2, <3>3
  <2>8. Is(h, k + 1)
    <3> HIDE DEF h
    <3> QED
      BY <2>6, <2>7
  <2> QED
    BY <2>8
<1>4. 0 .. n \subseteq T
  <2> HIDE DEF T
  <2> QED
    BY <1>2, <1>3, NumbersUpTo
<1>5. All(CHOOSE g : All(g))
  <2>1. \E g : Is(g, n)
    <3>1. n \in T
      <4> HIDE DEF T
      <4> QED
        BY <1>4
    <3> HIDE DEF Is
    <3> QED
      BY <3>1
  <2>2. n - n .. n = 0 .. n
    OBVIOUS
  <2>3. \E g : All(g)
    BY <2>1, <2>2
  <2> HIDE DEF All
  <2> QED
    BY <2>3
<1>6. \A i \in 0 .. n : (CHOOSE g : All(g))[i] =
        IF i = n THEN start ELSE step(i, (CHOOSE g : All(g))[i + 1])
  <2> DEFINE g == CHOOSE g : All(g)
  <2>1. All(g)
    BY <1>5
  <2> HIDE DEF g
  <2>2. \A i \in 0 .. n : g[i] = IF i = n THEN start ELSE step(i, g[i + 1])
    BY <2>1
  <2> QED
    BY <2>2 DEF g
<1>7. PICK f : f = CHOOSE g : All(g)
  OBVIOUS
<1> HIDE DEF All
<1>8. \A i \in 0 .. n : f[i] = IF i = n THEN LeafNodes(n, leaves) ELSE NodesAbove(i, f[i + 1])
  <2>1. \A i \in 0 .. n : f[i] = IF i = n THEN start ELSE step(i, f[i + 1])
    BY <1>6, <1>7
  <2>2. start = LeafNodes(n, leaves)
    BY DEF start
  <2>3. \A i, v : step(i, v) = NodesAbove(i, v)
    BY DEF step
  <2> QED
    BY <2>1, <2>2, <2>3
<1>9. MerkleNodes(n, leaves) = f
  BY <1>1, <1>7
<1> QED
  BY <1>8, <1>9

\* The trees that updateCouples goes through.
CoupleByCouple(f, t, level, offset, n) ==
  \A i \in 0 .. n : f[i] = IF i = 0 THEN t ELSE updateCouple(f[i - 1], level, offset + 2 * (i - 1))
\* updateCouples goes from couple to couple.
LEMMA CouplesAre ==
  ASSUME NEW n \in Nat, NEW t, NEW level, NEW offset
  PROVE  \E f : updateCouples(t, level, offset, n) = f[n] /\ CoupleByCouple(f, t, level, offset, n)
<1> DEFINE start == t
           step(i, v) == updateCouple(v, level, offset + 2 * (i - 1))
           Is(g, k) == g = [i \in 0 .. k |-> IF i = 0 THEN start ELSE step(i, g[i - 1])]
           All(g) == g = [i \in 0 .. n |-> IF i = 0 THEN start ELSE step(i, g[i - 1])]
           T == {k \in 0 .. n : \E g : Is(g, k)}
<1>1. updateCouples(t, level, offset, n) = (CHOOSE g : All(g))[n]
  BY DEF updateCouples
<1> HIDE DEF start, step
<1>2. 0 \in T
  <2>1. Is([i \in 0 .. 0 |-> start], 0)
    OBVIOUS
  <2> HIDE DEF Is
  <2> QED
    BY <2>1
<1>3. \A k \in T \cap 0 .. n - 1 : k + 1 \in T
  <2> SUFFICES ASSUME NEW k \in 0 .. n - 1, \E g : Is(g, k) PROVE \E g : Is(g, k + 1)
    <3> HIDE DEF Is
    <3> QED
      OBVIOUS
  <2>1. PICK g : Is(g, k)
    OBVIOUS
  <2> DEFINE S == 0 .. k + 1
             h == [i \in S |-> IF i = k + 1 THEN step(i, g[i - 1]) ELSE g[i]]
  <2>2. \A i \in 0 .. k : h[i] = g[i] /\ g[i] = IF i = 0 THEN start ELSE step(i, g[i - 1])
    BY <2>1
  <2>3. \A i \in S : i = k + 1 \/ i \in 0 .. k
    OBVIOUS
  <2>4. \A i \in S : i # 0 => h[i - 1] = g[i - 1]
    BY <2>2
  <2>5. h[k + 1] = step(k + 1, g[k + 1 - 1]) /\ k + 1 # 0
    OBVIOUS
  <2>6. h = [i \in S |-> h[i]]
    OBVIOUS
  <2>7. \A i \in S : h[i] = IF i = 0 THEN start ELSE step(i, h[i - 1])
    <3> HIDE DEF h
    <3>1. TAKE i \in S
    <3>2. CASE i = k + 1
      BY <2>4, <2>5, <3>2
    <3>3. CASE i \in 0 .. k
      BY <2>2, <2>4, <3>3
    <3> QED
      BY <2>3, <3>2, <3>3
  <2>8. Is(h, k + 1)
    <3> HIDE DEF h
    <3> QED
      BY <2>6, <2>7
  <2> QED
    BY <2>8
<1>4. 0 .. n \subseteq T
  <2> HIDE DEF T
  <2> QED
    BY <1>2, <1>3, NumbersUpTo
<1>5. All(CHOOSE g : All(g))
  <2>1. \E g : Is(g, n)
    <3>1. n \in T
      <4> HIDE DEF T
      <4> QED
        BY <1>4
    <3> HIDE DEF Is
    <3> QED
      BY <3>1
  <2>2. 0 .. n = 0 .. n
    OBVIOUS
  <2>3. \E g : All(g)
    BY <2>1, <2>2
  <2> HIDE DEF All
  <2> QED
    BY <2>3
<1>6. \A i \in 0 .. n : (CHOOSE g : All(g))[i] =
        IF i = 0 THEN start ELSE step(i, (CHOOSE g : All(g))[i - 1])
  <2> DEFINE g == CHOOSE g : All(g)
  <2>1. All(g)
    BY <1>5
  <2> HIDE DEF g
  <2>2. \A i \in 0 .. n : g[i] = IF i = 0 THEN start ELSE step(i, g[i - 1])
    BY <2>1
  <2> QED
    BY <2>2 DEF g
<1>7. PICK f : f = CHOOSE g : All(g)
  OBVIOUS
<1> HIDE DEF All
<1>8. \A i \in 0 .. n : f[i] = IF i = 0 THEN t ELSE updateCouple(f[i - 1], level, offset + 2 * (i - 1))
  <2>1. \A i \in 0 .. n : f[i] = IF i = 0 THEN start ELSE step(i, f[i - 1])
    BY <1>6, <1>7
  <2>2. start = t
    BY DEF start
  <2>3. \A i, v : step(i, v) = updateCouple(v, level, offset + 2 * (i - 1))
    BY DEF step
  <2> QED
    BY <2>1, <2>2, <2>3
<1>9. updateCouples(t, level, offset, n) = f[n]
  BY <1>1, <1>7
<1> QED
  BY <1>8, <1>9 DEF CoupleByCouple

\* ascend goes from level to level.
LEMMA AscendIs ==
  ASSUME NEW t, NEW offset, NEW len, NEW n \in Nat, t.depth = n
  PROVE  \E f : /\ ascend(t, offset, len) = f[0].tree
               /\ \A i \in 0 .. n : f[i] = IF i = n THEN [tree |-> t, offset |-> offset, len |-> len]
                                             ELSE AscendLevel(f[i + 1], i + 1)
<1> DEFINE start == [tree |-> t, offset |-> offset, len |-> len]
           step(i, v) == AscendLevel(v, i + 1)
           Is(g, k) == g = [i \in n - k .. n |-> IF i = n THEN start ELSE step(i, g[i + 1])]
           All(g) == g = [i \in 0 .. n |-> IF i = n THEN start ELSE step(i, g[i + 1])]
           T == {k \in 0 .. n : \E g : Is(g, k)}
<1>1. ascend(t, offset, len) = (CHOOSE g : All(g))[0].tree
  BY DEF ascend
<1> HIDE DEF start, step
<1>2. 0 \in T
  <2>1. Is([i \in n .. n |-> start], 0)
    OBVIOUS
  <2> HIDE DEF Is
  <2> QED
    BY <2>1
<1>3. \A k \in T \cap 0 .. n - 1 : k + 1 \in T
  <2> SUFFICES ASSUME NEW k \in 0 .. n - 1, \E g : Is(g, k) PROVE \E g : Is(g, k + 1)
    <3> HIDE DEF Is
    <3> QED
      OBVIOUS
  <2>1. PICK g : Is(g, k)
    OBVIOUS
  <2> DEFINE S == n - (k + 1) .. n
             h == [i \in S |-> IF i = n - (k + 1) THEN step(i, g[i + 1]) ELSE g[i]]
  <2>2. \A i \in n - k .. n : h[i] = g[i] /\ g[i] = IF i = n THEN start ELSE step(i, g[i + 1])
    BY <2>1
  <2>3. \A i \in S : i = n - (k + 1) \/ i \in n - k .. n
    OBVIOUS
  <2>4. \A i \in S : i # n => h[i + 1] = g[i + 1]
    BY <2>2
  <2>5. h[n - (k + 1)] = step(n - (k + 1), g[n - (k + 1) + 1]) /\ n - (k + 1) # n
    OBVIOUS
  <2>6. h = [i \in S |-> h[i]]
    OBVIOUS
  <2>7. \A i \in S : h[i] = IF i = n THEN start ELSE step(i, h[i + 1])
    <3> HIDE DEF h
    <3>1. TAKE i \in S
    <3>2. CASE i = n - (k + 1)
      BY <2>4, <2>5, <3>2
    <3>3. CASE i \in n - k .. n
      BY <2>2, <2>4, <3>3
    <3> QED
      BY <2>3, <3>2, <3>3
  <2>8. Is(h, k + 1)
    <3> HIDE DEF h
    <3> QED
      BY <2>6, <2>7
  <2> QED
    BY <2>8
<1>4. 0 .. n \subseteq T
  <2> HIDE DEF T
  <2> QED
    BY <1>2, <1>3, NumbersUpTo
<1>5. All(CHOOSE g : All(g))
  <2>1. \E g : Is(g, n)
    <3>1. n \in T
      <4> HIDE DEF T
      <4> QED
        BY <1>4
    <3> HIDE DEF Is
    <3> QED
      BY <3>1
  <2>2. n - n .. n = 0 .. n
    OBVIOUS
  <2>3. \E g : All(g)
    BY <2>1, <2>2
  <2> HIDE DEF All
  <2> QED
    BY <2>3
<1>6. \A i \in 0 .. n : (CHOOSE g : All(g))[i] =
        IF i = n THEN start ELSE step(i, (CHOOSE g : All(g))[i + 1])
  <2> DEFINE g == CHOOSE g : All(g)
  <2>1. All(g)
    BY <1>5
  <2> HIDE DEF g
  <2>2. \A i \in 0 .. n : g[i] = IF i = n THEN start ELSE step(i, g[i + 1])
    BY <2>1
  <2> QED
    BY <2>2 DEF g
<1>7. PICK f : f = CHOOSE g : All(g)
  OBVIOUS
<1> HIDE DEF All
<1>8. \A i \in 0 .. n : f[i] = IF i = n THEN [tree |-> t, offset |-> offset, len |-> len] ELSE AscendLevel(f[i + 1], i + 1)
  <2>1. \A i \in 0 .. n : f[i] = IF i = n THEN start ELSE step(i, f[i + 1])
    BY <1>6, <1>7
  <2>2. start = [tree |-> t, offset |-> offset, len |-> len]
    BY DEF start
  <2>3. \A i, v : step(i, v) = AscendLevel(v, i + 1)
    BY DEF step
  <2> QED
    BY <2>1, <2>2, <2>3
<1>9. ascend(t, offset, len) = f[0].tree
  BY <1>1, <1>7
<1> QED
  BY <1>8, <1>9

\* What a witness is made of, from the indices of its path.
WitnessAlong(t, index, follow, n) ==
  LET siblings == [i \in 1 .. n |-> Sibling(follow[i - 1])]
  IN  [path |-> [i \in 1 .. n |-> IsOdd(siblings[i])],
       nodes |-> [i \in 1 .. n |-> getNode(t, n - i + 1, siblings[i])],
       leaf |-> getNode(t, n, index), depth |-> n]

\* A witness follows an index up to the root.
LEMMA WitnessIs ==
  ASSUME NEW n \in Nat, NEW t, NEW index
  PROVE  \E f : /\ witness(t, index, n) = WitnessAlong(t, index, f, n)
               /\ \A i \in 0 .. n : f[i] = IF i = 0 THEN index
                                             ELSE ShiftRight(Sibling(f[i - 1]), 1)
<1> DEFINE start == index
           step(i, v) == ShiftRight(Sibling(v), 1)
           Is(g, k) == g = [i \in 0 .. k |-> IF i = 0 THEN start ELSE step(i, g[i - 1])]
           All(g) == g = [i \in 0 .. n |-> IF i = 0 THEN start ELSE step(i, g[i - 1])]
           T == {k \in 0 .. n : \E g : Is(g, k)}
<1>1. witness(t, index, n) = WitnessAlong(t, index, (CHOOSE g : All(g)), n)
  BY DEF witness, WitnessAlong
<1> HIDE DEF start, step
<1>2. 0 \in T
  <2>1. Is([i \in 0 .. 0 |-> start], 0)
    OBVIOUS
  <2> HIDE DEF Is
  <2> QED
    BY <2>1
<1>3. \A k \in T \cap 0 .. n - 1 : k + 1 \in T
  <2> SUFFICES ASSUME NEW k \in 0 .. n - 1, \E g : Is(g, k) PROVE \E g : Is(g, k + 1)
    <3> HIDE DEF Is
    <3> QED
      OBVIOUS
  <2>1. PICK g : Is(g, k)
    OBVIOUS
  <2> DEFINE S == 0 .. k + 1
             h == [i \in S |-> IF i = k + 1 THEN step(i, g[i - 1]) ELSE g[i]]
  <2>2. \A i \in 0 .. k : h[i] = g[i] /\ g[i] = IF i = 0 THEN start ELSE step(i, g[i - 1])
    BY <2>1
  <2>3. \A i \in S : i = k + 1 \/ i \in 0 .. k
    OBVIOUS
  <2>4. \A i \in S : i # 0 => h[i - 1] = g[i - 1]
    BY <2>2
  <2>5. h[k + 1] = step(k + 1, g[k + 1 - 1]) /\ k + 1 # 0
    OBVIOUS
  <2>6. h = [i \in S |-> h[i]]
    OBVIOUS
  <2>7. \A i \in S : h[i] = IF i = 0 THEN start ELSE step(i, h[i - 1])
    <3> HIDE DEF h
    <3>1. TAKE i \in S
    <3>2. CASE i = k + 1
      BY <2>4, <2>5, <3>2
    <3>3. CASE i \in 0 .. k
      BY <2>2, <2>4, <3>3
    <3> QED
      BY <2>3, <3>2, <3>3
  <2>8. Is(h, k + 1)
    <3> HIDE DEF h
    <3> QED
      BY <2>6, <2>7
  <2> QED
    BY <2>8
<1>4. 0 .. n \subseteq T
  <2> HIDE DEF T
  <2> QED
    BY <1>2, <1>3, NumbersUpTo
<1>5. All(CHOOSE g : All(g))
  <2>1. \E g : Is(g, n)
    <3>1. n \in T
      <4> HIDE DEF T
      <4> QED
        BY <1>4
    <3> HIDE DEF Is
    <3> QED
      BY <3>1
  <2>2. 0 .. n = 0 .. n
    OBVIOUS
  <2>3. \E g : All(g)
    BY <2>1, <2>2
  <2> HIDE DEF All
  <2> QED
    BY <2>3
<1>6. \A i \in 0 .. n : (CHOOSE g : All(g))[i] =
        IF i = 0 THEN start ELSE step(i, (CHOOSE g : All(g))[i - 1])
  <2> DEFINE g == CHOOSE g : All(g)
  <2>1. All(g)
    BY <1>5
  <2> HIDE DEF g
  <2>2. \A i \in 0 .. n : g[i] = IF i = 0 THEN start ELSE step(i, g[i - 1])
    BY <2>1
  <2> QED
    BY <2>2 DEF g
<1>7. PICK f : f = CHOOSE g : All(g)
  OBVIOUS
<1> HIDE DEF All
<1>8. \A i \in 0 .. n : f[i] = IF i = 0 THEN index ELSE ShiftRight(Sibling(f[i - 1]), 1)
  <2>1. \A i \in 0 .. n : f[i] = IF i = 0 THEN start ELSE step(i, f[i - 1])
    BY <1>6, <1>7
  <2>2. start = index
    BY DEF start
  <2>3. \A i, v : step(i, v) = ShiftRight(Sibling(v), 1)
    BY DEF step
  <2> QED
    BY <2>1, <2>2, <2>3
<1>9. witness(t, index, n) = WitnessAlong(t, index, f, n)
  BY <1>1, <1>7
<1> QED
  BY <1>8, <1>9

\* checkInclusion hashes a witness from its leaf up.
LEMMA InclusionIs ==
  ASSUME NEW t, NEW w, NEW n \in Nat, w.depth = n
  PROVE  \E f : /\ checkInclusion(t, w) = (f[n] = treeRoot(t))
               /\ \A i \in 0 .. n : f[i] = IF i = 0 THEN w.leaf
                                             ELSE (IF w.path[i] THEN Hash2(f[i - 1], w.nodes[i]) ELSE Hash2(w.nodes[i], f[i - 1]))
<1> DEFINE start == w.leaf
           step(i, v) == (IF w.path[i] THEN Hash2(v, w.nodes[i]) ELSE Hash2(w.nodes[i], v))
           Is(g, k) == g = [i \in 0 .. k |-> IF i = 0 THEN start ELSE step(i, g[i - 1])]
           All(g) == g = [i \in 0 .. n |-> IF i = 0 THEN start ELSE step(i, g[i - 1])]
           T == {k \in 0 .. n : \E g : Is(g, k)}
<1>1. checkInclusion(t, w) = ((CHOOSE g : All(g))[n] = treeRoot(t))
  BY DEF checkInclusion
<1> HIDE DEF start, step
<1>2. 0 \in T
  <2>1. Is([i \in 0 .. 0 |-> start], 0)
    OBVIOUS
  <2> HIDE DEF Is
  <2> QED
    BY <2>1
<1>3. \A k \in T \cap 0 .. n - 1 : k + 1 \in T
  <2> SUFFICES ASSUME NEW k \in 0 .. n - 1, \E g : Is(g, k) PROVE \E g : Is(g, k + 1)
    <3> HIDE DEF Is
    <3> QED
      OBVIOUS
  <2>1. PICK g : Is(g, k)
    OBVIOUS
  <2> DEFINE S == 0 .. k + 1
             h == [i \in S |-> IF i = k + 1 THEN step(i, g[i - 1]) ELSE g[i]]
  <2>2. \A i \in 0 .. k : h[i] = g[i] /\ g[i] = IF i = 0 THEN start ELSE step(i, g[i - 1])
    BY <2>1
  <2>3. \A i \in S : i = k + 1 \/ i \in 0 .. k
    OBVIOUS
  <2>4. \A i \in S : i # 0 => h[i - 1] = g[i - 1]
    BY <2>2
  <2>5. h[k + 1] = step(k + 1, g[k + 1 - 1]) /\ k + 1 # 0
    OBVIOUS
  <2>6. h = [i \in S |-> h[i]]
    OBVIOUS
  <2>7. \A i \in S : h[i] = IF i = 0 THEN start ELSE step(i, h[i - 1])
    <3> HIDE DEF h
    <3>1. TAKE i \in S
    <3>2. CASE i = k + 1
      BY <2>4, <2>5, <3>2
    <3>3. CASE i \in 0 .. k
      BY <2>2, <2>4, <3>3
    <3> QED
      BY <2>3, <3>2, <3>3
  <2>8. Is(h, k + 1)
    <3> HIDE DEF h
    <3> QED
      BY <2>6, <2>7
  <2> QED
    BY <2>8
<1>4. 0 .. n \subseteq T
  <2> HIDE DEF T
  <2> QED
    BY <1>2, <1>3, NumbersUpTo
<1>5. All(CHOOSE g : All(g))
  <2>1. \E g : Is(g, n)
    <3>1. n \in T
      <4> HIDE DEF T
      <4> QED
        BY <1>4
    <3> HIDE DEF Is
    <3> QED
      BY <3>1
  <2>2. 0 .. n = 0 .. n
    OBVIOUS
  <2>3. \E g : All(g)
    BY <2>1, <2>2
  <2> HIDE DEF All
  <2> QED
    BY <2>3
<1>6. \A i \in 0 .. n : (CHOOSE g : All(g))[i] =
        IF i = 0 THEN start ELSE step(i, (CHOOSE g : All(g))[i - 1])
  <2> DEFINE g == CHOOSE g : All(g)
  <2>1. All(g)
    BY <1>5
  <2> HIDE DEF g
  <2>2. \A i \in 0 .. n : g[i] = IF i = 0 THEN start ELSE step(i, g[i - 1])
    BY <2>1
  <2> QED
    BY <2>2 DEF g
<1>7. PICK f : f = CHOOSE g : All(g)
  OBVIOUS
<1> HIDE DEF All
<1>8. \A i \in 0 .. n : f[i] = IF i = 0 THEN w.leaf ELSE (IF w.path[i] THEN Hash2(f[i - 1], w.nodes[i]) ELSE Hash2(w.nodes[i], f[i - 1]))
  <2>1. \A i \in 0 .. n : f[i] = IF i = 0 THEN start ELSE step(i, f[i - 1])
    BY <1>6, <1>7
  <2>2. start = w.leaf
    BY DEF start
  <2>3. \A i, v : step(i, v) = (IF w.path[i] THEN Hash2(v, w.nodes[i]) ELSE Hash2(w.nodes[i], v))
    BY DEF step
  <2> QED
    BY <2>1, <2>2, <2>3
<1>9. checkInclusion(t, w) = (f[n] = treeRoot(t))
  BY <1>1, <1>7
<1> QED
  BY <1>8, <1>9

\* The hashes that computeRoot goes through.
NodeByNode(f, leaf, index, nodes, n) ==
  \A i \in 0 .. n : f[i] = IF i = 0 THEN leaf
                          ELSE (IF IsOdd(ShiftRight(index, i - 1)) THEN Hash2(nodes[i], f[i - 1])
                                ELSE Hash2(f[i - 1], nodes[i]))
\* computeRoot hashes a witness from its leaf up.
LEMMA ComputeRootIs ==
  ASSUME NEW leaf, NEW index, NEW nodes, NEW n \in Nat, Len(nodes) = n
  PROVE  \E f : computeRoot(leaf, index, nodes) = f[n] /\ NodeByNode(f, leaf, index, nodes, n)
<1> DEFINE start == leaf
           step(i, v) == (IF IsOdd(ShiftRight(index, i - 1)) THEN Hash2(nodes[i], v) ELSE Hash2(v, nodes[i]))
           Is(g, k) == g = [i \in 0 .. k |-> IF i = 0 THEN start ELSE step(i, g[i - 1])]
           All(g) == g = [i \in 0 .. n |-> IF i = 0 THEN start ELSE step(i, g[i - 1])]
           T == {k \in 0 .. n : \E g : Is(g, k)}
<1>1. computeRoot(leaf, index, nodes) = (CHOOSE g : All(g))[n]
  BY DEF computeRoot
<1> HIDE DEF start, step
<1>2. 0 \in T
  <2>1. Is([i \in 0 .. 0 |-> start], 0)
    OBVIOUS
  <2> HIDE DEF Is
  <2> QED
    BY <2>1
<1>3. \A k \in T \cap 0 .. n - 1 : k + 1 \in T
  <2> SUFFICES ASSUME NEW k \in 0 .. n - 1, \E g : Is(g, k) PROVE \E g : Is(g, k + 1)
    <3> HIDE DEF Is
    <3> QED
      OBVIOUS
  <2>1. PICK g : Is(g, k)
    OBVIOUS
  <2> DEFINE S == 0 .. k + 1
             h == [i \in S |-> IF i = k + 1 THEN step(i, g[i - 1]) ELSE g[i]]
  <2>2. \A i \in 0 .. k : h[i] = g[i] /\ g[i] = IF i = 0 THEN start ELSE step(i, g[i - 1])
    BY <2>1
  <2>3. \A i \in S : i = k + 1 \/ i \in 0 .. k
    OBVIOUS
  <2>4. \A i \in S : i # 0 => h[i - 1] = g[i - 1]
    BY <2>2
  <2>5. h[k + 1] = step(k + 1, g[k + 1 - 1]) /\ k + 1 # 0
    OBVIOUS
  <2>6. h = [i \in S |-> h[i]]
    OBVIOUS
  <2>7. \A i \in S : h[i] = IF i = 0 THEN start ELSE step(i, h[i - 1])
    <3> HIDE DEF h
    <3>1. TAKE i \in S
    <3>2. CASE i = k + 1
      BY <2>4, <2>5, <3>2
    <3>3. CASE i \in 0 .. k
      BY <2>2, <2>4, <3>3
    <3> QED
      BY <2>3, <3>2, <3>3
  <2>8. Is(h, k + 1)
    <3> HIDE DEF h
    <3> QED
      BY <2>6, <2>7
  <2> QED
    BY <2>8
<1>4. 0 .. n \subseteq T
  <2> HIDE DEF T
  <2> QED
    BY <1>2, <1>3, NumbersUpTo
<1>5. All(CHOOSE g : All(g))
  <2>1. \E g : Is(g, n)
    <3>1. n \in T
      <4> HIDE DEF T
      <4> QED
        BY <1>4
    <3> HIDE DEF Is
    <3> QED
      BY <3>1
  <2>2. 0 .. n = 0 .. n
    OBVIOUS
  <2>3. \E g : All(g)
    BY <2>1, <2>2
  <2> HIDE DEF All
  <2> QED
    BY <2>3
<1>6. \A i \in 0 .. n : (CHOOSE g : All(g))[i] =
        IF i = 0 THEN start ELSE step(i, (CHOOSE g : All(g))[i - 1])
  <2> DEFINE g == CHOOSE g : All(g)
  <2>1. All(g)
    BY <1>5
  <2> HIDE DEF g
  <2>2. \A i \in 0 .. n : g[i] = IF i = 0 THEN start ELSE step(i, g[i - 1])
    BY <2>1
  <2> QED
    BY <2>2 DEF g
<1>7. PICK f : f = CHOOSE g : All(g)
  OBVIOUS
<1> HIDE DEF All
<1>8. \A i \in 0 .. n : f[i] = IF i = 0 THEN leaf ELSE (IF IsOdd(ShiftRight(index, i - 1)) THEN Hash2(nodes[i], f[i - 1]) ELSE Hash2(f[i - 1], nodes[i]))
  <2>1. \A i \in 0 .. n : f[i] = IF i = 0 THEN start ELSE step(i, f[i - 1])
    BY <1>6, <1>7
  <2>2. start = leaf
    BY DEF start
  <2>3. \A i, v : step(i, v) = (IF IsOdd(ShiftRight(index, i - 1)) THEN Hash2(nodes[i], v) ELSE Hash2(v, nodes[i]))
    BY DEF step
  <2> QED
    BY <2>1, <2>2, <2>3
<1>9. computeRoot(leaf, index, nodes) = f[n]
  BY <1>1, <1>7
<1> QED
  BY <1>8, <1>9 DEF NodeByNode

\* One level of Appended.
AppendedAbove(path, height, i, u) ==
  IF (path \div Pow2[i - 1]) % 2 = 1
  THEN [u EXCEPT !.node = Hash2(u.subtrees[i - 1], u.node)]
  ELSE [node |-> Hash2(u.node, zeroAt(i - 1 + height)), set |-> TRUE,
        subtrees |-> IF u.set THEN u.subtrees ELSE [u.subtrees EXCEPT ![i - 1] = u.node]]

\* Appended goes from level to level.
LEMMA AppendedIs ==
  ASSUME NEW subtrees, NEW path, NEW node, NEW height, NEW n \in Nat, TreeDepth - height = n
  PROVE  \E f : /\ Appended(subtrees, path, node, height) = f[n]
               /\ \A i \in 0 .. n : f[i] = IF i = 0 THEN [node |-> node, subtrees |-> subtrees, set |-> FALSE]
                                             ELSE AppendedAbove(path, height, i, f[i - 1])
<1> DEFINE start == [node |-> node, subtrees |-> subtrees, set |-> FALSE]
           step(i, v) == AppendedAbove(path, height, i, v)
           Is(g, k) == g = [i \in 0 .. k |-> IF i = 0 THEN start ELSE step(i, g[i - 1])]
           All(g) == g = [i \in 0 .. n |-> IF i = 0 THEN start ELSE step(i, g[i - 1])]
           T == {k \in 0 .. n : \E g : Is(g, k)}
<1>1. Appended(subtrees, path, node, height) = (CHOOSE g : All(g))[n]
  BY DEF Appended, AppendedAbove
<1> HIDE DEF start, step
<1>2. 0 \in T
  <2>1. Is([i \in 0 .. 0 |-> start], 0)
    OBVIOUS
  <2> HIDE DEF Is
  <2> QED
    BY <2>1
<1>3. \A k \in T \cap 0 .. n - 1 : k + 1 \in T
  <2> SUFFICES ASSUME NEW k \in 0 .. n - 1, \E g : Is(g, k) PROVE \E g : Is(g, k + 1)
    <3> HIDE DEF Is
    <3> QED
      OBVIOUS
  <2>1. PICK g : Is(g, k)
    OBVIOUS
  <2> DEFINE S == 0 .. k + 1
             h == [i \in S |-> IF i = k + 1 THEN step(i, g[i - 1]) ELSE g[i]]
  <2>2. \A i \in 0 .. k : h[i] = g[i] /\ g[i] = IF i = 0 THEN start ELSE step(i, g[i - 1])
    BY <2>1
  <2>3. \A i \in S : i = k + 1 \/ i \in 0 .. k
    OBVIOUS
  <2>4. \A i \in S : i # 0 => h[i - 1] = g[i - 1]
    BY <2>2
  <2>5. h[k + 1] = step(k + 1, g[k + 1 - 1]) /\ k + 1 # 0
    OBVIOUS
  <2>6. h = [i \in S |-> h[i]]
    OBVIOUS
  <2>7. \A i \in S : h[i] = IF i = 0 THEN start ELSE step(i, h[i - 1])
    <3> HIDE DEF h
    <3>1. TAKE i \in S
    <3>2. CASE i = k + 1
      BY <2>4, <2>5, <3>2
    <3>3. CASE i \in 0 .. k
      BY <2>2, <2>4, <3>3
    <3> QED
      BY <2>3, <3>2, <3>3
  <2>8. Is(h, k + 1)
    <3> HIDE DEF h
    <3> QED
      BY <2>6, <2>7
  <2> QED
    BY <2>8
<1>4. 0 .. n \subseteq T
  <2> HIDE DEF T
  <2> QED
    BY <1>2, <1>3, NumbersUpTo
<1>5. All(CHOOSE g : All(g))
  <2>1. \E g : Is(g, n)
    <3>1. n \in T
      <4> HIDE DEF T
      <4> QED
        BY <1>4
    <3> HIDE DEF Is
    <3> QED
      BY <3>1
  <2>2. 0 .. n = 0 .. n
    OBVIOUS
  <2>3. \E g : All(g)
    BY <2>1, <2>2
  <2> HIDE DEF All
  <2> QED
    BY <2>3
<1>6. \A i \in 0 .. n : (CHOOSE g : All(g))[i] =
        IF i = 0 THEN start ELSE step(i, (CHOOSE g : All(g))[i - 1])
  <2> DEFINE g == CHOOSE g : All(g)
  <2>1. All(g)
    BY <1>5
  <2> HIDE DEF g
  <2>2. \A i \in 0 .. n : g[i] = IF i = 0 THEN start ELSE step(i, g[i - 1])
    BY <2>1
  <2> QED
    BY <2>2 DEF g
<1>7. PICK f : f = CHOOSE g : All(g)
  OBVIOUS
<1> HIDE DEF All
<1>8. \A i \in 0 .. n : f[i] = IF i = 0 THEN [node |-> node, subtrees |-> subtrees, set |-> FALSE] ELSE AppendedAbove(path, height, i, f[i - 1])
  <2>1. \A i \in 0 .. n : f[i] = IF i = 0 THEN start ELSE step(i, f[i - 1])
    BY <1>6, <1>7
  <2>2. start = [node |-> node, subtrees |-> subtrees, set |-> FALSE]
    BY DEF start
  <2>3. \A i, v : step(i, v) = AppendedAbove(path, height, i, v)
    BY DEF step
  <2> QED
    BY <2>1, <2>2, <2>3
<1>9. Appended(subtrees, path, node, height) = f[n]
  BY <1>1, <1>7
<1> QED
  BY <1>8, <1>9

\* Indices of the children of a node.
LEMMA ChildIndices ==
  ASSUME NEW l \in Nat, NEW i \in 0 .. Pow2[l] - 1
  PROVE  2 * i \in 0 .. Pow2[l + 1] - 1 /\ 2 * i + 1 \in 0 .. Pow2[l + 1] - 1
<1>1. PICK p \in Nat \ {0} : p = Pow2[l] /\ Pow2[l + 1] = 2 * p
  BY PowersOfTwo
<1> QED
  BY <1>1

\* MerkleNodes is a Merkle tree of its leaves.
LEMMA MerkleNodesHash ==
  ASSUME NEW n \in Nat, NEW leaves
  PROVE  /\ IsMerkle(MerkleNodes(n, leaves), n)
         /\ \A i \in 0 .. Pow2[n] - 1 :
              MerkleNodes(n, leaves)[n][i] = IF i \in DOMAIN leaves THEN leaves[i] ELSE ZeroLeaf
         /\ \A l \in 0 .. n : MerkleNodes(n, leaves)[l] =
              [i \in 0 .. Pow2[l] - 1 |-> MerkleNodes(n, leaves)[l][i]]
<1>1. PICK h : /\ MerkleNodes(n, leaves) = h
               /\ \A i \in 0 .. n : h[i] = IF i = n THEN LeafNodes(n, leaves)
                                           ELSE NodesAbove(i, h[i + 1])
  BY MerkleNodesAre
<1>2. h[n] = LeafNodes(n, leaves)
  BY <1>1
<1>3. \A l \in 0 .. n - 1 : h[l] = NodesAbove(l, h[l + 1])
  BY <1>1
<1>4. IsMerkle(h, n)
  BY <1>3 DEF IsMerkle, NodesAbove
<1>5. \A i \in 0 .. Pow2[n] - 1 : h[n][i] = IF i \in DOMAIN leaves THEN leaves[i] ELSE ZeroLeaf
  BY <1>2 DEF LeafNodes
<1>6. ASSUME NEW l \in 0 .. n PROVE h[l] = [i \in 0 .. Pow2[l] - 1 |-> h[l][i]]
  <2>1. CASE l = n
    <3>1. LeafNodes(n, leaves) = [i \in 0 .. Pow2[n] - 1 |-> LeafNodes(n, leaves)[i]]
      BY DEF LeafNodes
    <3> QED
      BY <1>2, <2>1, <3>1
  <2>2. CASE l \in 0 .. n - 1
    <3>1. \A below : NodesAbove(l, below) = [i \in 0 .. Pow2[l] - 1 |-> NodesAbove(l, below)[i]]
      BY DEF NodesAbove
    <3> QED
      BY <1>3, <2>2, <3>1
  <2> QED
    BY <2>1, <2>2
<1> QED
  BY <1>1, <1>4, <1>5, <1>6

\* The tree of nothing but zeros.
ZeroNodes(n) == [l \in 0 .. n |-> [i \in 0 .. Pow2[l] - 1 |-> zeros(n)[l]]]

LEMMA ZeroNodesHash ==
  ASSUME NEW n \in Nat
  PROVE  /\ IsMerkle(ZeroNodes(n), n)
         /\ \A l \in 0 .. n : \A i \in 0 .. Pow2[l] - 1 : ZeroNodes(n)[l][i] = zeros(n)[l]
         /\ \A i \in 0 .. Pow2[n] - 1 : ZeroNodes(n)[n][i] = ZeroLeaf
<1>1. \A i \in 0 .. n : zeros(n)[i] =
        IF i = n THEN ZeroLeaf ELSE Hash2(zeros(n)[i + 1], zeros(n)[i + 1])
  BY ZerosAre
<1>2. \A l \in 0 .. n : \A i \in 0 .. Pow2[l] - 1 : ZeroNodes(n)[l][i] = zeros(n)[l]
  BY DEF ZeroNodes
<1>3. ASSUME NEW l \in 0 .. n - 1, NEW i \in 0 .. Pow2[l] - 1
      PROVE  ZeroNodes(n)[l][i] = Hash2(ZeroNodes(n)[l + 1][2 * i], ZeroNodes(n)[l + 1][2 * i + 1])
  <2>1. l \in 0 .. n /\ l + 1 \in 0 .. n /\ l # n /\ l \in Nat
    OBVIOUS
  <2>2. 2 * i \in 0 .. Pow2[l + 1] - 1 /\ 2 * i + 1 \in 0 .. Pow2[l + 1] - 1
    BY <2>1, ChildIndices
  <2> QED
    BY <1>1, <1>2, <2>1, <2>2
<1> QED
  BY <1>1, <1>2, <1>3 DEF IsMerkle

(***************************************************************************)
(* Trees of nodes.                                                         *)
(***************************************************************************)
CoupleHolds(t, level, i) ==
  getNode(t, level - 1, i) = Hash2(getNode(t, level, 2 * i), getNode(t, level, 2 * i + 1))
Couples(t) ==
  \A level \in 1 .. t.depth : \A i \in 0 .. Pow2[level - 1] - 1 : CoupleHolds(t, level, i)
NodesOf(t) == [l \in 0 .. t.depth |-> [i \in 0 .. Pow2[l] - 1 |-> getNode(t, l, i)]]
HasLeaves(t, leaves) ==
  \A i \in 0 .. Pow2[t.depth] - 1 :
    getNode(t, t.depth, i) = IF i \in DOMAIN leaves THEN leaves[i] ELSE ZeroLeaf

\* A tree whose couples are hashed is a Merkle tree.
LEMMA CouplesHash ==
  ASSUME NEW t, t.depth \in Nat, Couples(t)
  PROVE  /\ IsMerkle(NodesOf(t), t.depth)
         /\ \A l \in 0 .. t.depth : \A i \in 0 .. Pow2[l] - 1 : NodesOf(t)[l][i] = getNode(t, l, i)
<1>1. \A l \in 0 .. t.depth : \A i \in 0 .. Pow2[l] - 1 : NodesOf(t)[l][i] = getNode(t, l, i)
  BY DEF NodesOf
<1>2. ASSUME NEW l \in 0 .. t.depth - 1, NEW i \in 0 .. Pow2[l] - 1
      PROVE  NodesOf(t)[l][i] = Hash2(NodesOf(t)[l + 1][2 * i], NodesOf(t)[l + 1][2 * i + 1])
  <2>1. l \in 0 .. t.depth /\ l + 1 \in 0 .. t.depth /\ l + 1 \in 1 .. t.depth /\ l \in Nat
        /\ l + 1 - 1 = l
    OBVIOUS
  <2>2. 2 * i \in 0 .. Pow2[l + 1] - 1 /\ 2 * i + 1 \in 0 .. Pow2[l + 1] - 1
    BY <2>1, ChildIndices
  <2>3. CoupleHolds(t, l + 1, i)
    BY <2>1 DEF Couples
  <2> QED
    BY <1>1, <2>1, <2>2, <2>3 DEF CoupleHolds
<1> QED
  BY <1>1, <1>2 DEF IsMerkle

\* Every node of such a tree is the hash of the leaves below it.
LEMMA TreeIsHashed ==
  ASSUME NEW t, NEW leaves, t.depth \in Nat, Couples(t), HasLeaves(t, leaves)
  PROVE  Hashed(t, leaves)
<1> DEFINE n == t.depth
           M == MerkleNodes(n, leaves)
           N == NodesOf(t)
<1>1. IsMerkle(N, n) /\ \A l \in 0 .. n : \A i \in 0 .. Pow2[l] - 1 : N[l][i] = getNode(t, l, i)
  BY CouplesHash
<1>2. /\ IsMerkle(M, n)
      /\ \A i \in 0 .. Pow2[n] - 1 : M[n][i] = IF i \in DOMAIN leaves THEN leaves[i] ELSE ZeroLeaf
      /\ \A l \in 0 .. n : M[l] = [i \in 0 .. Pow2[l] - 1 |-> M[l][i]]
  BY MerkleNodesHash
<1>3. \A i \in 0 .. Pow2[n] - 1 : M[n][i] = N[n][i]
  BY <1>1, <1>2 DEF HasLeaves
<1>4. n \in Nat
  OBVIOUS
<1> HIDE DEF M, N, n
<1>5. ASSUME NEW l \in 0 .. n, NEW i \in 0 .. Pow2[l] - 1 PROVE M[l][i] = N[l][i]
  <2>1. l \in Nat /\ n - l \in Nat /\ l + (n - l) = n
    BY <1>4
  <2>2. \A j \in i * Pow2[n - l] .. i * Pow2[n - l] + Pow2[n - l] - 1 : M[n][j] = N[n][j]
    BY <1>3, <2>1, BelowIsInLevel
  <2> QED
    BY <1>1, <1>2, <1>4, <2>2, NodesFromLeaves
<1>6. ASSUME NEW l \in 0 .. n PROVE M[l] = [i \in 0 .. Pow2[l] - 1 |-> getNode(t, l, i)]
  BY <1>1, <1>2, <1>5
<1> QED
  BY <1>6 DEF Hashed, M, n

\* A node that is a zero has nothing but zero leaves below it.
LEMMA ZeroBelow ==
  ASSUME NEW t, NEW n \in Nat, t.depth = n, t.zeros = zeros(n), Couples(t), NEW l \in 0 .. n,
         NEW i \in 0 .. Pow2[l] - 1, isZero(t, l, i),
         NEW j \in i * Pow2[n - l] .. i * Pow2[n - l] + Pow2[n - l] - 1
  PROVE  j \in 0 .. Pow2[n] - 1 /\ getNode(t, n, j) = ZeroLeaf
<1>1. IsMerkle(NodesOf(t), n) /\ \A k \in 0 .. n : \A m \in 0 .. Pow2[k] - 1 :
        NodesOf(t)[k][m] = getNode(t, k, m)
  BY CouplesHash
<1>2. /\ IsMerkle(ZeroNodes(n), n)
      /\ \A k \in 0 .. n : \A m \in 0 .. Pow2[k] - 1 : ZeroNodes(n)[k][m] = zeros(n)[k]
      /\ \A m \in 0 .. Pow2[n] - 1 : ZeroNodes(n)[n][m] = ZeroLeaf
  BY ZeroNodesHash
<1>3. l \in Nat /\ n - l \in Nat /\ l + (n - l) = n
  OBVIOUS
<1>4. j \in 0 .. Pow2[n] - 1
  BY <1>3, BelowIsInLevel
<1>5. NodesOf(t)[l][i] = ZeroNodes(n)[l][i]
  BY <1>1, <1>2 DEF isZero
<1>6. NodesOf(t)[n][j] = ZeroNodes(n)[n][j]
  BY <1>1, <1>2, <1>5, LeavesFromNodes
<1> QED
  BY <1>1, <1>2, <1>4, <1>6

IsTree(t, n) == t = [depth |-> n, zeros |-> zeros(n), nodes |-> t.nodes]

\* A new tree has zeros for its nodes.
LEMMA NewTreeIs ==
  ASSUME NEW n \in Nat
  PROVE  /\ IsTree(NewTree(n), n)
         /\ \A l, i : getNode(NewTree(n), l, i) = zeros(n)[l]
         /\ Couples(NewTree(n))
<1>1. IsTree(NewTree(n), n) /\ NewTree(n).depth = n
  BY DEF IsTree, NewTree
<1>2. ASSUME NEW l, NEW i PROVE getNode(NewTree(n), l, i) = zeros(n)[l]
  <2>1. DOMAIN << >> = {}
    OBVIOUS
  <2>2. NewTree(n).nodes = << >> /\ NewTree(n).zeros = zeros(n)
    BY DEF NewTree
  <2> QED
    BY <2>1, <2>2 DEF getNode
<1>3. \A i \in 0 .. n : zeros(n)[i] =
        IF i = n THEN ZeroLeaf ELSE Hash2(zeros(n)[i + 1], zeros(n)[i + 1])
  BY ZerosAre
<1>4. ASSUME NEW l \in 1 .. n, NEW i \in 0 .. Pow2[l - 1] - 1 PROVE CoupleHolds(NewTree(n), l, i)
  <2>1. l - 1 \in 0 .. n /\ l - 1 # n /\ l - 1 + 1 = l
    OBVIOUS
  <2> QED
    BY <1>2, <1>3, <2>1 DEF CoupleHolds
<1> QED
  BY <1>1, <1>2, <1>4 DEF Couples

\* Setting a node changes that one.
LEMMA SetNodeIs ==
  ASSUME NEW n, NEW t, IsTree(t, n), NEW l, NEW i, NEW node
  PROVE  /\ IsTree(SetNode(t, l, i, node), n)
         /\ \A k, j : getNode(SetNode(t, l, i, node), k, j) =
              IF k = l /\ j = i THEN node ELSE getNode(t, k, j)
<1> DEFINE nodes == [p \in DOMAIN t.nodes \cup {<<l, i>>} |->
                       IF p = <<l, i>> THEN node ELSE t.nodes[p]]
<1>1. SetNode(t, l, i, node) = [depth |-> n, zeros |-> zeros(n), nodes |-> nodes]
  BY DEF SetNode, IsTree
<1>2. t.zeros = zeros(n)
  BY DEF IsTree
<1>3. ASSUME NEW k, NEW j
      PROVE  (IF <<k, j>> \in DOMAIN nodes THEN nodes[<<k, j>>] ELSE zeros(n)[k]) =
                IF k = l /\ j = i THEN node ELSE getNode(t, k, j)
  <2>1. <<k, j>> = <<l, i>> <=> k = l /\ j = i
    OBVIOUS
  <2> QED
    BY <1>2, <2>1 DEF getNode
<1> HIDE DEF nodes
<1>4. SetNode(t, l, i, node).nodes = nodes /\ SetNode(t, l, i, node).zeros = zeros(n)
  BY <1>1
<1>5. IsTree(SetNode(t, l, i, node), n)
  BY <1>1, <1>4 DEF IsTree
<1> QED
  BY <1>3, <1>4, <1>5 DEF getNode

\* A tree that differs from another one in the parents of some couples.
HashedAbove(r, t, n, level, m, c) ==
  /\ IsTree(r, n)
  /\ \A k, j : getNode(r, k, j) =
       IF k = level - 1 /\ j \in m .. m + c - 1
       THEN Hash2(getNode(t, level, 2 * j), getNode(t, level, 2 * j + 1))
       ELSE getNode(t, k, j)

\* The parent of a couple is its hash.
LEMMA UpdateCoupleIs ==
  ASSUME NEW n, NEW t, IsTree(t, n), NEW level, NEW i \in Nat, 2 * i + 1 < Half,
         NEW pair, pair = 2 * i
  PROVE  HashedAbove(updateCouple(t, level, pair), t, n, level, i, 1)
<1>1. Half \in Nat
  BY HalfIs
<1>2. 2 * i \in 0 .. Half - 1 /\ (2 * i) \div 2 = i
  BY <1>1
<1>3. LeftOf(2 * i) = 2 * i /\ ShiftRight(2 * i, 1) = i
  BY <1>2, BitOperators
<1>4. updateCouple(t, level, 2 * i) =
        SetNode(t, level - 1, i, Hash2(getNode(t, level, 2 * i), getNode(t, level, 2 * i + 1)))
  BY <1>3 DEF updateCouple, coupleOf
<1> QED
  <2>1. \A j : j \in i .. i + 1 - 1 <=> j = i
    OBVIOUS
  <2> QED
    BY <1>4, <2>1, SetNodeIs DEF HashedAbove

\* updateCouples hashes the couples of a range.
LEMMA UpdateCouplesIs ==
  ASSUME NEW n, NEW t, IsTree(t, n), NEW level \in Nat \ {0}, NEW m \in Nat, NEW c \in Nat,
         2 * (m + c) <= Half, NEW first, first = 2 * m
  PROVE  HashedAbove(updateCouples(t, level, first, c), t, n, level, m, c)
<1>0. Half \in Nat
  BY HalfIs
<1>a. PICK f : updateCouples(t, level, first, c) = f[c] /\ CoupleByCouple(f, t, level, first, c)
  BY CouplesAre
<1>1. /\ updateCouples(t, level, first, c) = f[c]
      /\ \A i \in 0 .. c : f[i] = IF i = 0 THEN t ELSE updateCouple(f[i - 1], level, first + 2 * (i - 1))
  BY <1>a DEF CoupleByCouple
<1> DEFINE T == {b \in 0 .. c : HashedAbove(f[b], t, n, level, m, b)}
<1>2. 0 \in T
  <2>1. f[0] = t /\ \A j : j \notin m .. m + 0 - 1
    BY <1>1
  <2> QED
    BY <2>1 DEF HashedAbove
<1>3. \A b \in T \cap 0 .. c - 1 : b + 1 \in T
  <2> SUFFICES ASSUME NEW b \in 0 .. c - 1, HashedAbove(f[b], t, n, level, m, b)
               PROVE  HashedAbove(f[b + 1], t, n, level, m, b + 1)
    OBVIOUS
  <2>1. b + 1 \in 0 .. c /\ b + 1 # 0 /\ b + 1 - 1 = b /\ first + 2 * b = 2 * (m + b)
        /\ m + b \in Nat /\ 2 * (m + b) + 1 < Half /\ m + (b + 1) - 1 = m + b
    BY <1>0
  <2>2. PICK q \in Nat, pair \in Nat : q = m + b /\ pair = 2 * q
    BY <2>1
  <2>3. f[b + 1] = updateCouple(f[b], level, pair)
    BY <1>1, <2>1, <2>2
  <2>4. HashedAbove(f[b + 1], f[b], n, level, q, 1)
    <3>1. IsTree(f[b], n)
      BY DEF HashedAbove
    <3>2. HashedAbove(updateCouple(f[b], level, pair), f[b], n, level, q, 1)
      BY <2>1, <2>2, <3>1, UpdateCoupleIs
    <3> QED
      BY <2>3, <3>2
  <2>5. \A j : getNode(f[b], level, j) = getNode(t, level, j)
    <3>1. level # level - 1
      OBVIOUS
    <3> QED
      BY <3>1 DEF HashedAbove
  <2>6. \A j : j \in m .. m + (b + 1) - 1 <=> j \in m .. m + b - 1 \/ j = q
    BY <2>1, <2>2
  <2>7. q \notin m .. m + b - 1 /\ \A j : j \in q .. q + 1 - 1 <=> j = q
    BY <2>1, <2>2
  <2> QED
    BY <2>4, <2>5, <2>6, <2>7 DEF HashedAbove
<1>4. 0 .. c \subseteq T
  <2> HIDE DEF T
  <2> QED
    BY <1>2, <1>3, NumbersUpTo
<1>5. c \in T
  <2> HIDE DEF T
  <2> QED
    BY <1>4
<1> QED
  BY <1>1, <1>5

\* A state of ascend after another one, whose couples above a range were hashed.
Ascended(r, s, level, first, a, count) ==
  r = [tree |-> updateCouples(s.tree, level, first, count), offset |-> a, len |-> count]

\* One level of ascend, with its bit operators as arithmetic.
LEMMA AscendLevelIs ==
  ASSUME NEW s, NEW o \in Nat, NEW c \in Nat \ {0}, NEW level, s.offset = o, s.len = c,
         o + c <= Half, NEW a \in Nat, NEW b \in Nat, a = o \div 2, b = (o + c - 1) \div 2,
         NEW first, NEW count, first = 2 * a, count = b - a + 1, 2 * count < Half
  PROVE  Ascended(AscendLevel(s, level), s, level, first, a, count)
<1>1. PICK h \in Nat \ {0} : Half = 2 * h
  BY HalfIs
<1>2. o \in 0 .. Half - 1 /\ a <= b
  BY <1>1
<1>3. IsOdd(o) <=> o % 2 = 1
  BY <1>2, BitOperators
<1> DEFINE down == IF IsOdd(o) THEN 1 ELSE 0
           len == (c + down) + ((c + down) % 2)
<1>4. down = o % 2 /\ down \in {0, 1} /\ o = 2 * a + down
  BY <1>3
<1> HIDE DEF down
<1>5. o - down = 2 * a
  BY <1>4
<1>6. len = 2 * (b - a + 1)
  <2>1. b = (2 * a + down + c - 1) \div 2
    BY <1>4
  <2>2. PICK e \in Nat : e = down + c /\ e >= 1
    BY <1>4
  <2>3. b = (2 * a + (e - 1)) \div 2 /\ len = e + (e % 2)
    <3>1. down + c = e /\ c + down = e /\ 2 * a + down + c - 1 = 2 * a + (e - 1)
      BY <1>4, <2>2
    <3>2. len = e + (e % 2)
      BY <3>1
    <3> QED
      BY <2>1, <3>1, <3>2
  <2>4. (2 * a + (e - 1)) \div 2 = a + ((e - 1) \div 2)
    BY <2>2
  <2>5. e + (e % 2) = 2 * (((e - 1) \div 2) + 1)
    BY <2>2
  <2> QED
    BY <2>3, <2>4, <2>5
<1> HIDE DEF len
<1>7. len \in 0 .. Half - 1 /\ len \div 2 = count
  <2>1. count \in Nat /\ len = 2 * count
    BY <1>2, <1>6
  <2> QED
    BY <1>1, <2>1
<1>8. 2 * a \in 0 .. Half - 1 /\ (2 * a) \div 2 = a
  BY <1>1, <1>2, <1>4
<1>9. ShiftRight(2 * a, 1) = a /\ ShiftRight(len, 1) = count
  BY <1>7, <1>8, BitOperators
<1>10. AscendLevel(s, level) =
         [tree |-> updateCouples(s.tree, level, o - down, len \div 2),
          offset |-> ShiftRight(o - down, 1), len |-> ShiftRight(len, 1)]
  BY DEF AscendLevel, EvenLength, down, len
<1> QED
  BY <1>5, <1>7, <1>9, <1>10 DEF Ascended

\* The state of ascend before a level: the couples that need not be hashed are
\* those above its nodes from the offset on.
Ascending(s, n, l, leaves) ==
  /\ s = [tree |-> s.tree, offset |-> s.offset, len |-> s.len]
  /\ IsTree(s.tree, n)
  /\ s.offset \in Nat /\ s.len \in Nat \ {0}
  /\ s.offset + s.len <= Half
  /\ s.offset + s.len <= Pow2[l]
  /\ 2 * (((s.offset + s.len - 1) \div 2) - (s.offset \div 2) + 1) < Half
  /\ \A i : getNode(s.tree, n, i) = getNode(leaves, n, i)
  /\ \A k \in 1 .. n : \A i \in 0 .. Pow2[k - 1] - 1 :
       \/ CoupleHolds(s.tree, k, i)
       \/ k = l /\ i \in s.offset \div 2 .. (s.offset + s.len - 1) \div 2

LEMMA AscendLevelKeeps ==
  ASSUME NEW n \in Nat, NEW l \in 0 .. n - 1, NEW s, NEW leaves, Ascending(s, n, l + 1, leaves)
  PROVE  Ascending(AscendLevel(s, l + 1), n, l, leaves)
<1> DEFINE o == s.offset
           c == s.len
           a == o \div 2
           b == (o + c - 1) \div 2
           r == AscendLevel(s, l + 1)
           t == updateCouples(s.tree, l + 1, 2 * a, b - a + 1)
<1>1. o \in Nat /\ c \in Nat \ {0} /\ o + c <= Half /\ o + c <= Pow2[l + 1] /\ 2 * (b - a + 1) < Half
  BY DEF Ascending
<1>2. a \in Nat /\ b \in Nat /\ a <= b
  BY <1>1
<1>3. PICK h \in Nat \ {0} : Half = 2 * h
  BY HalfIs
<1>4. PICK p \in Nat \ {0} : p = Pow2[l] /\ Pow2[l + 1] = 2 * p
  BY PowersOfTwo
<1>5. b + 1 <= h /\ b + 1 <= p
  BY <1>1, <1>2, <1>3, <1>4
<1>6. r = [tree |-> t, offset |-> a, len |-> b - a + 1]
  <2>1. s.offset = o /\ s.len = c /\ a = o \div 2 /\ b = (o + c - 1) \div 2
    OBVIOUS
  <2>2. r = AscendLevel(s, l + 1)
    OBVIOUS
  <2> HIDE DEF o, c, a, b, r
  <2>3. PICK d, m : d = b - a + 1 /\ m = 2 * a /\ 2 * d < Half
    BY <1>1
  <2>4. Ascended(AscendLevel(s, l + 1), s, l + 1, m, a, d)
    BY <1>1, <1>2, <2>1, <2>3, AscendLevelIs
  <2> QED
    BY <2>2, <2>3, <2>4 DEF Ascended
<1>7. /\ IsTree(t, n)
      /\ \A k, j : getNode(t, k, j) =
           IF k = l /\ j \in a .. b
           THEN Hash2(getNode(s.tree, l + 1, 2 * j), getNode(s.tree, l + 1, 2 * j + 1))
           ELSE getNode(s.tree, k, j)
  <2>1. 2 * (a + (b - a + 1)) <= Half /\ b - a + 1 \in Nat /\ a + (b - a + 1) - 1 = b
        /\ l + 1 \in Nat \ {0} /\ l + 1 - 1 = l
    BY <1>2, <1>3, <1>5
  <2>2. IsTree(s.tree, n)
    BY DEF Ascending
  <2>3. PICK d \in Nat, m \in Nat, x \in Nat \ {0} : d = b - a + 1 /\ m = a /\ x = l + 1
    BY <1>2, <2>1
  <2>4. PICK u : u = s.tree
    OBVIOUS
  <2>8. PICK y : y = 2 * m
    OBVIOUS
  <2>5. t = updateCouples(u, x, y, d)
    BY <2>3, <2>4, <2>8
  <2> HIDE DEF t, a, b
  <2>6. 2 * (m + d) <= Half /\ IsTree(u, n)
    BY <2>1, <2>2, <2>3, <2>4
  <2>7. HashedAbove(updateCouples(u, x, y, d), u, n, x, m, d)
    BY <2>6, <2>8, UpdateCouplesIs
  <2>9. x - 1 = l /\ m + d - 1 = b
    BY <2>1, <2>3
  <2>10. HashedAbove(t, u, n, x, m, d)
    BY <2>5, <2>7
  <2> QED
    BY <2>3, <2>4, <2>9, <2>10 DEF HashedAbove
<1> HIDE DEF t, r
<1>8. a + (b - a + 1) = b + 1 /\ a + (b - a + 1) - 1 = b /\ b - a + 1 \in Nat \ {0}
  BY <1>2
<1>9. 2 * ((b \div 2) - (a \div 2) + 1) < Half
  <2>1. (b \div 2) - (a \div 2) + 1 <= b - a + 1
    BY <1>2
  <2> QED
    BY <1>1, <1>2, <1>3, <2>1
<1>10. \A i : getNode(t, n, i) = getNode(leaves, n, i)
  <2>1. n # l
    OBVIOUS
  <2> QED
    BY <1>7, <2>1 DEF Ascending
<1>14. \A k \in 1 .. n : \A i \in 0 .. Pow2[k - 1] - 1 :
         CoupleHolds(s.tree, k, i) \/ (k = l + 1 /\ i \in a .. b)
  BY DEF Ascending
<1> HIDE DEF a, b, o, c
<1>11. ASSUME NEW k \in 1 .. n, NEW i \in 0 .. Pow2[k - 1] - 1
       PROVE  CoupleHolds(t, k, i) \/ (k = l /\ i \in a \div 2 .. b \div 2)
  <2>1. CASE k = l + 1 /\ i \in a .. b
    <3>1. getNode(t, l, i) = Hash2(getNode(s.tree, l + 1, 2 * i), getNode(s.tree, l + 1, 2 * i + 1))
      BY <1>7, <2>1
    <3>2. \A j : getNode(t, l + 1, j) = getNode(s.tree, l + 1, j)
      BY <1>7
    <3>3. k - 1 = l
      BY <2>1
    <3> QED
      BY <2>1, <3>1, <3>2, <3>3 DEF CoupleHolds
  <2>2. CASE k = l + 1 /\ i \notin a .. b
    <3>1. CoupleHolds(s.tree, k, i)
      BY <1>14, <2>2
    <3>2. \A j : getNode(t, l + 1, j) = getNode(s.tree, l + 1, j)
      BY <1>7
    <3>3. k - 1 = l /\ getNode(t, l, i) = getNode(s.tree, l, i)
      BY <1>7, <2>2
    <3> QED
      BY <2>2, <3>1, <3>2, <3>3 DEF CoupleHolds
  <2>3. CASE k = l /\ i \notin a \div 2 .. b \div 2
    <3>1. CoupleHolds(s.tree, k, i)
      BY <1>14, <2>3
    <3>2. i \in Nat /\ 2 * i \notin a .. b /\ 2 * i + 1 \notin a .. b
      <4>1. PICK x \in Nat : x = a
        BY <1>2
      <4>2. PICK y \in Nat : y = b
        BY <1>2
      <4>3. i \in Nat
        OBVIOUS
      <4>4. ~ (x \div 2 <= i /\ i <= y \div 2)
        BY <2>3, <4>1, <4>2, <4>3
      <4> QED
        BY <4>1, <4>2, <4>3, <4>4
    <3>3. k # k - 1 /\ k - 1 # l
      BY <2>3
    <3>4. /\ getNode(t, k, 2 * i) = getNode(s.tree, k, 2 * i)
          /\ getNode(t, k, 2 * i + 1) = getNode(s.tree, k, 2 * i + 1)
          /\ getNode(t, k - 1, i) = getNode(s.tree, k - 1, i)
      BY <1>7, <3>2, <3>3
    <3> QED
      BY <3>1, <3>4 DEF CoupleHolds
  <2>4. CASE k # l /\ k # l + 1
    <3>1. CoupleHolds(s.tree, k, i)
      BY <1>14, <2>4
    <3>2. k - 1 # l
      BY <2>4
    <3> QED
      BY <1>7, <2>4, <3>1, <3>2 DEF CoupleHolds
  <2> QED
    BY <2>1, <2>2, <2>3, <2>4
<1>12. r.tree = t /\ r.offset = a /\ r.len = b - a + 1
  BY <1>6
<1>13. a + (b - a + 1) <= Half /\ a + (b - a + 1) <= Pow2[l]
  BY <1>2, <1>3, <1>4, <1>5, <1>8
<1> QED
  BY <1>2, <1>6, <1>7, <1>8, <1>9, <1>10, <1>11, <1>12, <1>13 DEF Ascending, r

\* After ascend the couples are hashed and the leaves are as they were.
LEMMA AscendHashes ==
  ASSUME NEW n \in Nat, NEW t, NEW offset, NEW len,
         Ascending([tree |-> t, offset |-> offset, len |-> len], n, n, t)
  PROVE  /\ IsTree(ascend(t, offset, len), n)
         /\ Couples(ascend(t, offset, len))
         /\ \A i : getNode(ascend(t, offset, len), n, i) = getNode(t, n, i)
<1> DEFINE start == [tree |-> t, offset |-> offset, len |-> len]
<1>1. t.depth = n
  BY DEF Ascending, IsTree
<1>2. PICK f : /\ ascend(t, offset, len) = f[0].tree
               /\ \A i \in 0 .. n : f[i] = IF i = n THEN start ELSE AscendLevel(f[i + 1], i + 1)
  <2>1. \E f : /\ ascend(t, offset, len) = f[0].tree
               /\ \A i \in 0 .. n : f[i] = IF i = n THEN [tree |-> t, offset |-> offset, len |-> len]
                                           ELSE AscendLevel(f[i + 1], i + 1)
    BY <1>1, AscendIs
  <2> QED
    BY <2>1
<1> DEFINE T == {k \in 0 .. n : Ascending(f[n - k], n, n - k, t)}
<1>3. 0 \in T
  <2>1. f[n - 0] = start /\ n - 0 = n
    BY <1>2
  <2> QED
    BY <2>1
<1>4. \A k \in T \cap 0 .. n - 1 : k + 1 \in T
  <2> SUFFICES ASSUME NEW k \in T, k \in 0 .. n - 1 PROVE k + 1 \in T
    OBVIOUS
  <2> DEFINE l == n - (k + 1)
  <2>1. l \in 0 .. n - 1 /\ l \in 0 .. n /\ l # n /\ n - k = l + 1
    OBVIOUS
  <2>2. Ascending(f[l + 1], n, l + 1, t)
    BY <2>1
  <2> HIDE DEF l
  <2>3. Ascending(f[l], n, l, t)
    BY <1>2, <2>1, <2>2, AscendLevelKeeps
  <2> QED
    BY <2>3 DEF l
<1>5. 0 .. n \subseteq T
  <2> HIDE DEF T
  <2> QED
    BY <1>3, <1>4, NumbersUpTo
<1>6. Ascending(f[0], n, 0, t)
  <2>1. n \in T /\ n - n = 0
    <3> HIDE DEF T
    <3> QED
      BY <1>5
  <2> QED
    BY <2>1
<1>7. f[0].tree.depth = n
  BY <1>6 DEF Ascending, IsTree
<1>8. Couples(f[0].tree)
  BY <1>6, <1>7 DEF Ascending, Couples
<1> QED
  BY <1>2, <1>6, <1>8 DEF Ascending

\* Half is four at least, as BitWidth is three.
LEMMA HalfIsFour == Half \in Nat /\ Half >= 4
<1>1. BitWidth - 1 \in Nat /\ 2 <= BitWidth - 1
  BY BitWidthAssumption
<1>2. Pow2[0] = 1 /\ Pow2[1] = 2 * Pow2[0] /\ Pow2[2] = 2 * Pow2[1]
  BY PowersOfTwo, 0 + 1 = 1, 1 + 1 = 2
<1>3. Pow2[2] <= Pow2[BitWidth - 1]
  BY <1>1, PowersGrow
<1> QED
  BY <1>1, <1>2, <1>3, PowersOfTwo DEF Half

\* A tree after another one, of which it has the leaves but for some.
LeavesSet(r, t, n, first, leaves) ==
  /\ IsTree(r, n)
  /\ Couples(r)
  /\ \A i : getNode(r, n, i) = IF i \in first .. first + Len(leaves) - 1
                               THEN leaves[i - first + 1] ELSE getNode(t, n, i)

\* Hashing the couples above the leaves that were written is enough.
LEMMA AscendFromLeaves ==
  ASSUME NEW n \in Nat \ {0}, NEW t, IsTree(t, n), Couples(t), NEW first \in Nat,
         NEW leaves, Len(leaves) \in Nat \ {0}, first + Len(leaves) <= Half,
         first + Len(leaves) <= Pow2[n],
         2 * (((first + Len(leaves) - 1) \div 2) - (first \div 2) + 1) < Half,
         NEW w, IsTree(w, n),
         \A k, i : getNode(w, k, i) =
           IF k = n /\ i \in first .. first + Len(leaves) - 1
           THEN leaves[i - first + 1] ELSE getNode(t, k, i)
  PROVE  LeavesSet(ascend(w, first, Len(leaves)), t, n, first, leaves)
<1> DEFINE c == Len(leaves)
           a == first \div 2
           b == (first + c - 1) \div 2
           s == [tree |-> w, offset |-> first, len |-> c]
<1>1. ASSUME NEW k \in 1 .. n, NEW i \in 0 .. Pow2[k - 1] - 1, ~ (k = n /\ i \in a .. b)
      PROVE  CoupleHolds(w, k, i)
  <2>1. CoupleHolds(t, k, i)
    BY DEF Couples, IsTree
  <2>2. i \in Nat /\ k # k - 1 /\ k - 1 # n
    OBVIOUS
  <2>3. k = n => 2 * i \notin first .. first + c - 1 /\ 2 * i + 1 \notin first .. first + c - 1
    <3> HIDE DEF c
    <3>1. c \in Nat \ {0}
      BY DEF c
    <3> QED
      BY <1>1, <2>2, <3>1
  <2>4. /\ getNode(w, k, 2 * i) = getNode(t, k, 2 * i)
        /\ getNode(w, k, 2 * i + 1) = getNode(t, k, 2 * i + 1)
        /\ getNode(w, k - 1, i) = getNode(t, k - 1, i)
    BY <2>2, <2>3
  <2> QED
    BY <2>1, <2>4 DEF CoupleHolds
<1>2. Ascending(s, n, n, w)
  <2>1. s.tree = w /\ s.offset = first /\ s.len = c
    OBVIOUS
  <2>2. c \in Nat \ {0} /\ first + c <= Half /\ first + c <= Pow2[n] /\ 2 * (b - a + 1) < Half
    OBVIOUS
  <2>3. \A k \in 1 .. n : \A i \in 0 .. Pow2[k - 1] - 1 :
          CoupleHolds(w, k, i) \/ (k = n /\ i \in a .. b)
    BY <1>1
  <2>4. s = [tree |-> s.tree, offset |-> s.offset, len |-> s.len]
    OBVIOUS
  <2> HIDE DEF s
  <2> QED
    BY <2>1, <2>2, <2>3, <2>4 DEF Ascending
<1>3. /\ IsTree(ascend(w, first, c), n)
      /\ Couples(ascend(w, first, c))
      /\ \A i : getNode(ascend(w, first, c), n, i) = getNode(w, n, i)
  <2>1. Ascending([tree |-> w, offset |-> first, len |-> c], n, n, w)
    BY <1>2
  <2> HIDE DEF c
  <2> QED
    BY <2>1, AscendHashes
<1> QED
  BY <1>3 DEF LeavesSet

\* updateSingle writes a leaf and hashes what is above it.
LEMMA UpdateSingleIs ==
  ASSUME NEW n \in Nat \ {0}, NEW t, IsTree(t, n), Couples(t), NEW index \in 0 .. Pow2[n] - 1,
         index < Half, NEW leaf
  PROVE  LeavesSet(updateSingle(t, index, leaf), t, n, index, <<leaf>>)
<1>1. Half \in Nat /\ Half >= 4 /\ index \in Nat
  BY HalfIsFour
<1>2. Len(<<leaf>>) = 1 /\ <<leaf>>[1] = leaf
  OBVIOUS
<1> DEFINE w == SetNode(t, n, index, leaf)
<1>3. IsTree(w, n) /\ \A k, i : getNode(w, k, i) =
        IF k = n /\ i = index THEN leaf ELSE getNode(t, k, i)
  BY SetNodeIs
<1>4. \A i : i \in index .. index + 1 - 1 <=> i = index
  BY <1>1
<1>5. index - index + 1 = 1 /\ index + 1 <= Pow2[n]
  BY <1>1, PowersOfTwo
<1>6. updateSingle(t, index, leaf) = ascend(w, index, 1)
  BY DEF updateSingle, IsTree
<1>7. 2 * (((index + 1 - 1) \div 2) - (index \div 2) + 1) < Half
  BY <1>1
<1> HIDE DEF w
<1>8. \A k, i : getNode(w, k, i) =
        IF k = n /\ i \in index .. index + Len(<<leaf>>) - 1
        THEN <<leaf>>[i - index + 1] ELSE getNode(t, k, i)
  BY <1>2, <1>3, <1>4, <1>5
<1>9. LeavesSet(ascend(w, index, Len(<<leaf>>)), t, n, index, <<leaf>>)
  <2>1. PICK leaves : leaves = <<leaf>>
    OBVIOUS
  <2>2. /\ Len(leaves) \in Nat \ {0} /\ index + Len(leaves) <= Half
        /\ index + Len(leaves) <= Pow2[n]
        /\ 2 * (((index + Len(leaves) - 1) \div 2) - (index \div 2) + 1) < Half
        /\ \A k, i : getNode(w, k, i) =
             IF k = n /\ i \in index .. index + Len(leaves) - 1
             THEN leaves[i - index + 1] ELSE getNode(t, k, i)
    BY <1>1, <1>2, <1>5, <1>7, <1>8, <2>1
  <2>3. LeavesSet(ascend(w, index, Len(leaves)), t, n, index, leaves)
    BY <1>1, <1>3, <2>2, AscendFromLeaves
  <2> QED
    BY <2>1, <2>3
<1> QED
  BY <1>2, <1>6, <1>9

\* updateBatch writes leaves and hashes what is above them.
LEMMA UpdateBatchIs ==
  ASSUME NEW n \in Nat \ {0}, NEW t, IsTree(t, n), Couples(t), NEW first \in Nat,
         NEW S, NEW leaves \in Seq(S), leaves # << >>, first + Len(leaves) <= Half,
         first + Len(leaves) <= Pow2[n],
         2 * (((first + Len(leaves) - 1) \div 2) - (first \div 2) + 1) < Half
  PROVE  LeavesSet(updateBatch(t, first, leaves), t, n, first, leaves)
<1> DEFINE c == Len(leaves)
           written == {<<n, first + i - 1>> : i \in DOMAIN leaves}
           nodes == [p \in DOMAIN t.nodes \cup written |->
                       IF p \in written THEN leaves[p[2] - first + 1] ELSE t.nodes[p]]
           w == [depth |-> n, zeros |-> zeros(n), nodes |-> nodes]
<1>1. c \in Nat \ {0} /\ DOMAIN leaves = 1 .. c
  <2>1. Len(leaves) \in Nat /\ DOMAIN leaves = 1 .. Len(leaves)
    BY LenProperties
  <2>2. Len(leaves) # 0
    BY EmptySeq
  <2> QED
    BY <2>1, <2>2
<1>2. updateBatch(t, first, leaves) = ascend(w, first, c)
  <2>1. t.depth = n /\ \A x : [t EXCEPT !.nodes = x] = [depth |-> n, zeros |-> zeros(n), nodes |-> x]
    <3>1. PICK u, z : t = [depth |-> n, zeros |-> z, nodes |-> u] /\ z = zeros(n)
      BY DEF IsTree
    <3>2. t.depth = n
      BY <3>1
    <3>3. ASSUME NEW x PROVE [t EXCEPT !.nodes = x] = [depth |-> n, zeros |-> z, nodes |-> x]
      BY <3>1
    <3> QED
      BY <3>1, <3>2, <3>3
  <2>2. updateBatch(t, first, leaves) = ascend([t EXCEPT !.nodes = nodes], first, c)
    BY <2>1 DEF updateBatch
  <2> HIDE DEF nodes
  <2>3. [t EXCEPT !.nodes = nodes] = w
    BY <2>1
  <2> QED
    BY <2>2, <2>3
<1>3. ASSUME NEW k, NEW i
      PROVE  <<k, i>> \in written <=> k = n /\ i \in first .. first + c - 1
  <2> HIDE DEF c
  <2>1. ASSUME k = n, i \in first .. first + c - 1 PROVE <<k, i>> \in written
    <3>1. i - first + 1 \in DOMAIN leaves /\ i = first + (i - first + 1) - 1
      BY <1>1, <2>1
    <3> QED
      BY <2>1, <3>1
  <2>2. ASSUME <<k, i>> \in written PROVE k = n /\ i \in first .. first + c - 1
    BY <1>1, <2>2
  <2> QED
    BY <2>1, <2>2
<1>4. \A k, i : getNode(w, k, i) =
        IF k = n /\ i \in first .. first + c - 1
        THEN leaves[i - first + 1] ELSE getNode(t, k, i)
  <2> TAKE k, i
  <2>1. <<k, i>> \in DOMAIN nodes <=> <<k, i>> \in DOMAIN t.nodes \/ <<k, i>> \in written
    BY DEF nodes
  <2>2. <<k, i>> \in DOMAIN nodes => nodes[<<k, i>>] =
          IF <<k, i>> \in written THEN leaves[i - first + 1] ELSE t.nodes[<<k, i>>]
    <3> HIDE DEF written
    <3> QED
      OBVIOUS
  <2>3. w.nodes = nodes /\ w.zeros = t.zeros
    BY DEF IsTree
  <2> HIDE DEF nodes, written, w, c
  <2> QED
    BY <1>3, <2>1, <2>2, <2>3 DEF getNode
<1>5. IsTree(w, n)
  BY DEF IsTree
<1> HIDE DEF w
<1>6. LeavesSet(ascend(w, first, Len(leaves)), t, n, first, leaves)
  BY <1>1, <1>4, <1>5, AscendFromLeaves
<1> QED
  BY <1>2, <1>6

(***************************************************************************)
(* Witnesses.                                                              *)
(***************************************************************************)
Beside(n) == IF n % 2 = 1 THEN n - 1 ELSE n + 1
\* The index of the node `height` levels above the index-th leaf.
AboveLeaf(index, height) == index \div Pow2[height]

\* Going up is halving.
LEMMA AboveLeafIs ==
  ASSUME NEW index \in 0 .. Half - 1
  PROVE  /\ AboveLeaf(index, 0) = index
         /\ \A k \in Nat : /\ AboveLeaf(index, k) \in 0 .. Half - 1
                           /\ AboveLeaf(index, k + 1) = AboveLeaf(index, k) \div 2
<1>1. Half \in Nat /\ index \in Nat
  BY HalfIsFour
<1>2. AboveLeaf(index, 0) = index
  <2>1. index \div 1 = index
    BY <1>1
  <2> QED
    BY <2>1, PowersOfTwo DEF AboveLeaf
<1>3. ASSUME NEW k \in Nat
      PROVE  /\ AboveLeaf(index, k) \in 0 .. Half - 1
             /\ AboveLeaf(index, k + 1) = AboveLeaf(index, k) \div 2
  <2>1. index \div Pow2[k] \in Nat /\ index \div Pow2[k + 1] = (index \div Pow2[k]) \div 2
    BY <1>1, NextQuotient
  <2>2. PICK p \in Nat \ {0} : p = Pow2[k]
    BY PowersOfTwo
  <2>3. PICK q \in Nat : q = index \div p /\ p * q <= index
    BY <1>1, <2>2, Quotient
  <2>4. q <= p * q
    <3>1. PICK e \in Nat : p = e + 1
      BY <2>2, p - 1 \in Nat /\ p = (p - 1) + 1
    <3>2. p * q = e * q + q /\ e * q \in Nat
      BY <2>3, <3>1
    <3> QED
      BY <2>3, <3>2
  <2>5. p * q \in Nat
    BY <2>2, <2>3
  <2>6. q \in 0 .. Half - 1
    BY <1>1, <2>3, <2>4, <2>5
  <2> QED
    BY <2>1, <2>2, <2>3, <2>6 DEF AboveLeaf
<1> QED
  BY <1>2, <1>3

\* The node beside another one has the same parent.
LEMMA BesideIs ==
  ASSUME NEW q \in 0 .. Half - 1
  PROVE  /\ Sibling(q) = Beside(q)
         /\ Beside(q) \in 0 .. Half - 1
         /\ ShiftRight(Sibling(q), 1) = q \div 2
         /\ IsOdd(Sibling(q)) <=> q % 2 = 0
         /\ q % 2 = 0 => q = 2 * (q \div 2) /\ Beside(q) = 2 * (q \div 2) + 1
         /\ q % 2 = 1 => q = 2 * (q \div 2) + 1 /\ Beside(q) = 2 * (q \div 2)
         /\ q % 2 \in {0, 1}
<1>1. PICK h \in Nat \ {0} : Half = 2 * h
  BY HalfIs
<1>2. q \in Nat /\ q < 2 * h
  BY <1>1
<1>3. q % 2 \in {0, 1} /\ q = 2 * (q \div 2) + (q % 2)
  BY <1>2
<1>4. Sibling(q) = Beside(q)
  BY BitOperators DEF Beside
<1>5. Beside(q) \in 0 .. Half - 1
  BY <1>1, <1>2, <1>3 DEF Beside
<1>6. Beside(q) \div 2 = q \div 2 /\ (Beside(q) % 2 = 1 <=> q % 2 = 0)
  BY <1>2, <1>3 DEF Beside
<1>7. ShiftRight(Sibling(q), 1) = q \div 2 /\ (IsOdd(Sibling(q)) <=> q % 2 = 0)
  BY <1>4, <1>5, <1>6, BitOperators
<1> QED
  BY <1>2, <1>3, <1>4, <1>5, <1>7 DEF Beside

\* What a witness is made of.
IsWitness(w, t, index, n) ==
  /\ w.leaf = getNode(t, n, index)
  /\ w.depth = n
  /\ w.nodes = [i \in 1 .. n |-> getNode(t, n - i + 1, Beside(AboveLeaf(index, i - 1)))]
  /\ \A i \in 1 .. n : w.path[i] <=> AboveLeaf(index, i - 1) % 2 = 0

\* witness is made of the nodes beside the path.
LEMMA WitnessNodes ==
  ASSUME NEW t, NEW n \in Nat, NEW index \in 0 .. Half - 1
  PROVE  IsWitness(witness(t, index, n), t, index, n)
<1>1. PICK f : /\ witness(t, index, n) = WitnessAlong(t, index, f, n)
               /\ \A i \in 0 .. n : f[i] = IF i = 0 THEN index ELSE ShiftRight(Sibling(f[i - 1]), 1)
  BY WitnessIs
<1>0. /\ AboveLeaf(index, 0) = index
      /\ \A k \in Nat : /\ AboveLeaf(index, k) \in 0 .. Half - 1
                        /\ AboveLeaf(index, k + 1) = AboveLeaf(index, k) \div 2
  BY AboveLeafIs
<1> DEFINE T == {k \in 0 .. n : f[k] = AboveLeaf(index, k)}
<1>2. 0 \in T
  BY <1>0, <1>1
<1>3. \A k \in T \cap 0 .. n - 1 : k + 1 \in T
  <2> SUFFICES ASSUME NEW k \in 0 .. n - 1, f[k] = AboveLeaf(index, k)
               PROVE  f[k + 1] = AboveLeaf(index, k + 1)
    OBVIOUS
  <2>1. k + 1 \in 0 .. n /\ k + 1 # 0 /\ k + 1 - 1 = k /\ k \in Nat
    OBVIOUS
  <2>2. f[k + 1] = ShiftRight(Sibling(f[k]), 1)
    BY <1>1, <2>1
  <2>3. f[k] \in 0 .. Half - 1 /\ AboveLeaf(index, k + 1) = f[k] \div 2
    BY <1>0, <2>1
  <2> QED
    BY <2>2, <2>3, BesideIs
<1>4. 0 .. n \subseteq T
  <2> HIDE DEF T
  <2> QED
    BY <1>2, <1>3, NumbersUpTo
<1>5. ASSUME NEW i \in 1 .. n
      PROVE  /\ Sibling(f[i - 1]) = Beside(AboveLeaf(index, i - 1))
             /\ IsOdd(Sibling(f[i - 1])) <=> AboveLeaf(index, i - 1) % 2 = 0
  <2>1. i - 1 \in 0 .. n /\ i - 1 \in Nat
    OBVIOUS
  <2>2. f[i - 1] = AboveLeaf(index, i - 1)
    BY <1>4, <2>1
  <2>3. AboveLeaf(index, i - 1) \in 0 .. Half - 1
    BY <2>1, AboveLeafIs
  <2> QED
    BY <2>2, <2>3, BesideIs
<1>6. /\ WitnessAlong(t, index, f, n).leaf = getNode(t, n, index)
      /\ WitnessAlong(t, index, f, n).depth = n
      /\ WitnessAlong(t, index, f, n).nodes = [i \in 1 .. n |-> getNode(t, n - i + 1, Sibling(f[i - 1]))]
      /\ WitnessAlong(t, index, f, n).path = [i \in 1 .. n |-> IsOdd(Sibling(f[i - 1]))]
  BY DEF WitnessAlong
<1>7. [i \in 1 .. n |-> getNode(t, n - i + 1, Sibling(f[i - 1]))] =
      [i \in 1 .. n |-> getNode(t, n - i + 1, Beside(AboveLeaf(index, i - 1)))]
  BY <1>5
<1>8. \A i \in 1 .. n : WitnessAlong(t, index, f, n).path[i] <=> AboveLeaf(index, i - 1) % 2 = 0
  BY <1>5, <1>6
<1> QED
  BY <1>1, <1>6, <1>7, <1>8 DEF IsWitness

\* What is hashed at each level from a leaf up, beside given nodes.
HashesAbove(f, leaf, index, nodes, n) ==
  /\ f[0] = leaf
  /\ \A i \in 1 .. n : f[i] = IF AboveLeaf(index, i - 1) % 2 = 1
                              THEN Hash2(nodes[i], f[i - 1]) ELSE Hash2(f[i - 1], nodes[i])

\* What computeRoot hashes at each level.
LEMMA ComputeRootAbove ==
  ASSUME NEW leaf, NEW index \in 0 .. Half - 1, NEW nodes, NEW n \in Nat, Len(nodes) = n
  PROVE  \E f : computeRoot(leaf, index, nodes) = f[n] /\ HashesAbove(f, leaf, index, nodes, n)
<1>0. PICK f : computeRoot(leaf, index, nodes) = f[n] /\ NodeByNode(f, leaf, index, nodes, n)
  BY ComputeRootIs
<1>1. /\ computeRoot(leaf, index, nodes) = f[n]
      /\ \A i \in 0 .. n : f[i] = IF i = 0 THEN leaf
                                 ELSE (IF IsOdd(ShiftRight(index, i - 1)) THEN Hash2(nodes[i], f[i - 1])
                                       ELSE Hash2(f[i - 1], nodes[i]))
  BY <1>0 DEF NodeByNode
<1>2. ASSUME NEW i \in 1 .. n
      PROVE  IsOdd(ShiftRight(index, i - 1)) <=> AboveLeaf(index, i - 1) % 2 = 1
  <2>1. i - 1 \in Nat
    OBVIOUS
  <2>2. ShiftRight(index, i - 1) = AboveLeaf(index, i - 1)
    BY <2>1, BitOperators DEF AboveLeaf
  <2>3. AboveLeaf(index, i - 1) \in 0 .. Half - 1
    BY <2>1, AboveLeafIs
  <2> QED
    BY <2>2, <2>3, BitOperators
<1>3. f[0] = leaf
  BY <1>1
<1>4. \A i \in 1 .. n : f[i] = IF AboveLeaf(index, i - 1) % 2 = 1 THEN Hash2(nodes[i], f[i - 1])
                               ELSE Hash2(f[i - 1], nodes[i])
  <2> TAKE i \in 1 .. n
  <2>1. i \in 0 .. n /\ i # 0
    OBVIOUS
  <2> QED
    BY <1>1, <1>2, <2>1
<1> QED
  BY <1>1, <1>3, <1>4 DEF HashesAbove

\* A node q of level i on the path of a leaf, the one beside it and the one above.
OnPath(M, n, index, i, q) ==
  /\ q \in 0 .. Pow2[n - i + 1] - 1
  /\ Beside(q) \in 0 .. Pow2[n - i + 1] - 1
  /\ AboveLeaf(index, i) \in 0 .. Pow2[n - i] - 1
  /\ M[n - i][AboveLeaf(index, i)] =
       IF q % 2 = 1 THEN Hash2(M[n - i + 1][Beside(q)], M[n - i + 1][q])
       ELSE Hash2(M[n - i + 1][q], M[n - i + 1][Beside(q)])

\* A node on the path of a leaf is the hash of the one below it and the one beside.
LEMMA PathHashes ==
  ASSUME NEW M, NEW n \in Nat, IsMerkle(M, n), NEW index \in 0 .. Pow2[n] - 1, index < Half,
         NEW i \in 1 .. n, NEW q, q = AboveLeaf(index, i - 1)
  PROVE  /\ q \in 0 .. Pow2[n - i + 1] - 1
         /\ Beside(q) \in 0 .. Pow2[n - i + 1] - 1
         /\ AboveLeaf(index, i) \in 0 .. Pow2[n - i] - 1
         /\ M[n - i][AboveLeaf(index, i)] =
              IF q % 2 = 1 THEN Hash2(M[n - i + 1][Beside(q)], M[n - i + 1][q])
              ELSE Hash2(M[n - i + 1][q], M[n - i + 1][Beside(q)])
<1>0. Half \in Nat /\ Pow2[n] \in Nat
  BY HalfIsFour, PowersOfTwo
<1>1. index \in 0 .. Half - 1 /\ index \in Nat
  BY <1>0
<1>2. i - 1 \in Nat /\ i - 1 + 1 = i /\ n - i \in Nat /\ n - i \in 0 .. n - 1 /\ n - i + 1 \in Nat
      /\ n = (n - i + 1) + (i - 1) /\ n = (n - i) + i /\ i \in Nat
  OBVIOUS
<1>3. q \in 0 .. Half - 1 /\ AboveLeaf(index, i) = q \div 2
  <2>1. AboveLeaf(index, i - 1) \in 0 .. Half - 1
        /\ AboveLeaf(index, (i - 1) + 1) = AboveLeaf(index, i - 1) \div 2
    BY <1>1, <1>2, AboveLeafIs
  <2> QED
    BY <1>2, <2>1
<1>4. AboveLeaf(index, i) \in 0 .. Pow2[n - i] - 1
  <2>1. PICK k \in Nat : k = n - i
    BY <1>2
  <2>2. index \in 0 .. Pow2[k + i] - 1
    BY <1>2, <2>1
  <2>3. index \div Pow2[i] \in 0 .. Pow2[k] - 1
    BY <1>2, <2>2, QuotientInLevel
  <2> QED
    BY <2>1, <2>3 DEF AboveLeaf
<1>5. PICK r \in Nat : r = q \div 2 /\ r \in 0 .. Pow2[n - i] - 1 /\ r = AboveLeaf(index, i)
  <2>1. Pow2[n - i] \in Nat
    BY <1>2, PowersOfTwo
  <2> QED
    BY <1>3, <1>4, <2>1
<1>6. /\ q % 2 \in {0, 1}
      /\ q % 2 = 0 => q = 2 * r /\ Beside(q) = 2 * r + 1
      /\ q % 2 = 1 => q = 2 * r + 1 /\ Beside(q) = 2 * r
  BY <1>3, <1>5, BesideIs
<1>7. 2 * r \in 0 .. Pow2[n - i + 1] - 1 /\ 2 * r + 1 \in 0 .. Pow2[n - i + 1] - 1
  BY <1>2, <1>5, ChildIndices
<1>8. M[n - i][r] = Hash2(M[n - i + 1][2 * r], M[n - i + 1][2 * r + 1])
  BY <1>2, <1>5 DEF IsMerkle
<1>9. CASE q % 2 = 0
  BY <1>5, <1>6, <1>7, <1>8, <1>9
<1>10. CASE q % 2 = 1
  BY <1>5, <1>6, <1>7, <1>8, <1>10
<1> QED
  BY <1>6, <1>9, <1>10

\* The same, by name.
LEMMA PathIs ==
  ASSUME NEW M, NEW n \in Nat, IsMerkle(M, n), NEW index \in 0 .. Pow2[n] - 1, index < Half,
         NEW i \in 1 .. n, NEW q, q = AboveLeaf(index, i - 1)
  PROVE  OnPath(M, n, index, i, q)
BY PathHashes DEF OnPath

\* A function on 1 .. n is a sequence of n elements.
LEMMA LenOfFunction ==
  ASSUME NEW n \in Nat, NEW f, f = [i \in 1 .. n |-> f[i]]
  PROVE  Len(f) = n /\ \E S : f \in Seq(S)
<1> DEFINE S == {f[i] : i \in 1 .. n}
<1>1. f \in [1 .. n -> S]
  OBVIOUS
<1> HIDE DEF S
<1>2. f \in Seq(S)
  BY <1>1
<1>3. Len(f) \in Nat /\ DOMAIN f = 1 .. Len(f) /\ DOMAIN f = 1 .. n
  BY <1>1, <1>2, LenProperties
<1>4. Len(f) = n
  BY <1>3
<1> QED
  BY <1>2, <1>4

\* The witness of a node proves it, to the client and from the bits of its index.
LEMMA WitnessProves ==
  ASSUME NEW t, NEW n \in Nat, IsTree(t, n), Couples(t), NEW level \in 1 .. n,
         NEW index \in 0 .. Pow2[level] - 1, index < Half
  PROVE  /\ checkInclusion(t, witness(t, index, level))
         /\ computeRoot(witness(t, index, level).leaf, index, witness(t, index, level).nodes) =
              treeRoot(t)
<1>0. Half \in Nat /\ Pow2[level] \in Nat /\ level \in Nat /\ t.depth = n
  BY HalfIsFour, PowersOfTwo DEF IsTree
<1>1. index \in 0 .. Half - 1
  BY <1>0
<1> DEFINE w == witness(t, index, level)
           N == NodesOf(t)
           q(i) == AboveLeaf(index, i)
<1>2. /\ w.leaf = getNode(t, level, index)
      /\ w.depth = level
      /\ w.nodes = [i \in 1 .. level |-> getNode(t, level - i + 1, Beside(q(i - 1)))]
      /\ \A i \in 1 .. level : w.path[i] <=> q(i - 1) % 2 = 0
  <2>1. IsWitness(witness(t, index, level), t, index, level)
    BY <1>0, <1>1, WitnessNodes
  <2> QED
    BY <2>1 DEF IsWitness
<1>3. IsMerkle(N, n) /\ \A l \in 0 .. n : \A i \in 0 .. Pow2[l] - 1 : N[l][i] = getNode(t, l, i)
  BY <1>0, CouplesHash
<1>4. IsMerkle(N, level)
  BY <1>3 DEF IsMerkle
<1> HIDE DEF w, N
<1>5. ASSUME NEW i \in 1 .. level
      PROVE  /\ getNode(t, level - i, q(i)) =
                  IF q(i - 1) % 2 = 1 THEN Hash2(w.nodes[i], getNode(t, level - i + 1, q(i - 1)))
                  ELSE Hash2(getNode(t, level - i + 1, q(i - 1)), w.nodes[i])
             /\ q(i - 1) % 2 \in {0, 1}
  <2>1. /\ q(i - 1) \in 0 .. Pow2[level - i + 1] - 1
        /\ Beside(q(i - 1)) \in 0 .. Pow2[level - i + 1] - 1
        /\ q(i) \in 0 .. Pow2[level - i] - 1
        /\ N[level - i][q(i)] =
             IF q(i - 1) % 2 = 1
             THEN Hash2(N[level - i + 1][Beside(q(i - 1))], N[level - i + 1][q(i - 1)])
             ELSE Hash2(N[level - i + 1][q(i - 1)], N[level - i + 1][Beside(q(i - 1))])
    BY <1>0, <1>4, PathHashes
  <2>2. level - i \in 0 .. n /\ level - i + 1 \in 0 .. n /\ i - 1 \in Nat
    OBVIOUS
  <2>3. q(i - 1) \in 0 .. Half - 1
    BY <1>1, <2>2, AboveLeafIs
  <2>4. q(i - 1) % 2 \in {0, 1}
    BY <2>3, BesideIs
  <2> HIDE DEF q
  <2>5. /\ N[level - i][q(i)] = getNode(t, level - i, q(i))
        /\ N[level - i + 1][q(i - 1)] = getNode(t, level - i + 1, q(i - 1))
        /\ N[level - i + 1][Beside(q(i - 1))] = w.nodes[i]
    BY <1>2, <1>3, <2>1, <2>2
  <2> QED
    BY <2>1, <2>4, <2>5
<1>6. q(0) = index /\ q(level) = 0 /\ level - level = 0
  <2>1. q(level) \in 0 .. Pow2[level - level] - 1
    <3>1. level \in 1 .. level
      BY <1>0
    <3> QED
      BY <1>0, <1>4, <3>1, PathHashes
  <2>2. level - level = 0 /\ Pow2[0] = 1
    BY <1>0, PowersOfTwo
  <2> QED
    <3>1. q(0) = index
      BY <1>1, AboveLeafIs
    <3> HIDE DEF q
    <3>2. q(level) = 0
      BY <2>1, <2>2
    <3> QED
      BY <2>2, <3>1, <3>2
<1> HIDE DEF q
<1>7. ASSUME NEW f, HashesAbove(f, w.leaf, index, w.nodes, level) PROVE f[level] = treeRoot(t)
  <2>0. /\ f[0] = w.leaf
        /\ \A i \in 1 .. level : f[i] = IF q(i - 1) % 2 = 1 THEN Hash2(w.nodes[i], f[i - 1])
                                         ELSE Hash2(f[i - 1], w.nodes[i])
    BY <1>7 DEF HashesAbove, q
  <2> DEFINE T == {k \in 0 .. level : f[k] = getNode(t, level - k, q(k))}
  <2>1. 0 \in T
    BY <1>0, <1>2, <1>6, <2>0
  <2>2. \A k \in T \cap 0 .. level - 1 : k + 1 \in T
    <3> SUFFICES ASSUME NEW k \in 0 .. level - 1, f[k] = getNode(t, level - k, q(k))
                 PROVE  f[k + 1] = getNode(t, level - (k + 1), q(k + 1))
      BY <1>0
    <3>1. k + 1 \in 1 .. level /\ k + 1 - 1 = k /\ level - (k + 1) + 1 = level - k
      BY <1>0
    <3> QED
      BY <1>5, <2>0, <3>1
  <2>3. 0 .. level \subseteq T
    <3> HIDE DEF T
    <3> QED
      BY <1>0, <2>1, <2>2, NumbersUpTo
  <2>4. f[level] = getNode(t, level - level, q(level))
    BY <1>0, <2>3
  <2> QED
    BY <1>6, <2>4 DEF treeRoot
<1>8. checkInclusion(t, w)
  <2>1. PICK f : /\ checkInclusion(t, w) = (f[level] = treeRoot(t))
                 /\ \A i \in 0 .. level : f[i] =
                      IF i = 0 THEN w.leaf
                      ELSE (IF w.path[i] THEN Hash2(f[i - 1], w.nodes[i])
                            ELSE Hash2(w.nodes[i], f[i - 1]))
    <3>1. w.depth = level /\ level \in Nat
      BY <1>0, <1>2
    <3>2. PICK v : v = w
      OBVIOUS
    <3>3. v.depth = level
      BY <3>1, <3>2
    <3>4. \E f : /\ checkInclusion(t, v) = (f[level] = treeRoot(t))
                 /\ \A i \in 0 .. level : f[i] =
                      IF i = 0 THEN v.leaf
                      ELSE (IF v.path[i] THEN Hash2(f[i - 1], v.nodes[i])
                            ELSE Hash2(v.nodes[i], f[i - 1]))
      BY <3>1, <3>3, InclusionIs
    <3> QED
      BY <3>2, <3>4
  <2>2. ASSUME NEW i \in 1 .. level
        PROVE  f[i] = IF q(i - 1) % 2 = 1 THEN Hash2(w.nodes[i], f[i - 1])
                      ELSE Hash2(f[i - 1], w.nodes[i])
    <3>1. i \in 0 .. level /\ i # 0
      OBVIOUS
    <3>2. w.path[i] <=> q(i - 1) % 2 # 1
      BY <1>2, <1>5
    <3> QED
      BY <2>1, <3>1, <3>2
  <2>3. f[0] = w.leaf
    BY <1>0, <2>1
  <2>4. f[level] = treeRoot(t)
    <3>1. HashesAbove(f, w.leaf, index, w.nodes, level)
      BY <2>2, <2>3 DEF HashesAbove, q
    <3> QED
      BY <1>7, <3>1
  <2> QED
    BY <2>1, <2>4
<1>9. computeRoot(w.leaf, index, w.nodes) = treeRoot(t)
  <2>1. Len(w.nodes) = level
    <3>1. w.nodes = [i \in 1 .. level |-> w.nodes[i]]
      BY <1>2
    <3> QED
      BY <1>0, <3>1, LenOfFunction
  <2>2. \E f : computeRoot(w.leaf, index, w.nodes) = f[level] /\
               HashesAbove(f, w.leaf, index, w.nodes, level)
    BY <1>0, <1>1, <2>1, ComputeRootAbove
  <2> QED
    BY <1>7, <2>2
<1> QED
  BY <1>8, <1>9 DEF w

\* In a tree whose couples are hashed every witness proves its node.
LEMMA AllWitnessesProve ==
  ASSUME NEW t, NEW n \in Nat \ {0}, n <= BitWidth, IsTree(t, n), Couples(t)
  PROVE  WitnessesProve(t)
<1>0. t.depth = n /\ Half \in Nat /\ BitWidth \in Nat
  BY HalfIsFour, BitWidthAssumption DEF IsTree
<1>1. SUFFICES ASSUME NEW level \in 1 .. n, NEW i \in 0 .. Pow2[level] - 1,
                      ToSigned((i + 1) * Pow2[n - level] - 1) >= 0
               PROVE  /\ checkInclusion(t, witness(t, i, level))
                      /\ computeRoot(witness(t, i, level).leaf, i, witness(t, i, level).nodes) =
                           treeRoot(t)
                      /\ IsAligned(i * Pow2[n - level], n - level)
                      /\ witness(t, i, level) = witnessForBatch(t, i * Pow2[n - level], n - level)
  BY <1>0 DEF WitnessesProve
<1>2. PICK k \in Nat : k = n - level /\ level + k = n /\ n - k = level /\ level \in Nat
  BY n - level \in Nat /\ level + (n - level) = n /\ n - (n - level) = level
<1>3. PICK p \in Nat \ {0} : p = Pow2[k]
  BY PowersOfTwo
<1>4. i \in Nat
  BY <1>2, PowersOfTwo
<1>5. PICK f \in Nat : f = i * p /\ (i + 1) * p - 1 = f + p - 1
  <2>1. i * p \in Nat /\ (i + 1) * p = i * p + p
    BY <1>3, <1>4
  <2> QED
    BY <1>3, <2>1
<1>6. f + p - 1 \in i * Pow2[k] .. i * Pow2[k] + Pow2[k] - 1 /\ f \in i * Pow2[k] .. i * Pow2[k] + Pow2[k] - 1
  BY <1>3, <1>5
<1>7. f + p - 1 \in 0 .. Pow2[BitWidth] - 1
  <2>1. f + p - 1 \in 0 .. Pow2[n] - 1
    BY <1>2, <1>6, BelowIsInLevel
  <2>2. Pow2[n] <= Pow2[BitWidth] /\ Pow2[n] \in Nat /\ Pow2[BitWidth] \in Nat
    BY <1>0, PowersGrow, PowersOfTwo
  <2> QED
    BY <2>1, <2>2
<1>8. f + p - 1 \in 0 .. Half - 1
  <2>1. ToSigned(f + p - 1) >= 0
    BY <1>1, <1>2, <1>3, <1>5
  <2> QED
    BY <1>7, <2>1, NotNegative
<1>9. f \in 0 .. Half - 1
  BY <1>0, <1>3, <1>5, <1>8
<1>10. i < Half
  <2>1. PICK e \in Nat : p = e + 1
    BY <1>3, p - 1 \in Nat /\ p = (p - 1) + 1
  <2>2. i * p = i * e + i /\ i * e \in Nat
    BY <1>4, <2>1
  <2> QED
    BY <1>0, <1>4, <1>5, <1>9, <2>2
<1>11. ShiftRight(f, k) = i /\ ShiftRight(f + p - 1, k) = i
  <2>1. f \div Pow2[k] = i /\ (f + p - 1) \div Pow2[k] = i
    BY <1>4, <1>6, QuotientOfBelow
  <2>2. ShiftRight(f, k) = f \div Pow2[k]
    BY <1>9, BitOperators
  <2>3. ShiftRight(f + p - 1, k) = (f + p - 1) \div Pow2[k]
    BY <1>8, BitOperators
  <2> QED
    BY <2>1, <2>2, <2>3
<1>12. /\ checkInclusion(t, witness(t, i, level))
       /\ computeRoot(witness(t, i, level).leaf, i, witness(t, i, level).nodes) = treeRoot(t)
  BY <1>10, WitnessProves
<1>13. IsAligned(f, k)
  BY <1>3, <1>11 DEF IsAligned
<1>14. witnessForBatch(t, f, k) = witness(t, i, level)
  BY <1>0, <1>2, <1>11 DEF witnessForBatch
<1> QED
  BY <1>2, <1>3, <1>5, <1>12, <1>13, <1>14

(***************************************************************************)
(* The tree of an engine: what is stored under its leaves.                 *)
(***************************************************************************)
\* The tree of a store, while the bit operators see its IDs as they are.
Holds(t, store) == Representable(store) => Couples(t) /\ HasLeaves(t, LeavesFor(store))

\* An ID the bit operators see as it is.
LEMMA SeenIDs ==
  ASSUME NEW id \in IDs
  PROVE  id \in Nat /\ id < Pow2[Depth] /\ (ToSigned(id) >= 0 => id < Half)
<1>1. Pow2[Depth] <= Pow2[BitWidth] /\ Pow2[Depth] \in Nat /\ Pow2[BitWidth] \in Nat
  BY StorageAssumption, BitWidthAssumption, PowersGrow, PowersOfTwo
<1>2. id \in 0 .. Pow2[BitWidth] - 1 /\ id \in Nat /\ id < Pow2[Depth]
  BY <1>1 DEF IDs
<1>3. ToSigned(id) >= 0 => id \in 0 .. Half - 1
  BY <1>2, NotNegative
<1> QED
  BY <1>2, <1>3, HalfIsFour

\* Putting an item keeps a store one.
LEMMA PutIsStore ==
  ASSUME NEW store, IsStore(store), NEW id \in IDs, NEW item \in Items
  PROVE  IsStore(Put(store, id, item))
BY DEF IsStore, Put

\* An item that is stored, and its leaf in the tree.
LEMMA StoredIsHeld ==
  ASSUME NEW t, IsTree(t, Depth), NEW store, IsStore(store), Holds(t, store),
         NEW id \in IDs, NEW item
  PROVE  /\ Representable(Put(store, id, item)) => LeavesSet(updateSingle(t, id, toLeaf(item)), t, Depth, id, <<toLeaf(item)>>)
         /\ Holds(updateSingle(t, id, toLeaf(item)), Put(store, id, item))
<1> DEFINE r == updateSingle(t, id, toLeaf(item))
           new == Put(store, id, item)
<1>0. Depth \in Nat \ {0}
  BY StorageAssumption
<1>1. DOMAIN new = DOMAIN store \cup {id} /\ \A x \in DOMAIN new : new[x] = IF x = id THEN item ELSE store[x]
  BY DEF Put
<1> HIDE DEF new
<1>2. ASSUME Representable(new)
      PROVE  /\ LeavesSet(r, t, Depth, id, <<toLeaf(item)>>)
             /\ Couples(r) /\ HasLeaves(r, LeavesFor(new))
  <2>1. Representable(store) /\ ToSigned(id) >= 0
    BY <1>1, <1>2 DEF Representable
  <2>2. id \in 0 .. Pow2[Depth] - 1 /\ id < Half /\ id \in Nat
    BY <2>1, SeenIDs DEF IDs
  <2>3. Couples(t) /\ HasLeaves(t, LeavesFor(store)) /\ t.depth = Depth
    BY <2>1 DEF Holds, IsTree
  <2>4. PICK leaf : leaf = toLeaf(item)
    OBVIOUS
  <2>5. LeavesSet(updateSingle(t, id, leaf), t, Depth, id, <<leaf>>)
    BY <1>0, <2>2, <2>3, UpdateSingleIs
  <2>6. LeavesSet(r, t, Depth, id, <<leaf>>)
    BY <2>4, <2>5
  <2>7. IsTree(r, Depth) /\ Couples(r)
    BY <2>6 DEF LeavesSet
  <2>8. ASSUME NEW i \in 0 .. Pow2[Depth] - 1
        PROVE  getNode(r, Depth, i) = IF i \in DOMAIN LeavesFor(new) THEN LeavesFor(new)[i] ELSE ZeroLeaf
    <3>1. getNode(r, Depth, i) = IF i = id THEN leaf ELSE getNode(t, Depth, i)
      <4>1. Len(<<leaf>>) = 1 /\ <<leaf>>[1] = leaf
        OBVIOUS
      <4>2. i \in id .. id + 1 - 1 <=> i = id
        BY <2>2
      <4>3. getNode(r, Depth, i) = IF i \in id .. id + Len(<<leaf>>) - 1
                                   THEN <<leaf>>[i - id + 1] ELSE getNode(t, Depth, i)
        BY <2>6 DEF LeavesSet
      <4>4. id - id + 1 = 1
        BY <2>2
      <4> QED
        BY <4>1, <4>2, <4>3, <4>4
    <3>2. getNode(t, Depth, i) =
            IF i \in DOMAIN LeavesFor(store) THEN LeavesFor(store)[i] ELSE ZeroLeaf
      BY <2>3 DEF HasLeaves
    <3>3. /\ DOMAIN LeavesFor(store) = DOMAIN store /\ DOMAIN LeavesFor(new) = DOMAIN new
          /\ \A x \in DOMAIN store : LeavesFor(store)[x] = toLeaf(store[x])
          /\ \A x \in DOMAIN new : LeavesFor(new)[x] = toLeaf(new[x])
      BY DEF LeavesFor
    <3> QED
      BY <1>1, <2>4, <3>1, <3>2, <3>3
  <2>9. r.depth = Depth
    BY <2>7 DEF IsTree
  <2> HIDE DEF r
  <2> QED
    BY <2>4, <2>6, <2>7, <2>8, <2>9 DEF HasLeaves
<1> QED
  BY <1>2 DEF Holds, new

\* What holds of the tree of a store.
LEMMA HeldIsHashed ==
  ASSUME NEW t, IsTree(t, Depth), NEW store, Holds(t, store), Representable(store)
  PROVE  Hashed(t, LeavesFor(store)) /\ WitnessesProve(t)
<1>1. t.depth = Depth /\ Depth \in Nat \ {0} /\ Depth <= BitWidth
  BY StorageAssumption DEF IsTree
<1>2. Couples(t) /\ HasLeaves(t, LeavesFor(store))
  BY DEF Holds
<1>3. Hashed(t, LeavesFor(store))
  BY <1>1, <1>2, TreeIsHashed
<1>4. WitnessesProve(t)
  BY <1>1, <1>2, AllWitnessesProve
<1> QED
  BY <1>3, <1>4

\* Below a node that is a zero nothing is stored.
LEMMA NothingBelowZero ==
  ASSUME NEW t, IsTree(t, Depth), NEW store, Holds(t, store), Representable(store),
         NEW depth \in 0 .. Depth, NEW path \in 0 .. Pow2[Depth - depth] - 1,
         isZero(t, Depth - depth, path)
  PROVE  Below(path, depth) \cap DOMAIN store = {}
<1>1. /\ t.depth = Depth /\ t.zeros = zeros(Depth) /\ Depth \in Nat
      /\ Couples(t) /\ HasLeaves(t, LeavesFor(store))
  BY StorageAssumption DEF IsTree, Holds
<1>2. PICK l \in 0 .. Depth : l = Depth - depth /\ Depth - l = depth
  BY <1>1, Depth - depth \in 0 .. Depth /\ Depth - (Depth - depth) = depth
<1>3. SUFFICES ASSUME NEW id \in DOMAIN store,
                      id \in path * Pow2[Depth - l] .. path * Pow2[Depth - l] + Pow2[Depth - l] - 1
               PROVE  FALSE
  BY <1>2 DEF Below, FirstOf
<1>4. id \in 0 .. Pow2[Depth] - 1 /\ getNode(t, Depth, id) = ZeroLeaf
  <2>1. path \in 0 .. Pow2[l] - 1 /\ isZero(t, l, path)
    BY <1>2
  <2> QED
    BY <1>1, <1>3, <2>1, ZeroBelow
<1>5. getNode(t, Depth, id) = toLeaf(store[id])
  BY <1>1, <1>4 DEF HasLeaves, LeavesFor
<1>6. \A x : toLeaf(x) # ZeroLeaf
  <2> SUFFICES ASSUME NEW x, toLeaf(x) = ZeroLeaf PROVE FALSE
    OBVIOUS
  <2>1. DOMAIN toLeaf(x) = {"item"} /\ DOMAIN ZeroLeaf = {"zero"}
    BY DEF toLeaf, ZeroLeaf
  <2> QED
    BY <2>1
<1> QED
  BY <1>4, <1>5, <1>6

(***************************************************************************)
(* The memory engine, for every tree, set of callers, batch and number of  *)
(* updates.  An item that is cached is the last one of its ID in the       *)
(* journal; and of the entries a lone commit has been through, the last    *)
(* one of each ID is what is stored.  At the end of the commit it has been *)
(* through all.                                                            *)
(***************************************************************************)
\* The journal is a sequence, and every task has its call.
Shapes ==
  /\ \E S : journal \in Seq(S)
  /\ calls = [t \in Tasks |-> calls[t]]
  /\ overlapped \in BOOLEAN /\ reverted \in BOOLEAN

\* Position i is the last one of its ID among the first n.
LastOf(i, n) == \A j \in i + 1 .. n : journal[j].itemID # journal[i].itemID

\* The cache holds, for the IDs in the journal, what was written last.
CacheIsJournal ==
  /\ \A i \in 1 .. Len(journal) : journal[i].itemID \in DOMAIN cache
  /\ \A id \in DOMAIN cache : \E i \in 1 .. Len(journal) :
       journal[i].itemID = id /\ journal[i].item = cache[id] /\ LastOf(i, Len(journal))

\* Commits run on the engine's journal itself, and are inside of it.
CommitsFollow ==
  \A t \in Committing : \E at \in 2 .. Len(journal) + 1 : calls[t] = InCommit(at)

\* A commit that runs alone has stored the last of what it has been through.
CommitHasStored ==
  \A t \in Committing : Committing = {t} =>
    \A i \in 1 .. calls[t].at - 1 :
      /\ journal[i].itemID \in DOMAIN items
      /\ LastOf(i, calls[t].at - 1) => items[journal[i].itemID] = journal[i].item

GetIsLatest ==
  /\ DOMAIN latest = DOMAIN cache \cup DOMAIN items
  /\ \A id \in DOMAIN latest : get(id) = latest[id]

Sound == CacheIsJournal /\ CommitsFollow /\ CommitHasStored /\ GetIsLatest

EngineInv == Shapes /\ (~overlapped /\ ~reverted => Sound)

\* The invariant holds of the empty engine.
LEMMA InitEngine == MemoryInit => EngineInv
<1> SUFFICES ASSUME MemoryInit PROVE EngineInv
  OBVIOUS
<1>1. journal \in Seq({}) /\ Len(journal) = 0 /\ Committing = {}
  BY DEF MemoryInit, Committing, NoCall
<1>2. DOMAIN cache = {} /\ DOMAIN items = {} /\ DOMAIN latest = {}
  BY DEF MemoryInit
<1>3. Shapes
  BY <1>1 DEF MemoryInit, Shapes
<1> QED
  BY <1>1, <1>2, <1>3 DEF MemoryInit, EngineInv, Sound, CacheIsJournal, CommitsFollow,
                    CommitHasStored, GetIsLatest

\* An update goes to the end of the journal, where running commits get to it.
LEMMA UpdateKeeps ==
  ASSUME EngineInv, NEW id, NEW item, Push(id, item),
         calls' = [t \in Tasks |-> calls'[t]], Committing' = Committing,
         \A t \in Committing : calls'[t] = calls[t]
  PROVE  EngineInv'
<1> DEFINE entry == [itemID |-> id, item |-> item]
<1>1. PICK S : journal \in Seq(S)
  BY DEF EngineInv, Shapes
<1>2. journal' \in Seq(S \cup {entry})
  <2>1. journal \in Seq(S \cup {entry}) /\ entry \in S \cup {entry}
    BY <1>1
  <2> QED
    BY <2>1 DEF Push
<1>3. /\ Len(journal) \in Nat /\ Len(journal') = Len(journal) + 1
      /\ \A i \in 1 .. Len(journal) : journal'[i] = journal[i]
      /\ journal'[Len(journal) + 1] = entry
  BY <1>1 DEF Push
<1>4. Shapes'
  BY <1>2 DEF Shapes, EngineInv, Push
<1>5. ASSUME ~overlapped, ~reverted
      PROVE  Sound'
  <2> USE <1>3
  <2>1. Sound
    BY <1>5 DEF EngineInv
  <2>2. /\ DOMAIN cache' = DOMAIN cache \cup {id} /\ cache'[id] = item
        /\ \A x \in DOMAIN cache : x # id => cache'[x] = cache[x]
        /\ DOMAIN latest' = DOMAIN latest \cup {id} /\ latest'[id] = item
        /\ \A x \in DOMAIN latest : x # id => latest'[x] = latest[x]
        /\ items' = items
    BY DEF Push, Put
  <2>3. CacheIsJournal'
    <3>1. ASSUME NEW i \in 1 .. Len(journal')
          PROVE  journal'[i].itemID \in DOMAIN cache'
      BY <2>1, <2>2, <3>1 DEF Sound, CacheIsJournal
    <3>2. ASSUME NEW x \in DOMAIN cache'
          PROVE  \E i \in 1 .. Len(journal') :
                   journal'[i].itemID = x /\ journal'[i].item = cache'[x] /\ LastOf(i, Len(journal))'
      <4>1. CASE x = id
        <5>1. Len(journal) + 1 \in 1 .. Len(journal')
          OBVIOUS
        <5> QED
          BY <2>2, <4>1, <5>1 DEF LastOf
      <4>2. CASE x # id
        <5>1. PICK i \in 1 .. Len(journal) :
                journal[i].itemID = x /\ journal[i].item = cache[x] /\ LastOf(i, Len(journal))
          BY <2>1, <2>2, <3>2, <4>2 DEF Sound, CacheIsJournal
        <5>2. \A j \in i + 1 .. Len(journal') : journal'[j].itemID # journal'[i].itemID
          BY <4>2, <5>1 DEF LastOf
        <5> QED
          BY <2>2, <3>2, <4>2, <5>1, <5>2 DEF LastOf
      <4> QED
        BY <4>1, <4>2
    <3> QED
      BY <3>1, <3>2 DEF CacheIsJournal
  <2>4. CommitsFollow'
    BY <2>1 DEF Sound, CommitsFollow
  <2>5. CommitHasStored'
    <3> SUFFICES ASSUME NEW t \in Committing, Committing = {t}, NEW i \in 1 .. calls[t].at - 1
                 PROVE  /\ journal'[i].itemID \in DOMAIN items
                        /\ LastOf(i, calls[t].at - 1)' => items[journal'[i].itemID] = journal'[i].item
      BY <2>2 DEF CommitHasStored
    <3>1. calls[t].at \in 2 .. Len(journal) + 1 /\ calls'[t] = calls[t]
      <4>1. PICK at \in 2 .. Len(journal) + 1 : calls[t] = InCommit(at)
        BY <2>1 DEF Sound, CommitsFollow
      <4> QED
        BY <4>1 DEF InCommit
    <3>2. i \in 1 .. Len(journal) /\ \A j \in i + 1 .. calls[t].at - 1 : j \in 1 .. Len(journal)
      BY <3>1
    <3>3. /\ journal[i].itemID \in DOMAIN items
          /\ LastOf(i, calls[t].at - 1) => items[journal[i].itemID] = journal[i].item
      BY <2>1 DEF Sound, CommitHasStored
    <3>4. LastOf(i, calls[t].at - 1)' => LastOf(i, calls[t].at - 1)
      BY <3>1, <3>2 DEF LastOf
    <3> QED
      BY <3>2, <3>3, <3>4
  <2>6. GetIsLatest'
    BY <2>1, <2>2 DEF Sound, GetIsLatest, get
  <2> QED
    BY <2>3, <2>4, <2>5, <2>6 DEF Sound
<1> QED
  BY <1>4, <1>5 DEF EngineInv, Push

\* An entry is stored: what is cached for its ID is not read from the items.
LEMMA EntryKeeps ==
  ASSUME EngineInv, NEW t \in Tasks, NEW at \in Nat \ {0}, CommitEntry(t, at, journal),
         ~overlapped /\ ~reverted =>
           \/ t \notin Committing /\ at = 1
           \/ t \in Committing /\ calls[t].at = at,
         calls' = [u \in Tasks |-> calls'[u]],
         Committing' = Committing \cup {t},
         calls'[t] = InCommit(at + 1),
         \A u \in Tasks \ {t} : calls'[u] = calls[u]
  PROVE  EngineInv'
<1>1. /\ Len(journal) \in Nat /\ at \in 1 .. Len(journal)
      /\ journal' = journal /\ cache' = cache /\ latest' = latest
      /\ overlapped' = overlapped /\ reverted' = reverted
  BY DEF EngineInv, Shapes, CommitEntry
<1>2. /\ DOMAIN items' = DOMAIN items \cup {journal[at].itemID}
      /\ items'[journal[at].itemID] = journal[at].item
      /\ \A x \in DOMAIN items : x # journal[at].itemID => items'[x] = items[x]
  BY DEF CommitEntry, trueUpdate, Put
<1>3. Shapes'
  BY <1>1 DEF EngineInv, Shapes
<1>4. ASSUME ~overlapped, ~reverted
      PROVE  Sound'
  <2> USE <1>1
  <2>1. Sound
    BY <1>4 DEF EngineInv
  <2>2. CacheIsJournal'
    BY <2>1 DEF Sound, CacheIsJournal, LastOf
  <2>3. CommitsFollow'
    BY <2>1 DEF Sound, CommitsFollow, Committing
  <2>4. CommitHasStored'
    <3> SUFFICES ASSUME NEW u \in Committing', Committing' = {u}, NEW i \in 1 .. calls'[u].at - 1
                 PROVE  /\ journal[i].itemID \in DOMAIN items'
                        /\ (\A j \in i + 1 .. calls'[u].at - 1 :
                              journal[j].itemID # journal[i].itemID)
                             => items'[journal[i].itemID] = journal[i].item
      BY DEF CommitHasStored, LastOf
    <3>0. t \in Committing'
      OBVIOUS
    <3>a. calls'[t].at = at + 1
      BY DEF InCommit
    <3>b. u = t
      BY <3>0
    <3>1. u = t /\ i \in 1 .. at /\ calls'[t].at = at + 1
      BY <3>a, <3>b
    <3>2. CASE i = at
      BY <1>2, <3>2
    <3>3. CASE i < at
      <4>1. t \in Committing /\ Committing = {t} /\ calls[t].at = at
        BY <1>4, <3>1, <3>3
      <4>2. /\ journal[i].itemID \in DOMAIN items
            /\ LastOf(i, at - 1) => items[journal[i].itemID] = journal[i].item
        BY <2>1, <3>1, <3>3, <4>1 DEF Sound, CommitHasStored
      <4> QED
        BY <1>2, <3>1, <3>3, <4>2 DEF LastOf
    <3> QED
      BY <3>1, <3>2, <3>3
  <2>5. GetIsLatest'
    <3>1. journal[at].itemID \in DOMAIN cache
      BY <2>1 DEF Sound, CacheIsJournal
    <3> QED
      BY <1>2, <2>1, <3>1 DEF Sound, GetIsLatest, get
  <2> QED
    BY <2>2, <2>3, <2>4, <2>5 DEF Sound
<1> QED
  BY <1>1, <1>3, <1>4 DEF EngineInv

\* The end of a lone commit leaves nothing to read but what it stored.
LEMMA EndKeeps ==
  ASSUME EngineInv, NEW t \in Tasks, NEW at \in Nat \ {0}, CommitEnd(t, at, journal),
         ~overlapped /\ ~reverted =>
           \/ t \notin Committing /\ at = 1
           \/ t \in Committing /\ calls[t].at = at
  PROVE  EngineInv'
<1>1. /\ Len(journal) \in Nat /\ at > Len(journal) /\ items' = items /\ latest' = latest
      /\ journal' = << >> /\ Len(journal') = 0 /\ DOMAIN cache' = {} /\ reverted' = reverted
      /\ overlapped' = (overlapped \/ Committing \ {t} # {})
  BY DEF EngineInv, Shapes, CommitEnd
<1>2. Shapes'
  <2>1. journal' \in Seq({})
    BY <1>1
  <2>2. calls' = [u \in Tasks |-> calls'[u]]
    BY DEF CommitEnd, Detached
  <2>3. overlapped' \in BOOLEAN /\ reverted' \in BOOLEAN
    BY <1>1 DEF EngineInv, Shapes
  <2> QED
    BY <2>1, <2>2, <2>3 DEF Shapes
<1>3. ASSUME ~overlapped', ~reverted'
      PROVE  Sound'
  <2>0. ~overlapped /\ ~reverted /\ Committing \ {t} = {}
    BY <1>1, <1>3 DEF EngineInv, Shapes
  <2>1. Sound /\ Committing \subseteq {t}
    BY <2>0 DEF EngineInv
  <2>2. Committing' = {}
    <3>1. \A u \in Tasks \ {t} : calls'[u] = calls[u] /\ u \notin Committing
      BY <2>1 DEF CommitEnd, Detached, EngineInv, Shapes
    <3>2. calls'[t] = NoCall
      BY DEF CommitEnd, Detached
    <3> QED
      BY <3>1, <3>2 DEF Committing, NoCall
  <2>3. ASSUME NEW x \in DOMAIN cache
        PROVE  x \in DOMAIN items /\ items[x] = cache[x]
    <3>1. PICK i \in 1 .. Len(journal) :
            journal[i].itemID = x /\ journal[i].item = cache[x] /\ LastOf(i, Len(journal))
      BY <2>1, <2>3 DEF Sound, CacheIsJournal
    <3>2. t \in Committing /\ calls[t].at = at /\ Committing = {t}
      BY <1>1, <2>0, <2>1, <3>1
    <3>3. i \in 1 .. at - 1 /\ at - 1 = Len(journal)
      <4>1. PICK n \in 2 .. Len(journal) + 1 : calls[t] = InCommit(n)
        BY <2>1, <3>2 DEF Sound, CommitsFollow
      <4> QED
        BY <1>1, <3>1, <3>2, <4>1 DEF InCommit
    <3> QED
      BY <2>1, <3>1, <3>2, <3>3 DEF Sound, CommitHasStored
  <2>4. GetIsLatest'
    BY <1>1, <2>1, <2>3 DEF Sound, GetIsLatest, get
  <2> QED
    BY <1>1, <2>2, <2>4 DEF Sound, CacheIsJournal, CommitsFollow, CommitHasStored
<1> QED
  BY <1>2, <1>3 DEF EngineInv

\* One step of each operation.
LEMMA EngineKept == EngineInv /\ [MemoryNext]_memoryVars => EngineInv'
<1> SUFFICES ASSUME EngineInv, [MemoryNext]_memoryVars PROVE EngineInv'
  OBVIOUS
<1>0. calls = [t \in Tasks |-> calls[t]]
  BY DEF EngineInv, Shapes
<1>1. ASSUME NEW id, NEW item, update(id, item) PROVE EngineInv'
  <2>1. /\ Push(id, item) /\ Committing' = Committing
        /\ calls' = [t \in Tasks |-> calls'[t]]
        /\ \A t \in Committing : calls'[t] = calls[t]
    BY <1>0, <1>1 DEF update, Committing
  <2> QED
    BY <2>1, UpdateKeeps
<1>2. ASSUME NEW checkpoint \in 0 .. MaxUpdates, revert(checkpoint) PROVE EngineInv'
  <2>1. Shapes'
    <3>1. PICK S : journal \in Seq(S)
      BY DEF EngineInv, Shapes
    <3>2. journal' \in Seq(S)
      BY <1>2, <3>1 DEF revert
    <3>3. calls' = [t \in Tasks |-> calls'[t]]
      BY <1>2 DEF revert, Detached
    <3>4. overlapped' \in BOOLEAN /\ reverted' \in BOOLEAN
      BY <1>2 DEF revert, EngineInv, Shapes
    <3> QED
      BY <3>2, <3>3, <3>4 DEF Shapes
  <2>2. ~overlapped' /\ ~reverted' => Sound'
    <3> SUFFICES ASSUME ~overlapped', ~reverted' PROVE Sound'
      OBVIOUS
    <3>1. PICK S : journal \in Seq(S)
      BY DEF EngineInv, Shapes
    <3>2. ~overlapped /\ ~reverted /\ Committing = {} /\ ~(checkpoint < Len(journal))
      BY <1>2 DEF revert, EngineInv, Shapes
    <3>3. checkpoint = Len(journal)
      BY <1>2, <3>1, <3>2, StorageAssumption DEF revert
    <3>4. journal' = journal
      BY <1>2, <3>1, <3>3, SubSeqFull DEF revert
    <3>5. Committing' = {}
      BY <1>0, <1>2, <3>2 DEF revert, Detached, Committing
    <3>6. Sound
      BY <3>2 DEF EngineInv
    <3>8. cache' = cache
      BY <1>2 DEF revert
    <3>7. CacheIsJournal => CacheIsJournal'
      BY <3>4, <3>8, SMTT(20) DEF CacheIsJournal, LastOf
    <3> QED
      BY <1>2, <3>4, <3>5, <3>6, <3>7
      DEF revert, Sound, CommitsFollow, CommitHasStored, GetIsLatest, get
  <2> QED
    BY <2>1, <2>2 DEF EngineInv
<1>3. ASSUME NEW t \in Tasks, commit(t) PROVE EngineInv'
  <2>1. t \notin Committing
    BY <1>3 DEF commit, Committing, NoCall
  <2>2. CASE CommitEntry(t, 1, journal) /\ calls' = [calls EXCEPT ![t] = InCommit(2)]
    <3>1. /\ calls'[t] = InCommit(1 + 1) /\ calls' = [u \in Tasks |-> calls'[u]]
          /\ \A u \in Tasks \ {t} : calls'[u] = calls[u]
      BY <1>0, <2>2
    <3>2. Committing' = Committing \cup {t}
      BY <3>1 DEF Committing, InCommit
    <3> QED
      <4> DEFINE at == 1
      <4>1. at \in Nat \ {0} /\ CommitEntry(t, at, journal)
        BY <2>2
      <4>2. calls'[t] = InCommit(at + 1)
        BY <3>1
      <4>3. t \notin Committing /\ at = 1
        BY <2>1
      <4> HIDE DEF at
      <4> QED
        BY <2>1, <3>1, <3>2, <4>1, <4>2, <4>3, EntryKeeps
  <2>3. CASE CommitEnd(t, 1, journal)
    BY <2>1, <2>3, EndKeeps
  <2> QED
    BY <1>3, <2>2, <2>3 DEF commit
<1>4. ASSUME NEW t \in Tasks, CommitStep(t) PROVE EngineInv'
  <2>1. t \in Committing
    BY <1>4 DEF CommitStep
  <2>2. CASE ~overlapped /\ ~reverted
    <3>1. PICK at \in 2 .. Len(journal) + 1 : calls[t] = InCommit(at)
      BY <2>1, <2>2 DEF EngineInv, Sound, CommitsFollow
    <3>2. ArrayOf(t) = journal /\ calls[t].at = at /\ at \in Nat \ {0}
      BY <3>1 DEF ArrayOf, InCommit, EngineInv, Shapes
    <3>3. CASE CommitEntry(t, calls[t].at, ArrayOf(t)) /\ calls' = [calls EXCEPT ![t].at = @ + 1]
      <4>1. /\ calls'[t] = InCommit(at + 1) /\ calls' = [u \in Tasks |-> calls'[u]]
            /\ \A u \in Tasks \ {t} : calls'[u] = calls[u]
        <5>1. calls' = [calls EXCEPT ![t] = [@ EXCEPT !.at = calls[t].at + 1]]
          BY <3>3
        <5>2. calls'[t] = [InCommit(at) EXCEPT !.at = at + 1]
          BY <1>0, <3>1, <3>2, <5>1
        <5>3. [InCommit(at) EXCEPT !.at = at + 1] = InCommit(at + 1)
          <6> DEFINE fields == {"op", "at", "shared", "array"}
                     r == InCommit(at)
                     s == InCommit(at + 1)
          <6>1. /\ r = [f \in fields |-> r[f]] /\ s = [f \in fields |-> s[f]]
                /\ s.op = r.op /\ s.shared = r.shared /\ s.array = r.array /\ s.at = at + 1
            BY DEF InCommit
          <6>2. [r EXCEPT !.at = at + 1] = [f \in fields |-> IF f = "at" THEN at + 1 ELSE r[f]]
            BY <6>1
          <6>3. \A f \in fields : s[f] = IF f = "at" THEN at + 1 ELSE r[f]
            BY <6>1
          <6>4. [r EXCEPT !.at = at + 1] = s
            <7> HIDE DEF r, s
            <7> QED
              BY <6>1, <6>2, <6>3
          <6> QED
            BY <6>4
        <5> QED
          BY <1>0, <5>1, <5>2, <5>3
      <4>2. Committing' = Committing \cup {t}
        BY <2>1, <4>1 DEF Committing, InCommit
      <4>3. CommitEntry(t, at, journal)
        BY <3>2, <3>3
      <4> QED
        BY <2>1, <3>2, <4>1, <4>2, <4>3, EntryKeeps
    <3>4. CASE CommitEnd(t, calls[t].at, ArrayOf(t))
      BY <2>1, <3>2, <3>4, EndKeeps
    <3> QED
      BY <1>4, <3>3, <3>4 DEF CommitStep
  <2>3. CASE overlapped \/ reverted
    <3>1. overlapped' \/ reverted'
      BY <1>4, <2>3 DEF CommitStep, CommitEntry, CommitEnd, EngineInv, Shapes
    <3>2. Shapes'
      <4>1. (\E S : journal \in Seq(S)) /\ << >> \in Seq({})
        BY DEF EngineInv, Shapes
      <4>2. (\E S : journal \in Seq(S))'
        BY <1>4, <4>1 DEF CommitStep, CommitEntry, CommitEnd
      <4>3. calls' = [u \in Tasks |-> calls'[u]]
        BY <1>0, <1>4 DEF CommitStep, CommitEnd, Detached
      <4>4. overlapped' \in BOOLEAN /\ reverted' \in BOOLEAN
        BY <1>4 DEF CommitStep, CommitEntry, CommitEnd, EngineInv, Shapes
      <4> QED
        BY <4>2, <4>3, <4>4 DEF Shapes
    <3> QED
      BY <3>1, <3>2 DEF EngineInv
  <2> QED
    BY <2>2, <2>3 DEF EngineInv, Shapes
<1>5. ASSUME NEW t \in Tasks, NEW id, NEW batch, BatchFrom(t, id, batch), t \notin Committing
      PROVE  EngineInv'
  <2>1. /\ calls' = [u \in Tasks |-> calls'[u]] /\ calls'[t].op # "commit"
        /\ \A u \in Tasks \ {t} : calls'[u] = calls[u]
    BY <1>0, <1>5 DEF BatchFrom, NoCall, InBatch
  <2>2. Committing' = Committing /\ \A u \in Committing : calls'[u] = calls[u]
    BY <1>5, <2>1 DEF Committing
  <2> QED
    BY <1>5, <2>1, <2>2, UpdateKeeps DEF BatchFrom
<1>6. CASE UNCHANGED memoryVars
  <2>1. /\ journal' = journal /\ calls' = calls /\ cache' = cache /\ items' = items
        /\ latest' = latest /\ overlapped' = overlapped /\ reverted' = reverted
        /\ Committing' = Committing
    BY <1>6 DEF memoryVars, Committing
  <2>2. CacheIsJournal => CacheIsJournal'
    BY <2>1 DEF CacheIsJournal, LastOf
  <2>3. CommitHasStored => CommitHasStored'
    BY <2>1 DEF CommitHasStored, LastOf
  <2>4. CommitsFollow /\ GetIsLatest => CommitsFollow' /\ GetIsLatest'
    BY <2>1 DEF CommitsFollow, GetIsLatest, get
  <2>5. Shapes'
    BY <2>1 DEF EngineInv, Shapes
  <2> QED
    BY <2>1, <2>2, <2>3, <2>4, <2>5 DEF EngineInv, Sound
<1> QED
  <2>1. ASSUME NEW t \in Tasks, NEW batch, NEW depth, NEW path, updateSubtree(t, path, depth, batch)
        PROVE  EngineInv'
    <3>1. t \notin Committing /\ BatchFrom(t, FirstOf(path, depth), batch)
      BY <2>1 DEF updateSubtree, Committing, NoCall
    <3> QED
      BY <1>5, <3>1
  <2>2. ASSUME NEW t \in Tasks, BatchStep(t) PROVE EngineInv'
    <3>1. t \notin Committing /\ BatchFrom(t, calls[t].itemID, calls[t].batch)
      BY <2>2 DEF BatchStep, Committing
    <3> QED
      BY <1>5, <3>1
  <2> QED
    BY <1>1, <1>2, <1>3, <1>4, <1>6, <2>1, <2>2 DEF MemoryNext, create

\* An update is read back until the next one of its ID, before, during and
\* after a commit, however tasks interleave, while no two commits overlap and
\* nothing is reverted (memoryEngine.ts:31-72).
THEOREM UpdatesAreKept == MemorySpec => []NoUpdateLost
<1>1. EngineInv => NoUpdateLost
  BY DEF EngineInv, Sound, GetIsLatest, NoUpdateLost
<1> QED
  BY InitEngine, EngineKept, <1>1, PTL DEF MemorySpec

(***************************************************************************)
(* The memory engine's tree, for every depth the bit operators have room   *)
(* for: it is the tree of the committed items whatever commits interleave. *)
(***************************************************************************)
\* The calls that are under way: a commit at an entry, and a batch whose rest
\* fits into the tree.
CommitCalls == [op : {"commit"}, at : Nat, shared : BOOLEAN, array : Seq(Entries)]
BatchCalls == [op : {"updateBatch"}, itemID : IDs, batch : Seq(Items)]
InCall(call) ==
  \/ call = NoCall
  \/ call \in CommitCalls /\ call.at >= 1
  \/ call \in BatchCalls /\ call.batch # << >> /\ call.itemID + Len(call.batch) <= Pow2[Depth]

StoresFit ==
  /\ IsStore(items) /\ IsStore(cache) /\ IsStore(latest) /\ journal \in Seq(Entries)
  /\ made \in 0 .. MaxUpdates /\ overlapped \in BOOLEAN /\ reverted \in BOOLEAN
CallsFit ==
  /\ calls = [t \in Tasks |-> calls[t]]
  /\ \A t \in Tasks : InCall(calls[t])

TreeIsOfItems == IsTree(tree, Depth) /\ Holds(tree, items)

MemoryInv == StoresFit /\ CallsFit /\ TreeIsOfItems

\* Writing one leaf leaves a tree one, whatever the bit operators make of its
\* index.
LEMMA SingleIsTree ==
  ASSUME NEW n \in Nat, NEW t, IsTree(t, n), NEW index, NEW leaf
  PROVE  IsTree(updateSingle(t, index, leaf), n)
<1> DEFINE w == SetNode(t, n, index, leaf)
           start == [tree |-> w, offset |-> index, len |-> 1]
<1>1. IsTree(w, n) /\ w.depth = n
  BY SetNodeIs DEF IsTree
<1>2. updateSingle(t, index, leaf) = ascend(w, index, 1)
  BY DEF updateSingle, IsTree
<1>3. PICK f : /\ ascend(w, index, 1) = f[0].tree
               /\ \A i \in 0 .. n : f[i] = IF i = n THEN start ELSE AscendLevel(f[i + 1], i + 1)
  <2>1. \E f : /\ ascend(w, index, 1) = f[0].tree
               /\ \A i \in 0 .. n : f[i] = IF i = n THEN [tree |-> w, offset |-> index, len |-> 1]
                                           ELSE AscendLevel(f[i + 1], i + 1)
    <3> HIDE DEF w
    <3> QED
      BY <1>1, AscendIs
  <2> QED
    BY <2>1
<1> HIDE DEF w
<1> DEFINE T == {k \in 0 .. n : IsTree(f[n - k].tree, n) /\ f[n - k].len = 1}
<1>4. 0 \in T
  BY <1>1, <1>3, n - 0 = n
<1>5. \A k \in T \cap 0 .. n - 1 : k + 1 \in T
  <2> SUFFICES ASSUME NEW k \in T, k \in 0 .. n - 1 PROVE k + 1 \in T
    OBVIOUS
  <2> DEFINE l == n - (k + 1)
  <2>1. l \in 0 .. n /\ l # n /\ n - k = l + 1
    OBVIOUS
  <2>2. PICK s : s = f[l + 1] /\ IsTree(s.tree, n) /\ s.len = 1
    BY <2>1
  <2> HIDE DEF l
  <2>3. f[l] = AscendLevel(s, l + 1)
    BY <1>3, <2>1, <2>2
  <2> DEFINE down == IF IsOdd(s.offset) THEN 1 ELSE 0
             len == (1 + down) + ((1 + down) % 2)
             o == s.offset - down
  <2>4. len = 2 /\ len \div 2 = 1
    OBVIOUS
  <2>5. ShiftRight(2, 1) = 1
    <3>1. 2 \in 0 .. Half - 1 /\ 2 \div 2 = 1
      BY HalfIsFour
    <3> QED
      BY <3>1, BitOperators
  <2>6. AscendLevel(s, l + 1) =
          [tree |-> updateCouples(s.tree, l + 1, o, len \div 2),
           offset |-> ShiftRight(o, 1), len |-> ShiftRight(len, 1)]
    BY <2>2 DEF AscendLevel, EvenLength
  <2> HIDE DEF o, len, down
  <2>7. f[l].tree = updateCouples(s.tree, l + 1, o, 1) /\ f[l].len = 1
    BY <2>3, <2>4, <2>5, <2>6
  <2>8. IsTree(updateCouples(s.tree, l + 1, o, 1), n)
    <3>1. PICK u, x, v : u = s.tree /\ x = l + 1 /\ v = o
      OBVIOUS
    <3>a. PICK one \in Nat : one = 1
      OBVIOUS
    <3>b. PICK g : updateCouples(u, x, v, one) = g[one] /\ CoupleByCouple(g, u, x, v, one)
      BY <3>a, CouplesAre
    <3>2. /\ updateCouples(u, x, o, 1) = g[1]
          /\ \A i \in 0 .. 1 : g[i] = IF i = 0 THEN u ELSE updateCouple(g[i - 1], x, o + 2 * (i - 1))
      BY <3>1, <3>a, <3>b DEF CoupleByCouple
    <3>3. PICK y, z : y = o + 2 * (1 - 1) /\ g[1] = updateCouple(u, x, y) /\ z = coupleOf(u, x, y)
      BY <3>2, 1 - 1 = 0
    <3>4. g[1] = SetNode(u, x - 1, ShiftRight(y, 1), z)
      BY <3>3 DEF updateCouple
    <3>5. IsTree(u, n)
      BY <2>2, <3>1
    <3> QED
      BY <3>1, <3>2, <3>4, <3>5, SetNodeIs
  <2> QED
    BY <2>1, <2>7, <2>8 DEF l
<1>6. n \in T
  <2> HIDE DEF T
  <2>1. 0 .. n \subseteq T
    BY <1>4, <1>5, NumbersUpTo
  <2> QED
    BY <2>1
<1> QED
  BY <1>2, <1>3, <1>6, n - n = 0

\* The parts of the type invariant.
LEMMA MemoryInvTyped == MemoryInv => MemoryTypeOK
<1> SUFFICES ASSUME MemoryInv PROVE MemoryTypeOK
  OBVIOUS
<1>1. tree.depth = Depth
  BY DEF MemoryInv, TreeIsOfItems, IsTree
<1>2. calls \in [Tasks -> {NoCall} \cup CommitCalls \cup BatchCalls]
  <2>1. \A t \in Tasks : calls[t] \in {NoCall} \cup CommitCalls \cup BatchCalls
    BY DEF MemoryInv, CallsFit, InCall
  <2> QED
    BY <2>1 DEF MemoryInv, CallsFit
<1> QED
  BY <1>1, <1>2 DEF MemoryInv, StoresFit, MemoryTypeOK, CommitCalls, BatchCalls

\* The empty engine has an empty tree.
LEMMA EmptyTreeHolds ==
  ASSUME NEW t, t = NewTree(Depth), NEW store, store = << >>
  PROVE  IsTree(t, Depth) /\ Holds(t, store) /\ IsStore(store)
<1>1. DOMAIN store = {} /\ store \in [{} -> Items]
  OBVIOUS
<1>2. Depth \in Nat /\ IsTree(NewTree(Depth), Depth) /\ Couples(NewTree(Depth))
      /\ \A l, i : getNode(NewTree(Depth), l, i) = zeros(Depth)[l]
  BY StorageAssumption, NewTreeIs
<1>3. zeros(Depth)[Depth] = ZeroLeaf
  <2>1. \A i \in 0 .. Depth : zeros(Depth)[i] =
          IF i = Depth THEN ZeroLeaf ELSE Hash2(zeros(Depth)[i + 1], zeros(Depth)[i + 1])
    BY <1>2, ZerosAre
  <2>2. Depth \in 0 .. Depth
    BY <1>2
  <2> QED
    BY <2>1, <2>2
<1>4. t.depth = Depth /\ DOMAIN LeavesFor(store) = {}
  BY <1>1, <1>2 DEF IsTree, LeavesFor
<1>5. HasLeaves(t, LeavesFor(store))
  BY <1>2, <1>3, <1>4 DEF HasLeaves
<1> QED
  BY <1>1, <1>2, <1>5 DEF Holds, IsStore

\* The invariant holds of the empty engine.
LEMMA MemoryInvInit == MemoryInit => MemoryInv
<1> SUFFICES ASSUME MemoryInit PROVE MemoryInv
  OBVIOUS
<1>1. TreeIsOfItems /\ IsStore(<< >>)
  BY EmptyTreeHolds DEF MemoryInit, TreeIsOfItems
<1>2. journal \in Seq(Entries) /\ made \in 0 .. MaxUpdates
  BY StorageAssumption DEF MemoryInit
<1>3. CallsFit
  BY DEF MemoryInit, CallsFit, InCall
<1> QED
  BY <1>1, <1>2, <1>3 DEF MemoryInit, MemoryInv, StoresFit

\* An update that is pushed.
LEMMA PushFits ==
  ASSUME MemoryInv, NEW id \in IDs, NEW item \in Items, Push(id, item)
  PROVE  StoresFit' /\ TreeIsOfItems'
<1>1. IsStore(cache') /\ IsStore(latest')
  BY PutIsStore DEF MemoryInv, StoresFit, Push
<1>2. journal' \in Seq(Entries)
  BY DEF MemoryInv, StoresFit, Push, Entries
<1>3. made' \in 0 .. MaxUpdates
  BY StorageAssumption DEF MemoryInv, StoresFit, Push
<1> QED
  BY <1>1, <1>2, <1>3 DEF MemoryInv, StoresFit, TreeIsOfItems, Push

\* An update of a batch, and what is left of the batch.
LEMMA BatchFits ==
  ASSUME MemoryInv, NEW t \in Tasks, NEW id \in IDs, NEW batch \in Seq(Items), batch # << >>,
         id + Len(batch) <= Pow2[Depth], BatchFrom(t, id, batch)
  PROVE  MemoryInv'
<1>1. Len(batch) \in Nat \ {0} /\ batch[1] \in Items /\ Pow2[Depth] \in Nat /\ id \in Nat
  <2>1. Len(batch) \in Nat \ {0} /\ 1 \in 1 .. Len(batch)
    BY EmptySeq
  <2>2. batch[1] \in Items
    BY <2>1
  <2>3. Pow2[Depth] \in Nat
    BY StorageAssumption, PowersOfTwo
  <2> QED
    BY <2>1, <2>2, <2>3 DEF IDs
<1>2. StoresFit' /\ TreeIsOfItems'
  BY <1>1, PushFits DEF BatchFrom
<1>3. InCall(IF Len(batch) = 1 THEN NoCall ELSE InBatch(id + 1, Tail(batch)))
  <2>1. CASE Len(batch) = 1
    BY <2>1 DEF InCall
  <2>2. CASE Len(batch) # 1
    <3>1. Tail(batch) \in Seq(Items) /\ Len(Tail(batch)) = Len(batch) - 1 /\ Tail(batch) # << >>
      <4>1. Tail(batch) \in Seq(Items) /\ Len(Tail(batch)) = Len(batch) - 1
        BY HeadTailProperties
      <4>2. Len(Tail(batch)) # 0
        BY <1>1, <2>2, <4>1
      <4> QED
        BY <4>1, <4>2, EmptySeq
    <3>2. id + 1 \in IDs /\ id + 1 + Len(Tail(batch)) <= Pow2[Depth]
      BY <1>1, <2>2, <3>1 DEF IDs
    <3>3. InBatch(id + 1, Tail(batch)) \in BatchCalls
      BY <3>1, <3>2 DEF InBatch, BatchCalls
    <3>4. InBatch(id + 1, Tail(batch)).itemID = id + 1 /\ InBatch(id + 1, Tail(batch)).batch = Tail(batch)
      BY DEF InBatch
    <3> QED
      BY <2>2, <3>1, <3>2, <3>3, <3>4 DEF InCall
  <2> QED
    BY <2>1, <2>2
<1>4. CallsFit'
  <2> DEFINE next == IF Len(batch) = 1 THEN NoCall ELSE InBatch(id + 1, Tail(batch))
  <2>1. calls' = [calls EXCEPT ![t] = next] /\ InCall(next)
    BY <1>3 DEF BatchFrom
  <2> HIDE DEF next
  <2>2. \A u \in Tasks : calls'[u] = IF u = t THEN next ELSE calls[u]
    BY <2>1 DEF MemoryInv, CallsFit
  <2>3. calls' = [u \in Tasks |-> calls'[u]]
    BY <2>1 DEF MemoryInv, CallsFit
  <2>4. \A u \in Tasks : InCall(calls'[u])
    BY <2>1, <2>2 DEF MemoryInv, CallsFit
  <2> QED
    BY <2>3, <2>4 DEF CallsFit, InCall
<1> QED
  BY <1>2, <1>4 DEF MemoryInv

\* An entry that is stored, at a place of the array a commit goes through.
LEMMA EntryFits ==
  ASSUME MemoryInv, NEW t \in Tasks, NEW array \in Seq(Entries), NEW at \in Nat \ {0},
         CommitEntry(t, at, array)
  PROVE  StoresFit' /\ TreeIsOfItems'
<1>1. PICK id \in IDs, item \in Items : id = array[at].itemID /\ item = array[at].item
  <2>1. at \in 1 .. Len(array)
    BY DEF CommitEntry
  <2>2. array[at] \in Entries
    BY <2>1
  <2> QED
    BY <2>2 DEF Entries
<1>2. items' = Put(items, id, item) /\ tree' = updateSingle(tree, id, toLeaf(item))
  BY <1>1 DEF CommitEntry, trueUpdate
<1>3. IsStore(items')
  BY <1>2, PutIsStore DEF MemoryInv, StoresFit
<1>4. Holds(tree', items')
  BY <1>2, StoredIsHeld DEF MemoryInv, StoresFit, TreeIsOfItems
<1>5. IsTree(tree', Depth)
  BY <1>2, SingleIsTree, StorageAssumption DEF MemoryInv, TreeIsOfItems
<1> QED
  BY <1>3, <1>4, <1>5 DEF MemoryInv, StoresFit, TreeIsOfItems, CommitEntry

\* A commit's call at its next entry, and the calls whose array is put aside.
LEMMA CommitCallFits ==
  ASSUME NEW call \in CommitCalls, NEW at \in Nat \ {0}, NEW array \in Seq(Entries)
  PROVE  /\ InCall([call EXCEPT !.at = at])
         /\ call.at \in Nat /\ call.shared \in BOOLEAN /\ call.array \in Seq(Entries)
         /\ call.at >= 1 => InCall([call EXCEPT !.shared = FALSE, !.array = array])
<1>1. /\ [call EXCEPT !.at = at] \in CommitCalls /\ [call EXCEPT !.at = at].at = at
      /\ call.at \in Nat /\ call.shared \in BOOLEAN /\ call.array \in Seq(Entries)
  BY DEF CommitCalls
<1>2. /\ [call EXCEPT !.shared = FALSE, !.array = array] \in CommitCalls
      /\ [call EXCEPT !.shared = FALSE, !.array = array].at = call.at
  BY DEF CommitCalls
<1> QED
  BY <1>1, <1>2 DEF InCall

\* A call is one of the kinds its name says.
LEMMA CallKinds ==
  ASSUME CallsFit, NEW t \in Tasks
  PROVE  /\ t \in Committing => calls[t] \in CommitCalls /\ calls[t].at >= 1
         /\ calls[t].op = "updateBatch" =>
              calls[t] \in BatchCalls /\ calls[t].batch # << >>
              /\ calls[t].itemID + Len(calls[t].batch) <= Pow2[Depth]
<1>1. InCall(calls[t])
  BY DEF CallsFit
<1>2. \A c \in CommitCalls : c.op = "commit"
  BY DEF CommitCalls
<1>3. \A c \in BatchCalls : c.op = "updateBatch"
  BY DEF BatchCalls
<1>4. NoCall.op = "none"
  BY DEF NoCall
<1> QED
  BY <1>1, <1>2, <1>3, <1>4 DEF InCall, Committing

\* Commits that are put on arrays of their own.
LEMMA DetachedFits ==
  ASSUME MemoryInv
  PROVE  \A t \in Tasks : InCall(Detached[t])
<1> TAKE t \in Tasks
<1>1. InCall(calls[t]) /\ journal \in Seq(Entries)
  BY DEF MemoryInv, CallsFit, StoresFit
<1>2. Detached[t] = IF t \in Committing /\ calls[t].shared
                    THEN [calls[t] EXCEPT !.shared = FALSE, !.array = journal] ELSE calls[t]
  BY DEF Detached
<1>3. CASE t \in Committing /\ calls[t].shared
  <2>1. calls[t] \in CommitCalls /\ calls[t].at >= 1
    BY <1>3, CallKinds DEF MemoryInv
  <2>2. InCall([calls[t] EXCEPT !.shared = FALSE, !.array = journal])
    <3>1. PICK call \in CommitCalls, at \in Nat \ {0} : call = calls[t] /\ at = 1 /\ call.at >= 1
      BY <2>1
    <3>2. InCall([call EXCEPT !.shared = FALSE, !.array = journal])
      BY <1>1, <3>1, CommitCallFits
    <3> QED
      BY <3>1, <3>2
  <2> QED
    BY <1>2, <1>3, <2>2
<1> QED
  BY <1>1, <1>2, <1>3

\* The end of a commit.
LEMMA EndFits ==
  ASSUME MemoryInv, NEW t \in Tasks, NEW at, NEW array, CommitEnd(t, at, array)
  PROVE  MemoryInv'
<1>1. IsStore(<< >>) /\ << >> \in Seq(Entries)
  BY EmptyTreeHolds
<1>2. StoresFit' /\ TreeIsOfItems'
  BY <1>1 DEF MemoryInv, StoresFit, TreeIsOfItems, CommitEnd
<1>3. \A u \in Tasks : InCall(Detached[u])
  BY DetachedFits
<1>4. calls' = [u \in Tasks |-> IF u = t THEN NoCall ELSE Detached[u]]
  BY DEF CommitEnd, Detached
<1>5. InCall(NoCall)
  BY DEF InCall
<1>6. CallsFit'
  <2>1. \A u \in Tasks : InCall(calls'[u])
    BY <1>3, <1>4, <1>5
  <2>2. calls' = [u \in Tasks |-> calls'[u]]
    BY <1>4
  <2> QED
    BY <2>1, <2>2 DEF CallsFit, InCall
<1> QED
  BY <1>2, <1>6 DEF MemoryInv

\* One call changes and is one that fits.
LEMMA OneCallFits ==
  ASSUME CallsFit, NEW t \in Tasks, NEW call, InCall(call), calls' = [calls EXCEPT ![t] = call]
  PROVE  CallsFit'
<1>1. \A u \in Tasks : calls'[u] = IF u = t THEN call ELSE calls[u]
  BY DEF CallsFit
<1>2. calls' = [u \in Tasks |-> calls'[u]]
  BY DEF CallsFit
<1>3. \A u \in Tasks : InCall(calls'[u])
  BY <1>1 DEF CallsFit
<1> QED
  BY <1>2, <1>3 DEF CallsFit, InCall

\* A commit that begins, and one that goes on.
LEMMA CommitFits ==
  ASSUME MemoryInv, NEW t \in Tasks, commit(t) \/ CommitStep(t)
  PROVE  MemoryInv'
<1>0. journal \in Seq(Entries) /\ CallsFit
  BY DEF MemoryInv, StoresFit
<1>1. CASE CommitEntry(t, 1, journal) /\ calls' = [calls EXCEPT ![t] = InCommit(2)]
  <2>1. PICK at \in Nat \ {0} : at = 1
    OBVIOUS
  <2>2. StoresFit' /\ TreeIsOfItems'
    BY <1>0, <1>1, <2>1, EntryFits
  <2>3. InCall(InCommit(2))
    <3>1. << >> \in Seq(Entries) /\ 2 \in Nat
      OBVIOUS
    <3>2. InCommit(2) \in CommitCalls /\ InCommit(2).at = 2
      BY <3>1 DEF InCommit, CommitCalls
    <3> QED
      BY <3>2 DEF InCall
  <2>4. CallsFit'
    BY <1>0, <1>1, <2>3, OneCallFits
  <2> QED
    BY <2>2, <2>4 DEF MemoryInv
<1>2. CASE CommitEnd(t, 1, journal)
  BY <1>2, EndFits
<1>3. CASE /\ t \in Committing
           /\ CommitEntry(t, calls[t].at, ArrayOf(t))
           /\ calls' = [calls EXCEPT ![t].at = @ + 1]
  <2>1. calls[t] \in CommitCalls /\ calls[t].at >= 1
    BY <1>0, <1>3, CallKinds
  <2>2. PICK at \in Nat \ {0}, array \in Seq(Entries) : at = calls[t].at /\ array = ArrayOf(t)
    <3>1. calls[t].at \in Nat \ {0} /\ calls[t].array \in Seq(Entries)
      BY <2>1 DEF CommitCalls
    <3> QED
      BY <1>0, <3>1 DEF ArrayOf
  <2>3. StoresFit' /\ TreeIsOfItems'
    BY <1>3, <2>2, EntryFits
  <2>4. PICK next \in Nat \ {0} : next = calls[t].at + 1
    BY <2>2
  <2>5. InCall([calls[t] EXCEPT !.at = next])
    <3>1. << >> \in Seq(Entries)
      OBVIOUS
    <3> QED
      BY <2>1, <3>1, CommitCallFits
  <2>6. calls' = [calls EXCEPT ![t] = [calls[t] EXCEPT !.at = next]]
    BY <1>3, <2>4
  <2>7. CallsFit'
    BY <1>0, <2>5, <2>6, OneCallFits
  <2> QED
    BY <2>3, <2>7 DEF MemoryInv
<1>4. CASE CommitEnd(t, calls[t].at, ArrayOf(t))
  BY <1>4, EndFits
<1> QED
  BY <1>1, <1>2, <1>3, <1>4 DEF commit, CommitStep

\* A revert cuts the journal.
LEMMA RevertFits ==
  ASSUME MemoryInv, NEW checkpoint \in 0 .. MaxUpdates, revert(checkpoint)
  PROVE  MemoryInv'
<1>1. journal' \in Seq(Entries)
  <2>1. checkpoint \in Nat /\ checkpoint <= Len(journal) /\ journal \in Seq(Entries)
    BY StorageAssumption DEF revert, MemoryInv, StoresFit
  <2>2. \A i \in 1 .. checkpoint : journal[i] \in Entries
    BY <2>1
  <2>3. SubSeq(journal, 1, checkpoint) \in Seq(Entries)
    BY <2>1, <2>2, SubSeqProperties
  <2> QED
    BY <2>3 DEF revert
<1>2. StoresFit' /\ TreeIsOfItems'
  <2>1. reverted' \in BOOLEAN
    BY DEF revert, MemoryInv, StoresFit
  <2> QED
    BY <1>1, <2>1 DEF revert, MemoryInv, StoresFit, TreeIsOfItems
<1>3. CallsFit'
  <2>1. \A t \in Tasks : InCall(calls'[t])
    BY DetachedFits DEF revert
  <2>2. calls' = [t \in Tasks |-> calls'[t]]
    BY DEF revert, Detached
  <2> QED
    BY <2>1, <2>2 DEF CallsFit, InCall
<1> QED
  BY <1>2, <1>3 DEF MemoryInv

\* A batch fits below the node whose subtree it is for.
LEMMA BatchBelow ==
  ASSUME NEW depth \in 0 .. Depth, NEW path \in 0 .. Pow2[Depth - depth] - 1, NEW n \in Nat \ {0},
         n <= Pow2[depth]
  PROVE  FirstOf(path, depth) \in IDs /\ FirstOf(path, depth) + n <= Pow2[Depth]
<1>1. PICK l \in Nat : l = Depth - depth /\ l + depth = Depth /\ depth \in Nat
  BY StorageAssumption, Depth - depth \in Nat /\ (Depth - depth) + depth = Depth
<1>2. PICK p \in Nat \ {0}, q \in Nat \ {0} : p = Pow2[l] /\ q = Pow2[depth] /\ Pow2[Depth] = p * q
  <2>1. Pow2[l] \in Nat \ {0} /\ Pow2[depth] \in Nat \ {0}
    BY <1>1, PowersOfTwo
  <2>2. Pow2[l + depth] = Pow2[l] * Pow2[depth]
    BY <1>1, PowerOfSum
  <2> QED
    BY <1>1, <2>1, <2>2
<1>3. path \in Nat /\ path + 1 <= p
  BY <1>1, <1>2
<1>4. PICK d \in Nat : p = path + 1 + d
  BY <1>3, p - (path + 1) \in Nat /\ p = path + 1 + (p - (path + 1))
<1>5. p * q = path * q + q + d * q /\ path * q \in Nat /\ d * q \in Nat
  BY <1>2, <1>3, <1>4
<1>6. path * q + n <= p * q /\ path * q < p * q
  BY <1>2, <1>5
<1> QED
  BY <1>2, <1>5, <1>6 DEF FirstOf, IDs

\* One step of each operation.
LEMMA MemoryInvKept == MemoryInv /\ [MemoryNext]_memoryVars => MemoryInv'
<1> SUFFICES ASSUME MemoryInv, [MemoryNext]_memoryVars PROVE MemoryInv'
  OBVIOUS
<1>1. ASSUME NEW id \in UsedIDs, NEW item \in Items, update(id, item) PROVE MemoryInv'
  <2>1. id \in IDs
    BY StorageAssumption DEF IDs
  <2>2. StoresFit' /\ TreeIsOfItems'
    BY <1>1, <2>1, PushFits DEF update
  <2>3. CallsFit'
    BY <1>1 DEF update, MemoryInv, CallsFit
  <2> QED
    BY <2>2, <2>3 DEF MemoryInv
<1>2. ASSUME NEW t \in Tasks, BatchStep(t) PROVE MemoryInv'
  <2>1. PICK id \in IDs, batch \in Seq(Items) :
          /\ id = calls[t].itemID /\ batch = calls[t].batch /\ batch # << >>
          /\ id + Len(batch) <= Pow2[Depth]
    BY <1>2, CallKinds DEF BatchStep, MemoryInv, BatchCalls
  <2>2. BatchFrom(t, id, batch)
    BY <1>2, <2>1 DEF BatchStep
  <2> QED
    BY <2>1, <2>2, BatchFits
<1>3. ASSUME NEW t \in Tasks, NEW batch \in Batches, NEW depth \in 0 .. Depth,
             NEW path \in 0 .. Pow2[Depth - depth] - 1, Len(batch) <= Pow2[depth],
             updateSubtree(t, path, depth, batch)
      PROVE  MemoryInv'
  <2>1. batch \in Seq(Items) /\ batch # << >>
    BY StorageAssumption
  <2>2. PICK n \in Nat \ {0} : n = Len(batch)
    BY <2>1, EmptySeq
  <2>3. PICK id : id = FirstOf(path, depth)
    OBVIOUS
  <2>4. id \in IDs /\ id + Len(batch) <= Pow2[Depth]
    BY <1>3, <2>2, <2>3, BatchBelow
  <2>5. BatchFrom(t, id, batch)
    BY <1>3, <2>3 DEF updateSubtree
  <2> QED
    BY <2>1, <2>4, <2>5, BatchFits
<1>4. CASE UNCHANGED memoryVars
  BY <1>4 DEF memoryVars, MemoryInv, StoresFit, CallsFit, TreeIsOfItems
<1> QED
  BY <1>1, <1>2, <1>3, <1>4, CommitFits, RevertFits DEF MemoryNext, create

(* The types of the engine, for every depth: an ID that is stored is one   *)
(* the tree has, whichever batch it came with (memoryEngine.ts:92-101).    *)
THEOREM MemoryTypes == MemorySpec => []MemoryTypeOK
BY MemoryInvInit, MemoryInvKept, MemoryInvTyped, PTL DEF MemorySpec

(* The tree is the Merkle tree of the committed items and its witnesses    *)
(* prove them, whatever commits interleave (memoryTree.ts:174-194).        *)
THEOREM MemoryTreeIsOfItems == MemorySpec => []MemoryTreeHolds
<1>1. MemoryInv => MemoryTreeHolds
  BY HeldIsHashed DEF MemoryInv, TreeIsOfItems, MemoryTreeHolds
<1> QED
  BY <1>1, MemoryInvInit, MemoryInvKept, PTL DEF MemorySpec

\* A subtree that is found vacant has nothing stored in it, nor waiting.
LEMMA VacantHasNothing == MemoryInv /\ EngineInv => VacantIsVacant
<1> SUFFICES ASSUME MemoryInv, EngineInv, ~overlapped, ~reverted, Representable(latest),
                    NEW depth \in 0 .. Depth, NEW path \in VacantSubtrees(depth)
             PROVE  Below(path, depth) \cap DOMAIN latest = {}
  BY DEF VacantIsVacant
<1>1. DOMAIN latest = DOMAIN cache \cup DOMAIN items
  BY DEF EngineInv, Sound, GetIsLatest
<1>2. Representable(items)
  BY <1>1 DEF Representable
<1>3. path \in 0 .. Pow2[Depth - depth] - 1 /\ isZero(tree, Depth - depth, path)
      /\ Below(path, depth) \cap DOMAIN cache = {}
  BY DEF VacantSubtrees, Vacant
<1>4. Below(path, depth) \cap DOMAIN items = {}
  BY <1>2, <1>3, NothingBelowZero DEF MemoryInv, TreeIsOfItems
<1> QED
  BY <1>1, <1>3, <1>4

(* What findVacantSubtree finds is vacant: no item, committed, half        *)
(* committed or waiting, lies where deposits would be stored, for every    *)
(* tree and every interleaving of commits with updates                     *)
(* (memoryEngine.ts:74-101).                                               *)
THEOREM FoundIsVacant == MemorySpec => []VacantIsVacant
BY VacantHasNothing, MemoryInvInit, MemoryInvKept, InitEngine, EngineKept, PTL DEF MemorySpec

(***************************************************************************)
(* The database engine, row by row: of a lone update the one couple that   *)
(* is not hashed is the one it is at.                                      *)
(***************************************************************************)
\* An update under way, and the rest of its batch.
OfItem(u) ==
  /\ u.itemID \in IDs /\ u.batch \in Seq(Items) \ {<< >>}
  /\ u.itemID + Len(u.batch) <= Pow2[Depth]
IsUpdate(u) ==
  \/ u = Idle
  \/ u.step \in {"leaf", "node", "root"} /\ OfItem(u)
  \/ u.step \in {"left", "right", "parent"} /\ OfItem(u) /\ u.level \in 1 .. Depth

RowsFit ==
  /\ IsStore(leafDB)
  /\ \A p \in DOMAIN nodeDB : p[1] \in 0 .. Depth
  /\ updates = [t \in Tasks |-> updates[t]]
  /\ \A t \in Tasks : IsUpdate(updates[t])
  /\ updated \in 0 .. MaxRows
  /\ {raced, interrupted, restarted} \subseteq BOOLEAN

\* Every couple is hashed but one.
CouplesBut(rows, level, i) ==
  \A k \in 1 .. Depth : \A m \in 0 .. Pow2[k - 1] - 1 :
    CoupleHolds(rows, k, m) \/ (k = level /\ m = i)

\* Where a lone update is, and what it has read.
IsAt(u) ==
  /\ u.index = AboveLeaf(u.itemID, Depth - u.level)
  /\ u.itemID \in DOMAIN leafDB
  /\ HasLeaves(dbTree, LeavesFor(leafDB))
  /\ CouplesBut(dbTree, u.level, u.index \div 2)
LoneUpdate(u) ==
  \/ u.step \in {"leaf", "root"} /\ Couples(dbTree) /\ HasLeaves(dbTree, LeavesFor(leafDB))
  \/ /\ u.step = "node"
     /\ u.itemID \in DOMAIN leafDB /\ leafDB[u.itemID] = Head(u.batch)
     /\ Couples(dbTree)
     /\ \A i \in 0 .. Pow2[Depth] - 1 : i # u.itemID =>
          getNode(dbTree, Depth, i) =
            IF i \in DOMAIN LeavesFor(leafDB) THEN LeavesFor(leafDB)[i] ELSE ZeroLeaf
  \/ u.step = "left" /\ IsAt(u) /\ u.read = << >>
  \/ u.step = "right" /\ IsAt(u) /\ u.read = <<getNode(dbTree, u.level, 2 * (u.index \div 2))>>
  \/ u.step = "parent" /\ IsAt(u)
     /\ u.read[1] = getNode(dbTree, u.level, 2 * (u.index \div 2))
     /\ u.read[2] = getNode(dbTree, u.level, 2 * (u.index \div 2) + 1)

RowsHold ==
  ~ raced /\ ~ interrupted =>
    /\ \A t, s \in Updating : t = s
    /\ Representable(leafDB) => \A t \in Updating : LoneUpdate(updates[t])
    /\ Updating = {} => Holds(dbTree, leafDB) /\ (restarted \/ root = treeRoot(dbTree))

DatabaseInv == RowsFit /\ RowsHold

\* The types of the engine are those of the invariant.
LEMMA DatabaseInvTyped == DatabaseInv => DatabaseTypeOK
<1> SUFFICES ASSUME DatabaseInv PROVE DatabaseTypeOK
  OBVIOUS
<1>1. \A t \in Updating : updates[t].step \in {"leaf", "node", "left", "right", "parent", "root"}
  <2> TAKE t \in Updating
  <2>1. t \in Tasks /\ updates[t] # Idle
    BY DEF Updating
  <2>2. IsUpdate(updates[t])
    BY <2>1 DEF DatabaseInv, RowsFit
  <2> QED
    BY <2>1, <2>2 DEF IsUpdate
<1> QED
  BY <1>1 DEF DatabaseInv, RowsFit, DatabaseTypeOK

\* The rows of a new database are a new tree.
LEMMA DatabaseTreeIs ==
  /\ IsTree(dbTree, Depth) /\ dbTree.depth = Depth /\ dbTree.nodes = nodeDB
  /\ Depth \in Nat \ {0}
<1>1. dbTree = [depth |-> Depth, zeros |-> zeros(Depth), nodes |-> nodeDB]
  BY DEF dbTree, Zeros
<1>2. dbTree.depth = Depth /\ dbTree.nodes = nodeDB
  BY <1>1
<1> QED
  BY <1>1, <1>2, StorageAssumption DEF IsTree

\* A row that is written is a node that is set.
LEMMA RowIsNode ==
  ASSUME NEW level, NEW index, NEW node, nodeDB' = Put(nodeDB, <<level, index>>, node)
  PROVE  /\ \A k, j : getNode(dbTree', k, j) = IF k = level /\ j = index THEN node ELSE getNode(dbTree, k, j)
         /\ (\A p \in DOMAIN nodeDB : p[1] \in 0 .. Depth) /\ level \in 0 .. Depth =>
              \A p \in DOMAIN nodeDB' : p[1] \in 0 .. Depth
<1>1. dbTree = [depth |-> Depth, zeros |-> zeros(Depth), nodes |-> nodeDB]
      /\ dbTree' = [depth |-> Depth, zeros |-> zeros(Depth), nodes |-> nodeDB']
  BY DEF dbTree, Zeros
<1>2. nodeDB' = [p \in DOMAIN nodeDB \cup {<<level, index>>} |->
                   IF p = <<level, index>> THEN node ELSE nodeDB[p]]
  BY DEF Put
<1>3. dbTree' = SetNode(dbTree, level, index, node)
  BY <1>1, <1>2 DEF SetNode
<1>4. \A k, j : getNode(SetNode(dbTree, level, index, node), k, j) =
        IF k = level /\ j = index THEN node ELSE getNode(dbTree, k, j)
  BY DatabaseTreeIs, SetNodeIs
<1>5. ASSUME \A p \in DOMAIN nodeDB : p[1] \in 0 .. Depth, level \in 0 .. Depth,
             NEW p \in DOMAIN nodeDB'
      PROVE  p[1] \in 0 .. Depth
  <2>1. p \in DOMAIN nodeDB \/ p = <<level, index>>
    BY <1>2
  <2>2. <<level, index>>[1] = level
    OBVIOUS
  <2> QED
    BY <1>5, <2>1, <2>2
<1> QED
  BY <1>3, <1>4, <1>5

\* The engine begins with no rows.
LEMMA DatabaseInvInit == DatabaseInit => DatabaseInv
<1> SUFFICES ASSUME DatabaseInit PROVE DatabaseInv
  OBVIOUS
<1>1. leafDB = << >> /\ nodeDB = << >> /\ root = treeRoot(NewTree(Depth)) /\ updated = 0
      /\ updates = [t \in Tasks |-> Idle] /\ raced = FALSE /\ interrupted = FALSE /\ restarted = FALSE
  BY DEF DatabaseInit
<1>2. DOMAIN leafDB = {} /\ DOMAIN nodeDB = {}
  BY <1>1
<1>3. IsStore(leafDB)
  BY <1>2 DEF IsStore
<1>4. Updating = {}
  BY <1>1 DEF Updating
<1>5. RowsFit
  <2>1. updates = [t \in Tasks |-> updates[t]] /\ \A t \in Tasks : IsUpdate(updates[t])
    BY <1>1 DEF IsUpdate
  <2>2. updated \in 0 .. MaxRows
    BY <1>1, RowsAssumption
  <2>3. {raced, interrupted, restarted} \subseteq BOOLEAN
    BY <1>1
  <2>4. \A p \in DOMAIN nodeDB : p[1] \in 0 .. Depth
    BY <1>2
  <2> QED
    BY <1>3, <2>1, <2>2, <2>3, <2>4 DEF RowsFit
<1>6. dbTree = NewTree(Depth)
  BY <1>1 DEF dbTree, Zeros, NewTree
<1>7. Holds(dbTree, leafDB)
  <2>1. LeavesFor(leafDB) = << >> \/ DOMAIN LeavesFor(leafDB) = {}
    BY <1>2 DEF LeavesFor
  <2> QED
    BY <1>1, <1>6, EmptyTreeHolds
<1>8. RowsHold
  BY <1>1, <1>4, <1>6, <1>7 DEF RowsHold
<1> QED
  BY <1>5, <1>8 DEF DatabaseInv

\* An update at one of its steps.
LEMMA UpdateIs ==
  ASSUME RowsFit, NEW t \in Tasks, NEW step, At(t, step)
  PROVE  /\ t \in Updating /\ updates[t].step = step /\ IsUpdate(updates[t]) /\ updates[t] # Idle
         /\ OfItem(updates[t])
         /\ step \in {"left", "right", "parent"} => updates[t].level \in 1 .. Depth
<1>1. t \in Updating /\ updates[t].step = step /\ IsUpdate(updates[t]) /\ updates[t] # Idle
  BY DEF At, Updating, RowsFit
<1> QED
  BY <1>1 DEF IsUpdate

\* One update goes on; what a lone one leaves behind it holds.
LEMMA RowsGo ==
  ASSUME RowsFit, RowsHold, NEW t \in Updating, NEW v, Goes(t, v), IsUpdate(v),
         UNCHANGED <<raced, interrupted>>,
         ~ raced /\ ~ interrupted /\ Representable(leafDB') =>
           (IF v = Idle THEN Couples(dbTree') /\ HasLeaves(dbTree', LeavesFor(leafDB')) ELSE LoneUpdate(v)'),
         v = Idle => restarted' \/ root' = treeRoot(dbTree')
  PROVE  /\ RowsHold'
         /\ updates' = [x \in Tasks |-> updates'[x]] /\ \A x \in Tasks : IsUpdate(updates'[x])
<1>1. t \in Tasks /\ updates' = [x \in Tasks |-> IF x = t THEN v ELSE updates[x]]
  BY DEF Updating, Goes, RowsFit
<1>2. updates' = [x \in Tasks |-> updates'[x]] /\ \A x \in Tasks : IsUpdate(updates'[x])
  BY <1>1 DEF RowsFit
<1>3. SUFFICES ASSUME ~ raced', ~ interrupted'
               PROVE  /\ \A x, y \in Updating' : x = y
                      /\ Representable(leafDB') => \A x \in Updating' : LoneUpdate(updates[x])'
                      /\ Updating' = {} => Holds(dbTree', leafDB') /\ (restarted' \/ root' = treeRoot(dbTree'))
  BY <1>2 DEF RowsHold
<1>4. \A x \in Updating : x = t
  BY <1>3 DEF RowsHold
<1>5. Updating' = IF v = Idle THEN {} ELSE {t}
  <2>1. ASSUME NEW x \in Tasks, x # t PROVE updates'[x] = Idle
    BY <1>1, <1>4, <2>1 DEF Updating
  <2>2. updates'[t] = v
    BY <1>1
  <2> QED
    BY <1>1, <2>1, <2>2 DEF Updating
<1>6. updates'[t] = v
  BY <1>1
<1>7. CASE v = Idle
  BY <1>3, <1>5, <1>7 DEF Holds
<1>8. CASE v # Idle
  <2>1. \A x \in Updating' : x = t
    BY <1>5, <1>8
  <2>2. ASSUME Representable(leafDB') PROVE LoneUpdate(updates[t])'
    <3>1. LoneUpdate(v)'
      BY <1>3, <1>8, <2>2
    <3> QED
      BY <1>6, <3>1 DEF LoneUpdate, IsAt
  <2> QED
    BY <1>5, <1>8, <2>1, <2>2
<1> QED
  BY <1>7, <1>8

\* What a lone update is in the middle of.
LEMMA LoneIs ==
  ASSUME RowsFit, RowsHold, NEW t \in Tasks, NEW step, At(t, step), ~ raced, ~ interrupted, Representable(leafDB)
  PROVE  LoneUpdate(updates[t])
BY DEF RowsHold, At

\* An item is stored.
LEMMA PutLeafKeeps ==
  ASSUME DatabaseInv, NEW t \in Tasks, putLeaf(t)
  PROVE  DatabaseInv'
<1>0. RowsFit /\ RowsHold
  BY DEF DatabaseInv
<1>1. PICK u : u = updates[t] /\ At(t, "leaf")
  BY DEF putLeaf
<1>2. PICK v : v = AtItem("node", u.itemID, u.batch)
  OBVIOUS
<1>3. PICK item \in Items : item = Head(u.batch)
  BY <1>0, <1>1, UpdateIs, HeadTailProperties DEF OfItem
<1>4. /\ leafDB' = Put(leafDB, u.itemID, item) /\ Goes(t, v)
      /\ UNCHANGED <<nodeDB, root, restarted, updated, raced, interrupted>>
  BY <1>1, <1>2, <1>3 DEF putLeaf, History
<1>5. t \in Updating /\ u.step = "leaf" /\ OfItem(u)
  BY <1>0, <1>1, UpdateIs
<1>6. v.step = "node" /\ v.itemID = u.itemID /\ v.batch = u.batch /\ v # Idle
  <2>1. v.step = "node" /\ v.itemID = u.itemID /\ v.batch = u.batch
    BY <1>2 DEF AtItem
  <2>2. Idle.step = "none"
    BY DEF Idle
  <2> QED
    BY <2>1, <2>2
<1>7. IsUpdate(v)
  BY <1>5, <1>6 DEF IsUpdate, OfItem
<1>8. IsStore(leafDB')
  BY <1>0, <1>4, <1>5, PutIsStore DEF RowsFit, OfItem
<1>9. DOMAIN leafDB' = DOMAIN leafDB \cup {u.itemID}
      /\ \A x \in DOMAIN leafDB' : leafDB'[x] = IF x = u.itemID THEN item ELSE leafDB[x]
  BY <1>4 DEF Put
<1>10. dbTree' = dbTree
  BY <1>4 DEF dbTree
<1>11. ASSUME ~ raced, ~ interrupted, Representable(leafDB')
       PROVE  LoneUpdate(v)'
  <2>1. Representable(leafDB)
    BY <1>9, <1>11 DEF Representable
  <2>2. Couples(dbTree) /\ HasLeaves(dbTree, LeavesFor(leafDB))
    BY <1>0, <1>1, <1>5, <1>11, <2>1, LoneIs DEF LoneUpdate
  <2>3. u.itemID \in DOMAIN leafDB' /\ leafDB'[u.itemID] = Head(u.batch)
    BY <1>3, <1>9
  <2>4. ASSUME NEW i \in 0 .. Pow2[Depth] - 1, i # u.itemID
        PROVE  getNode(dbTree', Depth, i) =
                 IF i \in DOMAIN LeavesFor(leafDB') THEN LeavesFor(leafDB')[i] ELSE ZeroLeaf
    <3>1. getNode(dbTree, Depth, i) =
            IF i \in DOMAIN LeavesFor(leafDB) THEN LeavesFor(leafDB)[i] ELSE ZeroLeaf
      BY <2>2, DatabaseTreeIs DEF HasLeaves
    <3>2. /\ DOMAIN LeavesFor(leafDB) = DOMAIN leafDB /\ DOMAIN LeavesFor(leafDB') = DOMAIN leafDB'
          /\ \A x \in DOMAIN leafDB : LeavesFor(leafDB)[x] = toLeaf(leafDB[x])
          /\ \A x \in DOMAIN leafDB' : LeavesFor(leafDB')[x] = toLeaf(leafDB'[x])
      BY DEF LeavesFor
    <3> QED
      BY <1>9, <1>10, <2>4, <3>1, <3>2
  <2>5. Couples(dbTree)'
    BY <1>10, <2>2
  <2> QED
    BY <1>6, <2>3, <2>4, <2>5 DEF LoneUpdate
<1>12. RowsHold' /\ updates' = [x \in Tasks |-> updates'[x]] /\ \A x \in Tasks : IsUpdate(updates'[x])
  BY <1>0, <1>4, <1>5, <1>6, <1>7, <1>11, RowsGo
<1> QED
  BY <1>0, <1>4, <1>8, <1>12 DEF DatabaseInv, RowsFit, IsUpdate, OfItem

\* The indices a lone update goes through are those the bit operators see.
LEMMA IndexIsSeen ==
  ASSUME NEW u, OfItem(u), u.level \in 1 .. Depth, IsAt(u), Representable(leafDB), IsStore(leafDB)
  PROVE  /\ LeftOf(u.index) = 2 * (u.index \div 2) /\ ShiftRight(u.index, 1) = u.index \div 2
         /\ u.index \div 2 \in Nat
         /\ \A below : below = u.level - 1 => u.index \div 2 = AboveLeaf(u.itemID, Depth - below)
<1>1. u.itemID \in IDs /\ ToSigned(u.itemID) >= 0
  BY DEF OfItem, IsAt, Representable
<1>2. PICK id \in Nat : id = u.itemID /\ id \in 0 .. Half - 1
  BY <1>1, SeenIDs, HalfIsFour
<1>3. PICK k \in Nat : k = Depth - u.level /\ \A below : below = u.level - 1 => Depth - below = k + 1
  BY StorageAssumption, Depth - u.level \in Nat
<1>4. AboveLeaf(id, k) \in 0 .. Half - 1 /\ AboveLeaf(id, k + 1) = AboveLeaf(id, k) \div 2
  BY <1>2, <1>3, AboveLeafIs
<1>5. PICK n \in 0 .. Half - 1 : n = u.index /\ n = AboveLeaf(id, k)
  BY <1>2, <1>3, <1>4 DEF IsAt
<1>6. LeftOf(n) = 2 * (n \div 2) /\ ShiftRight(n, 1) = n \div 2
  BY <1>5, BitOperators
<1>7. n \div 2 \in Nat
  BY <1>5, HalfIsFour
<1> QED
  BY <1>2, <1>3, <1>4, <1>5, <1>6, <1>7

\* What a couple is.
LEMMA CoupleParts ==
  ASSUME NEW rows, NEW k \in 1 .. Depth, NEW m \in Nat
  PROVE  CoupleHolds(rows, k, m) <=>
           getNode(rows, k - 1, m) = Hash2(getNode(rows, k, 2 * m), getNode(rows, k, 2 * m + 1))
BY DEF CoupleHolds

\* The row of a leaf.
LEMMA PutNodeKeeps ==
  ASSUME DatabaseInv, NEW t \in Tasks, putNode(t)
  PROVE  DatabaseInv'
<1>0. RowsFit /\ RowsHold /\ Depth \in Nat \ {0} /\ Depth \in 1 .. Depth /\ Depth \in 0 .. Depth
  BY DatabaseTreeIs DEF DatabaseInv
<1>1. PICK u : u = updates[t] /\ At(t, "node")
  BY DEF putNode
<1>2. PICK v : v = AtCouple(u, "left", Depth, u.itemID, << >>)
  OBVIOUS
<1>3. PICK leaf : leaf = toLeaf(Head(u.batch))
  OBVIOUS
<1>4. /\ nodeDB' = Put(nodeDB, <<Depth, u.itemID>>, leaf) /\ Goes(t, v)
      /\ UNCHANGED <<leafDB, root, restarted, updated, raced, interrupted>>
  BY <1>1, <1>2, <1>3 DEF putNode, History
<1>5. t \in Updating /\ u.step = "node" /\ OfItem(u)
  BY <1>0, <1>1, UpdateIs
<1>6. /\ v.step = "left" /\ v.itemID = u.itemID /\ v.batch = u.batch /\ v # Idle
      /\ v.level = Depth /\ v.index = u.itemID /\ v.read = << >>
  <2>1. /\ v.step = "left" /\ v.itemID = u.itemID /\ v.batch = u.batch
        /\ v.level = Depth /\ v.index = u.itemID /\ v.read = << >>
    BY <1>2 DEF AtCouple
  <2>2. Idle.step = "none"
    BY DEF Idle
  <2> QED
    BY <2>1, <2>2
<1>7. IsUpdate(v)
  BY <1>0, <1>5, <1>6 DEF IsUpdate, OfItem
<1>8. /\ \A k, j : getNode(dbTree', k, j) = IF k = Depth /\ j = u.itemID THEN leaf ELSE getNode(dbTree, k, j)
      /\ \A p \in DOMAIN nodeDB' : p[1] \in 0 .. Depth
  BY <1>0, <1>4, RowIsNode DEF RowsFit
<1>9. dbTree'.depth = Depth
  BY DEF dbTree
<1>10. ASSUME ~ raced, ~ interrupted, Representable(leafDB')
       PROVE  LoneUpdate(v)'
  <2>1. Representable(leafDB) /\ leafDB' = leafDB
    BY <1>4, <1>10
  <2>2. /\ u.itemID \in DOMAIN leafDB /\ leafDB[u.itemID] = Head(u.batch) /\ Couples(dbTree)
        /\ \A i \in 0 .. Pow2[Depth] - 1 : i # u.itemID =>
             getNode(dbTree, Depth, i) =
               IF i \in DOMAIN LeavesFor(leafDB) THEN LeavesFor(leafDB)[i] ELSE ZeroLeaf
    BY <1>0, <1>1, <1>5, <1>10, <2>1, LoneIs DEF LoneUpdate
  <2>3. PICK id \in Nat : id = u.itemID /\ id \in 0 .. Half - 1
    BY <1>5, <2>1, <2>2, SeenIDs, HalfIsFour DEF OfItem, Representable
  <2>4. v.index = AboveLeaf(v.itemID, Depth - v.level)
    <3>1. Depth - Depth = 0
      BY <1>0
    <3>2. AboveLeaf(id, 0) = id
      BY <2>3, AboveLeafIs
    <3> QED
      BY <1>6, <2>3, <3>1, <3>2
  <2>5. HasLeaves(dbTree', LeavesFor(leafDB'))
    <3>1. u.itemID \in DOMAIN LeavesFor(leafDB) /\ LeavesFor(leafDB)[u.itemID] = leaf
      BY <1>3, <2>2 DEF LeavesFor
    <3>2. ASSUME NEW i \in 0 .. Pow2[Depth] - 1
          PROVE  getNode(dbTree', Depth, i) =
                   IF i \in DOMAIN LeavesFor(leafDB) THEN LeavesFor(leafDB)[i] ELSE ZeroLeaf
      BY <1>8, <2>2, <3>1
    <3> QED
      BY <1>9, <2>1, <3>2 DEF HasLeaves
  <2>6. ASSUME NEW k \in 1 .. Depth, NEW m \in 0 .. Pow2[k - 1] - 1
        PROVE  CoupleHolds(dbTree', k, m) \/ (k = Depth /\ m = id \div 2)
    <3>1. CoupleHolds(dbTree, k, m)
      BY <2>2, DatabaseTreeIs DEF Couples
    <3>2. k - 1 # Depth /\ m \in Nat
      BY <1>0
    <3>3. CASE k = Depth /\ (id = 2 * m \/ id = 2 * m + 1)
      BY <2>3, <3>2, <3>3
    <3>4. CASE ~ (k = Depth /\ (id = 2 * m \/ id = 2 * m + 1))
      <4>1. /\ getNode(dbTree', k - 1, m) = getNode(dbTree, k - 1, m)
            /\ getNode(dbTree', k, 2 * m) = getNode(dbTree, k, 2 * m)
            /\ getNode(dbTree', k, 2 * m + 1) = getNode(dbTree, k, 2 * m + 1)
        BY <1>8, <2>3, <3>2, <3>4
      <4> QED
        BY <3>1, <3>2, <4>1, CoupleParts
    <3> QED
      BY <3>3, <3>4
  <2>7. CouplesBut(dbTree', Depth, id \div 2)
    BY <2>6 DEF CouplesBut
  <2>8. IsAt(v)'
    BY <1>6, <2>1, <2>2, <2>3, <2>4, <2>5, <2>7 DEF IsAt
  <2> QED
    BY <1>6, <2>8 DEF LoneUpdate
<1>11. RowsHold' /\ updates' = [x \in Tasks |-> updates'[x]] /\ \A x \in Tasks : IsUpdate(updates'[x])
  BY <1>0, <1>4, <1>5, <1>6, <1>7, <1>10, RowsGo
<1> QED
  BY <1>0, <1>4, <1>8, <1>11 DEF DatabaseInv, RowsFit, IsUpdate, OfItem

\* Two nodes, one after the other.
LEMMA TwoRead ==
  ASSUME NEW x, NEW y
  PROVE  Append(<<x>>, y)[1] = x /\ Append(<<x>>, y)[2] = y
<1> DEFINE S == {x, y}
<1>1. <<x>> \in Seq(S) /\ y \in S /\ Len(<<x>>) = 1
  OBVIOUS
<1> QED
  BY <1>1, AppendProperties

\* The nodes of a couple are read.
LEMMA ReadsKeep ==
  ASSUME DatabaseInv, NEW t \in Tasks, readLeft(t) \/ readRight(t)
  PROVE  DatabaseInv'
<1>0. RowsFit /\ RowsHold
  BY DEF DatabaseInv
<1>1. PICK u : u = updates[t]
  OBVIOUS
<1>2. PICK from, to, read : /\ At(t, from) /\ from \in {"left", "right"}
                            /\ from = "left" => to = "right" /\ read = <<getNode(dbTree, u.level, LeftOf(u.index))>>
                            /\ from = "right" => to = "parent" /\ read = Append(u.read, getNode(dbTree, u.level, LeftOf(u.index) + 1))
                            /\ Goes(t, AtCouple(u, to, u.level, u.index, read))
                            /\ UNCHANGED <<leafDB, nodeDB, root, restarted>> /\ History
  <2>1. CASE readLeft(t)
    BY <1>1, <2>1 DEF readLeft
  <2>2. CASE readRight(t)
    BY <1>1, <2>2 DEF readRight
  <2> QED
    BY <2>1, <2>2
<1>3. PICK v : v = AtCouple(u, to, u.level, u.index, read)
  OBVIOUS
<1>4. Goes(t, v) /\ UNCHANGED <<leafDB, nodeDB, root, restarted, updated, raced, interrupted>>
  BY <1>2, <1>3 DEF History
<1>5. t \in Updating /\ u.step = from /\ OfItem(u) /\ u.level \in 1 .. Depth
  BY <1>0, <1>1, <1>2, UpdateIs
<1>6. /\ v.step = to /\ v.itemID = u.itemID /\ v.batch = u.batch /\ v # Idle
      /\ v.level = u.level /\ v.index = u.index /\ v.read = read
  <2>1. /\ v.step = to /\ v.itemID = u.itemID /\ v.batch = u.batch
        /\ v.level = u.level /\ v.index = u.index /\ v.read = read
    BY <1>3 DEF AtCouple
  <2>2. Idle.step = "none"
    BY DEF Idle
  <2> QED
    BY <1>2, <2>1, <2>2
<1>7. IsUpdate(v)
  BY <1>2, <1>5, <1>6 DEF IsUpdate, OfItem
<1>8. dbTree' = dbTree
  BY <1>4 DEF dbTree
<1>9. ASSUME ~ raced, ~ interrupted, Representable(leafDB')
      PROVE  LoneUpdate(v)'
  <2>1. Representable(leafDB) /\ leafDB' = leafDB /\ IsStore(leafDB)
    BY <1>0, <1>4, <1>9 DEF RowsFit
  <2>2. LoneUpdate(u)
    BY <1>0, <1>1, <1>2, <1>9, <2>1, LoneIs
  <2>3. IsAt(u) /\ (from = "left" => u.read = << >>)
        /\ (from = "right" => u.read = <<getNode(dbTree, u.level, 2 * (u.index \div 2))>>)
    BY <1>2, <1>5, <2>2 DEF LoneUpdate
  <2>4. LeftOf(u.index) = 2 * (u.index \div 2)
    BY <1>5, <2>1, <2>3, IndexIsSeen
  <2>5. IsAt(v)'
    BY <1>6, <1>8, <2>1, <2>3 DEF IsAt
  <2>6. CASE from = "left"
    <3>1. v.step = "right" /\ v.read = <<getNode(dbTree, u.level, 2 * (u.index \div 2))>>
      BY <1>2, <1>6, <2>4, <2>6
    <3> QED
      BY <1>6, <1>8, <2>5, <3>1 DEF LoneUpdate
  <2>7. CASE from = "right"
    <3>1. PICK x, y : /\ x = getNode(dbTree, u.level, 2 * (u.index \div 2))
                      /\ y = getNode(dbTree, u.level, 2 * (u.index \div 2) + 1)
      OBVIOUS
    <3>2. v.step = "parent" /\ v.read = Append(<<x>>, y)
      BY <1>2, <1>6, <2>3, <2>4, <2>7, <3>1
    <3>3. v.read[1] = x /\ v.read[2] = y
      BY <3>2, TwoRead
    <3> QED
      BY <1>6, <1>8, <2>5, <3>1, <3>2, <3>3 DEF LoneUpdate
  <2> QED
    BY <1>2, <2>6, <2>7
<1>10. RowsHold' /\ updates' = [x \in Tasks |-> updates'[x]] /\ \A x \in Tasks : IsUpdate(updates'[x])
  BY <1>0, <1>4, <1>5, <1>6, <1>7, <1>9, RowsGo
<1> QED
  BY <1>0, <1>4, <1>10 DEF DatabaseInv, RowsFit, IsUpdate, OfItem

\* The parent of a couple is written.
LEMMA PutParentKeeps ==
  ASSUME DatabaseInv, NEW t \in Tasks, putParent(t)
  PROVE  DatabaseInv'
<1>0. RowsFit /\ RowsHold /\ Depth \in Nat \ {0}
  BY DatabaseTreeIs DEF DatabaseInv
<1>1. PICK u : u = updates[t] /\ At(t, "parent")
  BY DEF putParent
<1>5. t \in Updating /\ u.step = "parent" /\ OfItem(u) /\ u.level \in 1 .. Depth
  BY <1>0, <1>1, UpdateIs
<1>12. PICK l \in 1 .. Depth, below \in Int : l = u.level /\ below = u.level - 1 /\ below = l - 1
  BY <1>5
<1>13. below \in 0 .. Depth /\ below < Depth /\ (l # 1 => below \in 1 .. Depth) /\ below # l
  BY <1>0, <1>12
<1>2. PICK above, node, v : /\ above = ShiftRight(u.index, 1) /\ node = Hash2(u.read[1], u.read[2])
                            /\ v = IF u.level = 1 THEN AtItem("root", u.itemID, u.batch)
                                   ELSE AtCouple(u, "left", below, above, << >>)
  OBVIOUS
<1>4. /\ nodeDB' = Put(nodeDB, <<below, above>>, node) /\ Goes(t, v)
      /\ UNCHANGED <<leafDB, root, restarted, updated, raced, interrupted>>
  BY <1>1, <1>2, <1>12 DEF putParent, History
<1>6. /\ v.itemID = u.itemID /\ v.batch = u.batch /\ v # Idle
      /\ l = 1 => v.step = "root"
      /\ l # 1 => v.step = "left" /\ v.level = below /\ v.index = above /\ v.read = << >>
  <2>1. CASE l = 1
    <3>1. v.itemID = u.itemID /\ v.batch = u.batch /\ v.step = "root"
      BY <1>2, <1>12, <2>1 DEF AtItem
    <3> QED
      BY <2>1, <3>1 DEF Idle
  <2>2. CASE l # 1
    <3>1. /\ v.itemID = u.itemID /\ v.batch = u.batch
          /\ v.step = "left" /\ v.level = below /\ v.index = above /\ v.read = << >>
      BY <1>2, <1>12, <2>2 DEF AtCouple
    <3> QED
      BY <2>2, <3>1 DEF Idle
  <2> QED
    BY <2>1, <2>2
<1>7. IsUpdate(v)
  BY <1>5, <1>6, <1>13 DEF IsUpdate, OfItem
<1>8. /\ \A k, j : getNode(dbTree', k, j) = IF k = below /\ j = above THEN node ELSE getNode(dbTree, k, j)
      /\ \A p \in DOMAIN nodeDB' : p[1] \in 0 .. Depth
  BY <1>0, <1>4, <1>13, RowIsNode DEF RowsFit
<1>9. dbTree'.depth = Depth
  BY DEF dbTree
<1>10. ASSUME ~ raced, ~ interrupted, Representable(leafDB')
       PROVE  LoneUpdate(v)'
  <2>1. Representable(leafDB) /\ leafDB' = leafDB /\ IsStore(leafDB)
    BY <1>0, <1>4, <1>10 DEF RowsFit
  <2>2. LoneUpdate(u)
    BY <1>0, <1>1, <1>10, <2>1, LoneIs
  <2>3. PICK i : i = u.index \div 2
    OBVIOUS
  <2>4. /\ IsAt(u) /\ u.read[1] = getNode(dbTree, l, 2 * i) /\ u.read[2] = getNode(dbTree, l, 2 * i + 1)
    BY <1>5, <1>12, <2>2, <2>3 DEF LoneUpdate
  <2>5. above = i /\ i \in Nat /\ i = AboveLeaf(u.itemID, Depth - below)
    BY <1>2, <1>5, <1>12, <2>1, <2>3, <2>4, IndexIsSeen
  <2>6. HasLeaves(dbTree', LeavesFor(leafDB'))
    <3>1. HasLeaves(dbTree, LeavesFor(leafDB))
      BY <2>4 DEF IsAt
    <3>2. \A j : getNode(dbTree', Depth, j) = getNode(dbTree, Depth, j)
      BY <1>8, <1>13
    <3> QED
      BY <1>9, <2>1, <3>1, <3>2, DatabaseTreeIs DEF HasLeaves
  <2>7. CouplesBut(dbTree, l, i)
    BY <1>12, <2>3, <2>4 DEF IsAt
  <2>8. ASSUME NEW k \in 1 .. Depth, NEW m \in 0 .. Pow2[k - 1] - 1
        PROVE  CoupleHolds(dbTree', k, m) \/ (k = below /\ m = i \div 2)
    <3>1. m \in Nat
      OBVIOUS
    <3>2. CASE k = l /\ m = i
      <4>1. getNode(dbTree', k - 1, m) = node
        BY <1>8, <1>12, <2>5, <3>2
      <4>2. /\ getNode(dbTree', k, 2 * m) = getNode(dbTree, l, 2 * i)
            /\ getNode(dbTree', k, 2 * m + 1) = getNode(dbTree, l, 2 * i + 1)
        BY <1>8, <1>13, <3>2
      <4> QED
        BY <1>2, <2>4, <3>1, <4>1, <4>2, CoupleParts
    <3>3. CASE k = below /\ (i = 2 * m \/ i = 2 * m + 1)
      BY <2>5, <3>1, <3>3
    <3>4. CASE ~ (k = l /\ m = i) /\ ~ (k = below /\ (i = 2 * m \/ i = 2 * m + 1))
      <4>1. CoupleHolds(dbTree, k, m)
        BY <2>7, <3>4 DEF CouplesBut
      <4>2. k - 1 = below <=> k = l
        BY <1>12
      <4>3. /\ getNode(dbTree', k - 1, m) = getNode(dbTree, k - 1, m)
            /\ getNode(dbTree', k, 2 * m) = getNode(dbTree, k, 2 * m)
            /\ getNode(dbTree', k, 2 * m + 1) = getNode(dbTree, k, 2 * m + 1)
        BY <1>8, <2>5, <3>4, <4>2
      <4> QED
        BY <3>1, <4>1, <4>3, CoupleParts
    <3> QED
      BY <3>2, <3>3, <3>4
  <2>9. CASE l = 1
    <3>1. \A k \in 1 .. Depth : \A m \in 0 .. Pow2[k - 1] - 1 : CoupleHolds(dbTree', k, m)
      BY <1>12, <2>8, <2>9
    <3>2. Couples(dbTree)'
      BY <1>9, <3>1 DEF Couples
    <3> QED
      BY <1>6, <2>6, <2>9, <3>2 DEF LoneUpdate
  <2>10. CASE l # 1
    <3>1. CouplesBut(dbTree', below, i \div 2)
      BY <2>8 DEF CouplesBut
    <3>2. u.itemID \in DOMAIN leafDB
      BY <2>4 DEF IsAt
    <3>3. IsAt(v)'
      BY <1>6, <2>1, <2>5, <2>6, <2>10, <3>1, <3>2 DEF IsAt
    <3> QED
      BY <1>6, <2>10, <3>3 DEF LoneUpdate
  <2> QED
    BY <2>9, <2>10
<1>11. RowsHold' /\ updates' = [x \in Tasks |-> updates'[x]] /\ \A x \in Tasks : IsUpdate(updates'[x])
  BY <1>0, <1>4, <1>5, <1>6, <1>7, <1>10, RowsGo
<1> QED
  BY <1>0, <1>4, <1>8, <1>11 DEF DatabaseInv, RowsFit, IsUpdate, OfItem

\* The root, and the next item of the batch.
LEMMA UpdateRootKeeps ==
  ASSUME DatabaseInv, NEW t \in Tasks, updateRoot(t)
  PROVE  DatabaseInv'
<1>0. RowsFit /\ RowsHold /\ Depth \in Nat \ {0}
  BY DatabaseTreeIs DEF DatabaseInv
<1>1. PICK u : u = updates[t] /\ At(t, "root")
  BY DEF updateRoot
<1>2. PICK v : v = IF Len(u.batch) = 1 THEN Idle ELSE AtItem("leaf", u.itemID + 1, Tail(u.batch))
  OBVIOUS
<1>4. /\ Goes(t, v) /\ root' = treeRoot(dbTree) /\ restarted' = FALSE
      /\ UNCHANGED <<leafDB, nodeDB, updated, raced, interrupted>>
  BY <1>1, <1>2 DEF updateRoot, History
<1>5. t \in Updating /\ u.step = "root" /\ OfItem(u)
  BY <1>0, <1>1, UpdateIs
<1>6. IsUpdate(v) /\ (v # Idle => v.step = "leaf")
  <2>1. CASE Len(u.batch) = 1
    BY <1>2, <2>1 DEF IsUpdate
  <2>2. CASE Len(u.batch) # 1
    <3>1. PICK id \in Nat, batch \in Seq(Items), n \in Nat \ {0}, top \in Nat :
            /\ id = u.itemID /\ batch = u.batch /\ n = Len(batch) /\ batch # << >>
            /\ top = Pow2[Depth] /\ id + n <= top
      <4>1. u.itemID \in Nat /\ u.batch \in Seq(Items) /\ u.batch # << >> /\ u.itemID + Len(u.batch) <= Pow2[Depth]
        BY <1>5 DEF OfItem, IDs
      <4>2. Len(u.batch) \in Nat \ {0}
        BY <4>1, EmptySeq, LenProperties
      <4>3. Pow2[Depth] \in Nat
        BY <1>0, PowersOfTwo
      <4> QED
        BY <4>1, <4>2, <4>3
    <3>2. Tail(batch) \in Seq(Items) /\ Len(Tail(batch)) = n - 1
      BY <3>1, HeadTailProperties
    <3>7. id \in Nat /\ n \in Nat \ {0} /\ n # 1 /\ top \in Nat /\ id + n <= top
      BY <2>2, <3>1
    <3>3. n - 1 # 0 /\ id + 1 \in 0 .. top - 1 /\ (id + 1) + (n - 1) <= top
      BY <3>7
    <3>4. Tail(batch) # << >>
      <4>1. Len(<< >>) = 0
        OBVIOUS
      <4> QED
        BY <3>2, <3>3, <4>1
    <3>5. v.step = "leaf" /\ v.itemID = id + 1 /\ v.batch = Tail(batch)
      BY <1>2, <2>2, <3>1 DEF AtItem
    <3>6. OfItem(v)
      BY <3>1, <3>2, <3>3, <3>4, <3>5 DEF OfItem, IDs
    <3> QED
      BY <3>5, <3>6 DEF IsUpdate
  <2> QED
    BY <2>1, <2>2
<1>7. dbTree' = dbTree
  BY <1>4 DEF dbTree
<1>8. ASSUME ~ raced, ~ interrupted, Representable(leafDB')
      PROVE  IF v = Idle THEN Couples(dbTree') /\ HasLeaves(dbTree', LeavesFor(leafDB')) ELSE LoneUpdate(v)'
  <2>1. Representable(leafDB) /\ leafDB' = leafDB
    BY <1>4, <1>8
  <2>2. Couples(dbTree) /\ HasLeaves(dbTree, LeavesFor(leafDB))
    BY <1>0, <1>1, <1>5, <1>8, <2>1, LoneIs DEF LoneUpdate
  <2>3. Couples(dbTree') /\ HasLeaves(dbTree', LeavesFor(leafDB'))
    BY <1>7, <2>1, <2>2
  <2> QED
    BY <1>6, <2>3 DEF LoneUpdate
<1>9. root' = treeRoot(dbTree')
  BY <1>4, <1>7
<1>10. RowsHold' /\ updates' = [x \in Tasks |-> updates'[x]] /\ \A x \in Tasks : IsUpdate(updates'[x])
  BY <1>0, <1>4, <1>5, <1>6, <1>8, <1>9, RowsGo
<1> QED
  BY <1>0, <1>4, <1>10 DEF DatabaseInv, RowsFit, IsUpdate, OfItem

\* An update begins.
LEMMA UpdateFromKeeps ==
  ASSUME DatabaseInv, NEW t \in Tasks, NEW id \in IDs, NEW batch \in Seq(Items), batch # << >>,
         id + Len(batch) <= Pow2[Depth], updateFrom(t, id, batch)
  PROVE  DatabaseInv'
<1>0. RowsFit /\ RowsHold
  BY DEF DatabaseInv
<1>1. PICK v : v = AtItem("leaf", id, batch)
  OBVIOUS
<1>2. /\ updates[t] = Idle /\ updated < MaxRows /\ updated' = updated + 1
      /\ updates' = [updates EXCEPT ![t] = v] /\ raced' = (raced \/ Updating # {})
      /\ UNCHANGED <<leafDB, nodeDB, root, interrupted, restarted>>
  BY <1>1 DEF updateFrom
<1>3. v.step = "leaf" /\ v.itemID = id /\ v.batch = batch
  BY <1>1 DEF AtItem
<1>4. IsUpdate(v)
  BY <1>3 DEF IsUpdate, OfItem
<1>5. updates' = [x \in Tasks |-> IF x = t THEN v ELSE updates[x]]
  BY <1>0, <1>2 DEF RowsFit
<1>6. updates' = [x \in Tasks |-> updates'[x]] /\ \A x \in Tasks : IsUpdate(updates'[x])
  BY <1>0, <1>4, <1>5 DEF RowsFit
<1>7. dbTree' = dbTree
  BY <1>2 DEF dbTree
<1>8. v # Idle
  BY <1>3 DEF Idle
<1>9. RowsHold'
  <2> SUFFICES ASSUME ~ raced', ~ interrupted'
               PROVE  /\ \A x, y \in Updating' : x = y
                      /\ Representable(leafDB') => \A x \in Updating' : LoneUpdate(updates[x])'
                      /\ Updating' = {} => Holds(dbTree', leafDB') /\ (restarted' \/ root' = treeRoot(dbTree'))
    BY DEF RowsHold
  <2>1. ~ raced /\ ~ interrupted /\ Updating = {}
    BY <1>2
  <2>2. Holds(dbTree, leafDB)
    BY <1>0, <2>1 DEF RowsHold
  <2>3. Updating' = {t}
    BY <1>5, <1>8, <2>1 DEF Updating
  <2>4. updates'[t] = v
    BY <1>5
  <2>5. ASSUME Representable(leafDB') PROVE LoneUpdate(updates[t])'
    <3>1. Couples(dbTree') /\ HasLeaves(dbTree', LeavesFor(leafDB'))
      BY <1>2, <1>7, <2>2, <2>5 DEF Holds
    <3> QED
      BY <1>3, <2>4, <3>1 DEF LoneUpdate
  <2> QED
    BY <2>3, <2>5
<1>10. updated' \in 0 .. MaxRows /\ {raced', interrupted', restarted'} \subseteq BOOLEAN
  BY <1>0, <1>2, RowsAssumption DEF RowsFit
<1> QED
  BY <1>0, <1>2, <1>6, <1>9, <1>10 DEF DatabaseInv, RowsFit, IsUpdate, OfItem

\* The process restarts.
LEMMA RestartKeeps ==
  ASSUME DatabaseInv, Restart
  PROVE  DatabaseInv'
<1>0. RowsFit /\ RowsHold
  BY DEF DatabaseInv
<1>1. /\ updates' = [t \in Tasks |-> Idle] /\ interrupted' = (interrupted \/ Updating # {})
      /\ restarted' = TRUE /\ UNCHANGED <<leafDB, nodeDB, updated, raced>>
  BY DEF Restart
<1>2. Updating' = {}
  BY <1>1 DEF Updating
<1>3. dbTree' = dbTree
  BY <1>1 DEF dbTree
<1>4. RowsHold'
  <2>1. ASSUME ~ raced', ~ interrupted' PROVE Holds(dbTree', leafDB') /\ restarted'
    <3>1. ~ raced /\ ~ interrupted /\ Updating = {}
      BY <1>1, <2>1
    <3>2. Holds(dbTree, leafDB)
      BY <1>0, <3>1 DEF RowsHold
    <3> QED
      BY <1>1, <1>3, <3>2
  <2> QED
    BY <1>2, <2>1 DEF RowsHold
<1>5. updates' = [t \in Tasks |-> updates'[t]] /\ \A t \in Tasks : IsUpdate(updates'[t])
  BY <1>1 DEF IsUpdate
<1>6. {raced', interrupted', restarted'} \subseteq BOOLEAN
  BY <1>0, <1>1 DEF RowsFit
<1> QED
  BY <1>0, <1>1, <1>4, <1>5, <1>6 DEF DatabaseInv, RowsFit, IsUpdate, OfItem

\* Every step keeps the invariant of the engine.
LEMMA DatabaseInvKept == DatabaseInv /\ [DatabaseNext]_databaseVars => DatabaseInv'
<1> SUFFICES ASSUME DatabaseInv, [DatabaseNext]_databaseVars PROVE DatabaseInv'
  OBVIOUS
<1>1. ASSUME NEW t \in Tasks, NEW id \in UsedIDs, NEW item \in Items, updateFrom(t, id, <<item>>)
      PROVE  DatabaseInv'
  <2>1. PICK top \in Nat : top = Pow2[Depth]
    BY StorageAssumption, PowersOfTwo
  <2>2. id \in 0 .. top - 1
    BY <2>1, StorageAssumption
  <2>3. <<item>> \in Seq(Items) /\ Len(<<item>>) = 1 /\ <<item>> # << >>
    OBVIOUS
  <2>4. id \in IDs /\ id + 1 <= Pow2[Depth]
    BY <2>1, <2>2 DEF IDs
  <2> QED
    BY <1>1, <2>3, <2>4, UpdateFromKeeps
<1>2. ASSUME NEW t \in Tasks, NEW batch \in Batches, NEW depth \in 1 .. Depth, NEW path \in 0 .. Pow2[Depth] - 1,
             Len(batch) <= Pow2[depth], path < Pow2[Depth - depth], updateFrom(t, FirstOf(path, depth), batch)
      PROVE  DatabaseInv'
  <2>1. batch \in Seq(Items) /\ batch # << >>
    BY StorageAssumption
  <2>2. Len(batch) \in Nat \ {0}
    BY <2>1, EmptySeq, LenProperties
  <2>3. depth \in 0 .. Depth /\ Depth - depth \in Nat
    BY StorageAssumption
  <2>4. path \in 0 .. Pow2[Depth - depth] - 1
    <3>1. PICK w \in Nat, top \in Nat : w = Pow2[Depth - depth] /\ top = Pow2[Depth]
      BY <2>3, StorageAssumption, PowersOfTwo
    <3>2. path \in 0 .. top - 1 /\ path < w
      BY <1>2, <3>1
    <3> QED
      BY <3>1, <3>2
  <2>5. FirstOf(path, depth) \in IDs /\ FirstOf(path, depth) + Len(batch) <= Pow2[Depth]
    BY <1>2, <2>2, <2>3, <2>4, BatchBelow
  <2> QED
    BY <1>2, <2>1, <2>5, UpdateFromKeeps
<1>3. ASSUME NEW t \in Tasks,
             putLeaf(t) \/ putNode(t) \/ readLeft(t) \/ readRight(t) \/ putParent(t) \/ updateRoot(t)
      PROVE  DatabaseInv'
  BY <1>3, PutLeafKeeps, PutNodeKeeps, ReadsKeep, PutParentKeeps, UpdateRootKeeps
<1>4. CASE UNCHANGED databaseVars
  BY <1>4 DEF databaseVars, DatabaseInv, RowsFit, RowsHold, LoneUpdate, IsAt, IsUpdate, OfItem, Updating, dbTree
<1>5. CASE Restart
  BY <1>5, RestartKeeps
<1> QED
  BY <1>1, <1>2, <1>3, <1>4, <1>5 DEF DatabaseNext

\* The rows of a database on which nothing is under way.
LEMMA DatabaseHolds == DatabaseInv => RowsAreATree
<1> SUFFICES ASSUME DatabaseInv, ~ raced, ~ interrupted, Updating = {}, Representable(leafDB)
             PROVE  /\ Hashed(dbTree, LeavesFor(leafDB)) /\ WitnessesProve(dbTree)
                    /\ \A depth \in 0 .. Depth : \A path \in VacantInDB(depth) :
                         Below(path, depth) \cap DOMAIN leafDB = {}
                    /\ restarted \/ root = treeRoot(dbTree)
  BY DEF RowsAreATree
<1>1. Holds(dbTree, leafDB) /\ (restarted \/ root = treeRoot(dbTree)) /\ IsStore(leafDB) /\ IsTree(dbTree, Depth)
  BY DatabaseTreeIs DEF DatabaseInv, RowsHold, RowsFit
<1>2. Hashed(dbTree, LeavesFor(leafDB)) /\ WitnessesProve(dbTree)
  BY <1>1, HeldIsHashed
<1>3. ASSUME NEW depth \in 0 .. Depth, NEW path \in VacantInDB(depth)
      PROVE  Below(path, depth) \cap DOMAIN leafDB = {}
  <2>1. path \in 0 .. Pow2[Depth - depth] - 1 /\ isZero(dbTree, Depth - depth, path)
    BY DEF VacantInDB
  <2> QED
    BY <1>1, <2>1, NothingBelowZero
<1> QED
  BY <1>1, <1>2, <1>3

(***************************************************************************)
(* The contract's account trees: the subtrees it keeps are the nodes that  *)
(* wait for their right one, and the node it goes up with is the tree's.   *)
(***************************************************************************)
\* The subtrees kept beside the n-th node of level d.
Frontier(N, n, d, subtrees) ==
  /\ subtrees = [i \in 0 .. d - 1 |-> subtrees[i]]
  /\ \A i \in 0 .. d - 1 :
       (n \div Pow2[i]) % 2 = 1 => subtrees[i] = N[d - i][(n \div Pow2[i]) - 1]

\* What is to the right of that node is zeros.
ZerosAfter(N, n, d) ==
  \A i \in 0 .. d : \A j \in 0 .. Pow2[d - i] - 1 :
    j > n \div Pow2[i] => N[d - i][j] = ContractZeros[d - i]

\* i levels up from it: the tree's node, and the subtrees of the next one.
WentUp(u, N, n, d, subtrees, i) ==
  /\ u = [node |-> u.node, subtrees |-> u.subtrees, set |-> u.set]
  /\ u.set \in BOOLEAN
  /\ u.subtrees = [k \in 0 .. d - 1 |-> u.subtrees[k]]
  /\ u.node = N[d - i][n \div Pow2[i]]
  /\ \A k \in 0 .. i - 1 :
       ((n + 1) \div Pow2[k]) % 2 = 1 => u.subtrees[k] = N[d - k][((n + 1) \div Pow2[k]) - 1]
  /\ \A k \in i .. d - 1 : u.subtrees[k] = subtrees[k]
  /\ (n + 1) \div Pow2[i] = (n \div Pow2[i]) + (IF u.set THEN 0 ELSE 1)

\* One level up.
LEMMA UpOneLevel ==
  ASSUME NEW d \in Nat, NEW height \in Nat, TreeDepth = d + height, NEW N, IsMerkle(N, d),
         NEW n \in 0 .. Pow2[d] - 1, NEW subtrees, Frontier(N, n, d, subtrees), ZerosAfter(N, n, d),
         NEW i \in 0 .. d - 1, NEW u, WentUp(u, N, n, d, subtrees, i), NEW m, m = i + 1
  PROVE  WentUp(AppendedAbove(n, height, m, u), N, n, d, subtrees, m)
<1>0. i \in Nat /\ n \in Nat /\ m \in Nat /\ m - 1 = i /\ d - i \in Nat /\ d - m \in 0 .. d - 1
      /\ d - m + 1 = d - i /\ n + 1 \in Nat /\ TreeDepth - (i + height) = d - i
      /\ (d - m) + m = d /\ d - i \in 0 .. d
  BY PowersOfTwo
<1>1. PICK a \in Nat, b \in Nat : a = n \div Pow2[i] /\ b = (n + 1) \div Pow2[i]
  BY <1>0, NextQuotient
<1>2. n \div Pow2[m] = a \div 2 /\ (n + 1) \div Pow2[m] = b \div 2
  BY <1>0, <1>1, NextQuotient
<1>3. PICK q \in Nat : q = a \div 2 /\ (a = 2 * q \/ a = 2 * q + 1) /\ q \in 0 .. Pow2[d - m] - 1
  <2>1. a \div 2 \in Nat /\ (a = 2 * (a \div 2) \/ a = 2 * (a \div 2) + 1)
    BY <1>1
  <2>2. n \div Pow2[m] \in 0 .. Pow2[d - m] - 1
    BY <1>0, QuotientInLevel
  <2> QED
    BY <1>2, <2>1, <2>2
<1>4. N[d - m][q] = Hash2(N[d - i][2 * q], N[d - i][2 * q + 1])
  BY <1>0, <1>3 DEF IsMerkle
<1>5. u = [node |-> u.node, subtrees |-> u.subtrees, set |-> u.set] /\ u.set \in BOOLEAN
      /\ u.subtrees = [k \in 0 .. d - 1 |-> u.subtrees[k]]
  BY DEF WentUp
<1>8. u.node = N[d - i][a] /\ (u.set => b = a) /\ (~u.set => b = a + 1)
  BY <1>1 DEF WentUp
<1>9. \A k \in 0 .. i - 1 :
        ((n + 1) \div Pow2[k]) % 2 = 1 => u.subtrees[k] = N[d - k][((n + 1) \div Pow2[k]) - 1]
  BY DEF WentUp
<1>10. \A k \in i .. d - 1 : u.subtrees[k] = subtrees[k]
  BY DEF WentUp
<1>11. i \in i .. d - 1 /\ \A k \in m .. d - 1 : k \in i .. d - 1 /\ k # i /\ k \in 0 .. d - 1
  BY <1>0
<1>12. \A k \in 0 .. m - 1 : (k = i \/ k \in 0 .. i - 1) /\ k \in 0 .. d - 1
  BY <1>0
<1> DEFINE r == AppendedAbove(n, height, m, u)
<1>6. CASE a = 2 * q + 1
  <2>1. a % 2 = 1 /\ a - 1 = 2 * q
    BY <1>6
  <2>2. u.subtrees[i] = N[d - i][2 * q]
    <3>1. subtrees[i] = N[d - i][a - 1]
      BY <1>1, <2>1 DEF Frontier
    <3>2. u.subtrees[i] = subtrees[i]
      BY <1>10, <1>11
    <3> QED
      BY <2>1, <3>1, <3>2
  <2>3. r = [u EXCEPT !.node = Hash2(u.subtrees[i], u.node)]
    BY <1>0, <1>1, <2>1 DEF AppendedAbove
  <2>4. r = [node |-> N[d - m][q], subtrees |-> u.subtrees, set |-> u.set]
    BY <1>4, <1>5, <1>6, <1>8, <2>2, <2>3
  <2>5. b \div 2 = q + (IF u.set THEN 0 ELSE 1)
    BY <1>3, <1>6, <1>8
  <2>6. ASSUME NEW k \in 0 .. m - 1, ((n + 1) \div Pow2[k]) % 2 = 1
        PROVE  u.subtrees[k] = N[d - k][((n + 1) \div Pow2[k]) - 1]
    <3>1. CASE k = i
      <4>1. b % 2 = 1
        BY <1>1, <2>6, <3>1
      <4>2. u.set /\ b = 2 * q + 1
        BY <1>3, <1>6, <1>8, <4>1
      <4> QED
        BY <1>1, <2>2, <3>1, <4>2
    <3>2. CASE k \in 0 .. i - 1
      BY <1>9, <2>6, <3>2
    <3> QED
      BY <1>12, <3>1, <3>2
  <2>7. \A k \in m .. d - 1 : u.subtrees[k] = subtrees[k]
    BY <1>10, <1>11
  <2>8. PICK s, v, set : s = r.subtrees /\ v = r.node /\ set = r.set
    OBVIOUS
  <2>9. s = u.subtrees /\ v = N[d - m][q] /\ set = u.set
    BY <2>4, <2>8
  <2> HIDE DEF r
  <2>10. r = [node |-> r.node, subtrees |-> r.subtrees, set |-> r.set]
    BY <2>4
  <2>11. WentUp(r, N, n, d, subtrees, m)
    <3>1. r.set = u.set /\ r.subtrees = u.subtrees /\ u.set \in BOOLEAN
      BY <1>5, <2>8, <2>9
    <3>2. r.node = N[d - m][n \div Pow2[m]]
      BY <1>3, <2>8, <2>9, <1>2
    <3>3. (n + 1) \div Pow2[m] = (n \div Pow2[m]) + (IF r.set THEN 0 ELSE 1)
      BY <1>2, <1>3, <2>5, <3>1
    <3> QED
      BY <1>5, <2>6, <2>7, <2>10, <3>1, <3>2, <3>3 DEF WentUp
  <2> QED
    BY <2>11 DEF r
<1>7. CASE a = 2 * q
  <2>1. a % 2 # 1
    BY <1>7
  <2>2. N[d - i][2 * q + 1] = ContractZeros[d - i]
    <3>1. 2 * q + 1 \in 0 .. Pow2[d - i] - 1
      BY <1>0, <1>3, ChildIndices
    <3> QED
      BY <1>0, <1>1, <1>7, <3>1 DEF ZerosAfter
  <2>3. zeroAt(m - 1 + height) = ContractZeros[d - i]
    BY <1>0 DEF zeroAt
  <2> DEFINE s == IF u.set THEN u.subtrees ELSE [u.subtrees EXCEPT ![i] = u.node]
  <2>4. r = [node |-> Hash2(u.node, ContractZeros[d - i]), set |-> TRUE, subtrees |-> s]
    BY <1>0, <1>1, <2>1, <2>3 DEF AppendedAbove
  <2>5. Hash2(u.node, ContractZeros[d - i]) = N[d - m][q]
    BY <1>4, <1>7, <1>8, <2>2
  <2>6. b \div 2 = q
    <3>1. b = 2 * q \/ b = 2 * q + 1
      BY <1>5, <1>7, <1>8
    <3>2. q \in Nat
      BY <1>3
    <3> QED
      BY <3>1, <3>2
  <2>7. s = [k \in 0 .. d - 1 |-> s[k]]
    BY <1>5
  <2>8. \A k \in 0 .. d - 1 : s[k] = IF ~u.set /\ k = i THEN u.node ELSE u.subtrees[k]
    BY <1>5
  <2> HIDE DEF s
  <2>9. ASSUME NEW k \in 0 .. m - 1, ((n + 1) \div Pow2[k]) % 2 = 1
        PROVE  s[k] = N[d - k][((n + 1) \div Pow2[k]) - 1]
    <3>1. CASE k = i
      <4>1. b % 2 = 1
        BY <1>1, <2>9, <3>1
      <4>2. ~u.set /\ b - 1 = a
        BY <1>3, <1>7, <1>8, <4>1
      <4> QED
        BY <1>1, <1>8, <1>12, <2>8, <3>1, <4>2
    <3>2. CASE k \in 0 .. i - 1
      <4>1. k # i /\ k \in 0 .. d - 1
        BY <1>0, <1>12, <3>2
      <4> QED
        BY <1>9, <2>8, <2>9, <3>2, <4>1
    <3> QED
      BY <1>12, <3>1, <3>2
  <2>10. \A k \in m .. d - 1 : s[k] = subtrees[k]
    BY <1>10, <1>11, <2>8
  <2>11. r.node = N[d - m][q] /\ r.set = TRUE /\ r.subtrees = s
    BY <2>4, <2>5
  <2>12. r = [node |-> r.node, subtrees |-> r.subtrees, set |-> r.set]
    BY <2>4, <2>11
  <2> HIDE DEF r
  <2>14. r.node = N[d - m][n \div Pow2[m]]
    BY <1>2, <1>3, <2>11
  <2>15. (n + 1) \div Pow2[m] = (n \div Pow2[m]) + (IF r.set THEN 0 ELSE 1)
    BY <1>2, <1>3, <2>6, <2>11
  <2>16. \A k \in 0 .. m - 1 :
           ((n + 1) \div Pow2[k]) % 2 = 1 => r.subtrees[k] = N[d - k][((n + 1) \div Pow2[k]) - 1]
    BY <2>9, <2>11
  <2>17. r.subtrees = [k \in 0 .. d - 1 |-> r.subtrees[k]] /\ r.set \in BOOLEAN
         /\ \A k \in m .. d - 1 : r.subtrees[k] = subtrees[k]
    BY <2>7, <2>10, <2>11
  <2>13. WentUp(r, N, n, d, subtrees, m)
    BY <2>12, <2>14, <2>15, <2>16, <2>17 DEF WentUp
  <2> QED
    BY <2>13 DEF r
<1> QED
  BY <1>3, <1>6, <1>7

\* What is appended is the tree's root and the next node's subtrees.
LEMMA AppendedHashes ==
  ASSUME NEW d \in Nat, NEW height \in Nat, TreeDepth = d + height, NEW N, IsMerkle(N, d),
         NEW n \in 0 .. Pow2[d] - 1, NEW subtrees, Frontier(N, n, d, subtrees), ZerosAfter(N, n, d),
         NEW node, node = N[d][n]
  PROVE  /\ Appended(subtrees, n, node, height).node = N[0][0]
         /\ Frontier(N, n + 1, d, Appended(subtrees, n, node, height).subtrees)
<1>1. PICK f : /\ Appended(subtrees, n, node, height) = f[d]
               /\ \A i \in 0 .. d : f[i] = IF i = 0 THEN [node |-> node, subtrees |-> subtrees, set |-> FALSE]
                                           ELSE AppendedAbove(n, height, i, f[i - 1])
  BY TreeDepth - height = d, AppendedIs
<1> DEFINE T == {i \in 0 .. d : WentUp(f[i], N, n, d, subtrees, i)}
<1>2. 0 \in T
  <2>1. Pow2[0] = 1 /\ n \div 1 = n /\ (n + 1) \div 1 = n + 1 /\ d - 0 = d
    BY PowersOfTwo
  <2>2. f[0] = [node |-> node, subtrees |-> subtrees, set |-> FALSE]
    BY <1>1, 0 \in 0 .. d
  <2>3. f[0].node = node /\ f[0].subtrees = subtrees /\ f[0].set = FALSE
    BY <2>2
  <2>4. subtrees = [k \in 0 .. d - 1 |-> subtrees[k]]
    BY DEF Frontier
  <2>5. \A k \in 0 .. 0 - 1 : FALSE
    OBVIOUS
  <2>6. PICK g : g = f[0]
    OBVIOUS
  <2>7. WentUp(g, N, n, d, subtrees, 0)
    BY <2>1, <2>2, <2>3, <2>4, <2>5, <2>6 DEF WentUp
  <2> QED
    BY <2>6, <2>7
<1>3. \A i \in T \cap 0 .. d - 1 : i + 1 \in T
  <2> SUFFICES ASSUME NEW i \in 0 .. d - 1, WentUp(f[i], N, n, d, subtrees, i)
               PROVE  WentUp(f[i + 1], N, n, d, subtrees, i + 1)
    OBVIOUS
  <2>1. PICK u, m : u = f[i] /\ m = i + 1
    OBVIOUS
  <2>2. f[m] = AppendedAbove(n, height, m, u)
    BY <1>1, <2>1, i + 1 \in 0 .. d /\ i + 1 # 0 /\ i + 1 - 1 = i
  <2>3. WentUp(AppendedAbove(n, height, m, u), N, n, d, subtrees, m)
    BY <2>1, UpOneLevel
  <2> QED
    BY <2>1, <2>2, <2>3
<1>4. d \in T
  <2> HIDE DEF T
  <2>1. 0 .. d \subseteq T
    BY <1>2, <1>3, NumbersUpTo
  <2> QED
    BY <2>1
<1>5. PICK u : u = f[d] /\ WentUp(u, N, n, d, subtrees, d)
  BY <1>4
<1>6. d - d = 0 /\ n \div Pow2[d] = 0
  <2>1. PICK p \in Nat \ {0} : p = Pow2[d]
    BY PowersOfTwo
  <2>2. n \in 0 .. p - 1
    BY <2>1
  <2>3. n \div p = 0
    BY <2>2
  <2> QED
    BY <2>1, <2>3
<1>7. u.node = N[0][0] /\ Frontier(N, n + 1, d, u.subtrees)
  BY <1>5, <1>6 DEF WentUp, Frontier
<1> QED
  BY <1>1, <1>5, <1>7

\* What is below the nodes to the left of a leaf is to its left.
LEMMA LeftOfLeaf ==
  ASSUME NEW d \in Nat, NEW h \in Nat, NEW n \in Nat, NEW i \in 0 .. d, NEW q \in Nat,
         q < n \div Pow2[i], NEW j \in q * Pow2[i + h] .. q * Pow2[i + h] + Pow2[i + h] - 1
  PROVE  j \in 0 .. n * Pow2[h] - 1
<1>1. PICK a \in Nat \ {0}, b \in Nat \ {0} : a = Pow2[i] /\ b = Pow2[h] /\ Pow2[i + h] = a * b
  <2>1. i \in Nat /\ Pow2[i] \in Nat \ {0} /\ Pow2[h] \in Nat \ {0}
    BY PowersOfTwo
  <2>2. Pow2[i + h] = Pow2[i] * Pow2[h]
    BY <2>1, PowerOfSum
  <2> QED
    BY <2>1, <2>2
<1>2. PICK m \in Nat : m = n \div a /\ a * m <= n
  BY <1>1, Quotient
<1>3. PICK e \in Nat : m = q + 1 + e
  BY <1>1, <1>2, m - (q + 1) \in Nat /\ m = q + 1 + (m - (q + 1))
<1>4. PICK f \in Nat : n = a * m + f
  BY <1>1, <1>2, a * m \in Nat /\ n - a * m \in Nat /\ n = a * m + (n - a * m)
<1>5. PICK w \in Nat : w = a * b
  BY <1>1
<1>6. n * b = q * w + w + e * w + f * b /\ q * w \in Nat /\ e * w \in Nat /\ f * b \in Nat
  <2>1. a * m = a * q + a + a * e
    BY <1>1, <1>3
  <2>2. n * b = (a * q) * b + a * b + (a * e) * b + f * b
    <3>1. PICK x \in Nat, y \in Nat : x = a * q /\ y = a * e
      BY <1>1, <1>3
    <3>2. n = x + a + y + f
      BY <1>4, <2>1, <3>1
    <3>3. (x + a + y + f) * b = x * b + a * b + y * b + f * b
      <4>1. PICK u \in Nat, v \in Nat : u = x + a /\ v = y + f
        BY <1>1, <1>4, <3>1
      <4>2. (u + v) * b = u * b + v * b
        BY <1>1, <4>1
      <4>7. f \in Nat /\ b \in Nat /\ a \in Nat
        BY <1>1, <1>4
      <4>3. (x + a) * b = x * b + a * b /\ (y + f) * b = y * b + f * b
        BY <3>1, <4>7
      <4>4. x + a + y + f = u + v
        BY <1>1, <1>4, <3>1, <4>1
      <4>5. u * b = x * b + a * b /\ v * b = y * b + f * b
        BY <4>1, <4>3
      <4>6. x * b \in Nat /\ a * b \in Nat /\ y * b \in Nat /\ f * b \in Nat
        BY <1>1, <1>4, <3>1
      <4> QED
        BY <4>2, <4>4, <4>5, <4>6
    <3> QED
      BY <3>1, <3>2, <3>3
  <2>3. (a * q) * b = q * (a * b) /\ (a * e) * b = e * (a * b)
    BY <1>1, <1>3
  <2> QED
    BY <1>1, <1>3, <1>4, <1>5, <2>2, <2>3
<1>7. PICK x \in Nat, y \in Nat, z \in Nat : x = q * w /\ y = e * w /\ z = f * b /\ n * b = x + w + y + z
  BY <1>6
<1>8. j \in x .. x + w - 1
  BY <1>1, <1>5, <1>7
<1> QED
  BY <1>1, <1>5, <1>7, <1>8

\* What is below the nodes to the right of a leaf is to its right.
LEMMA RightOfLeaf ==
  ASSUME NEW d \in Nat, NEW h \in Nat, NEW n \in Nat, NEW i \in 0 .. d, NEW q \in Nat,
         q > n \div Pow2[i], NEW j \in q * Pow2[i + h] .. q * Pow2[i + h] + Pow2[i + h] - 1
  PROVE  j >= (n + 1) * Pow2[h]
<1>1. PICK a \in Nat \ {0}, b \in Nat \ {0} : a = Pow2[i] /\ b = Pow2[h] /\ Pow2[i + h] = a * b
  <2>1. i \in Nat /\ Pow2[i] \in Nat \ {0} /\ Pow2[h] \in Nat \ {0}
    BY PowersOfTwo
  <2>2. Pow2[i + h] = Pow2[i] * Pow2[h]
    BY <2>1, PowerOfSum
  <2> QED
    BY <2>1, <2>2
<1>2. PICK m \in Nat : m = n \div a /\ n < a * m + a
  BY <1>1, Quotient
<1>3. PICK e \in Nat : q = m + 1 + e
  BY <1>1, <1>2, q - (m + 1) \in Nat /\ q = m + 1 + (q - (m + 1))
<1>4. PICK f \in Nat : a * m + a = n + 1 + f
  BY <1>1, <1>2, a * m \in Nat /\ a * m + a - (n + 1) \in Nat /\ a * m + a = n + 1 + (a * m + a - (n + 1))
<1>5. q * (a * b) = (n + 1) * b + f * b + (a * e) * b
  <2>1. PICK x \in Nat, y \in Nat : x = a * m /\ y = a * e
    BY <1>1, <1>2, <1>3
  <2>2. q * a = x + a + y
    BY <1>1, <1>2, <1>3, <2>1
  <2>3. q * (a * b) = (q * a) * b
    BY <1>1
  <2>4. q * a = (n + 1) + f + y
    BY <1>1, <1>4, <2>1, <2>2
  <2>5. ((n + 1) + f + y) * b = (n + 1) * b + f * b + y * b
    <3>1. PICK u \in Nat, v \in Nat : u = n + 1 /\ v = u + f
      BY <1>4
    <3>2. (v + y) * b = v * b + y * b
      BY <1>1, <2>1, <3>1
    <3>3. (u + f) * b = u * b + f * b
      <4>1. f \in Nat /\ b \in Nat /\ u \in Nat
        BY <1>1, <1>4, <3>1
      <4> QED
        BY <4>1
    <3> QED
      BY <3>1, <3>2, <3>3
  <2> QED
    BY <2>1, <2>3, <2>4, <2>5
<1>6. f * b \in Nat /\ (a * e) * b \in Nat /\ (n + 1) * b \in Nat
  BY <1>1, <1>3, <1>4
<1>7. PICK x \in Nat, y \in Nat, z \in Nat : x = (n + 1) * b /\ y = f * b /\ z = (a * e) * b
                                             /\ q * (a * b) = x + y + z
  BY <1>5, <1>6
<1>8. j \in Int /\ x + y + z <= j
  BY <1>1, <1>7
<1> QED
  BY <1>1, <1>7, <1>8

\* The subtrees that are kept depend on the leaves before the next one alone.
LEMMA FrontierMoves ==
  ASSUME NEW d \in Nat, NEW h \in Nat, NEW n \in 0 .. Pow2[d] - 1, NEW M, NEW N,
         IsMerkle(M, d + h), IsMerkle(N, d + h), NEW subtrees, Frontier(M, n, d, subtrees),
         \A j \in 0 .. n * Pow2[h] - 1 : M[d + h][j] = N[d + h][j]
  PROVE  Frontier(N, n, d, subtrees)
<1>0. n \in Nat /\ d + h \in Nat
  BY PowersOfTwo
<1> SUFFICES ASSUME NEW i \in 0 .. d - 1, (n \div Pow2[i]) % 2 = 1
             PROVE  M[d - i][(n \div Pow2[i]) - 1] = N[d - i][(n \div Pow2[i]) - 1]
  BY DEF Frontier
<1>1. i \in Nat /\ d - i \in 0 .. d + h /\ d - i \in Nat /\ (d + h) - (d - i) = i + h /\ (d - i) + i = d
      /\ i \in 0 .. d
  OBVIOUS
<1>2. PICK m \in 1 .. Pow2[d - i] - 1 : m = n \div Pow2[i]
  <2>1. n \div Pow2[i] \in 0 .. Pow2[d - i] - 1
    BY <1>1, QuotientInLevel
  <2>2. n \div Pow2[i] # 0
    OBVIOUS
  <2> QED
    BY <2>1, <2>2
<1>3. PICK q \in Nat : q = m - 1 /\ q \in 0 .. Pow2[d - i] - 1 /\ q < m
  <2>1. PICK p \in Nat : p = Pow2[d - i]
    BY <1>1, PowersOfTwo
  <2>2. m \in 1 .. p - 1
    BY <1>2, <2>1
  <2> QED
    BY <2>1, <2>2
<1>4. PICK l \in 0 .. d + h, k \in Nat : l = d - i /\ k = i + h /\ k = (d + h) - l
  BY <1>1
<1>5. \A j \in q * Pow2[k] .. q * Pow2[k] + Pow2[k] - 1 : M[d + h][j] = N[d + h][j]
  <2> TAKE j \in q * Pow2[k] .. q * Pow2[k] + Pow2[k] - 1
  <2>1. j \in 0 .. n * Pow2[h] - 1
    <3>1. q < n \div Pow2[i] /\ i \in 0 .. d
      BY <1>1, <1>2, <1>3
    <3>2. j \in q * Pow2[i + h] .. q * Pow2[i + h] + Pow2[i + h] - 1
      BY <1>4
    <3> QED
      BY <1>0, <3>1, <3>2, LeftOfLeaf
  <2> QED
    BY <2>1
<1>6. PICK depth \in Nat : depth = d + h
  BY <1>0
<1>7. M[l][q] = N[l][q]
  BY <1>3, <1>4, <1>5, <1>6, NodesFromLeaves
<1> QED
  BY <1>2, <1>3, <1>4, <1>7

\* Beyond the last leaf there are zeros on every level.
LEMMA ZerosBeyond ==
  ASSUME NEW d \in Nat, NEW h \in Nat, TreeDepth = d + h, NEW n \in 0 .. Pow2[d] - 1, NEW N,
         IsMerkle(N, TreeDepth),
         \A j \in 0 .. Pow2[TreeDepth] - 1 : j >= (n + 1) * Pow2[h] => N[TreeDepth][j] = ZeroLeaf
  PROVE  ZerosAfter(N, n, d)
<1>0. n \in Nat /\ TreeDepth \in Nat
  BY PowersOfTwo
<1> SUFFICES ASSUME NEW i \in 0 .. d, NEW q \in 0 .. Pow2[d - i] - 1, q > n \div Pow2[i]
             PROVE  N[d - i][q] = ContractZeros[d - i]
  BY DEF ZerosAfter
<1>1. PICK l \in 0 .. TreeDepth, k \in Nat : l = d - i /\ k = i + h /\ k = TreeDepth - l /\ l + k = TreeDepth
                                             /\ l \in Nat
  BY <1>0, d - i \in 0 .. TreeDepth /\ i + h \in Nat /\ i + h = TreeDepth - (d - i)
<1>2. q \in Nat /\ q \in 0 .. Pow2[l] - 1
  BY <1>1, PowersOfTwo
<1>3. /\ IsMerkle(ZeroNodes(TreeDepth), TreeDepth)
      /\ \A m \in 0 .. TreeDepth : \A j \in 0 .. Pow2[m] - 1 :
           ZeroNodes(TreeDepth)[m][j] = zeros(TreeDepth)[m]
      /\ \A j \in 0 .. Pow2[TreeDepth] - 1 : ZeroNodes(TreeDepth)[TreeDepth][j] = ZeroLeaf
  BY <1>0, ZeroNodesHash
<1>4. \A j \in q * Pow2[k] .. q * Pow2[k] + Pow2[k] - 1 :
        N[TreeDepth][j] = ZeroNodes(TreeDepth)[TreeDepth][j]
  <2> TAKE j \in q * Pow2[k] .. q * Pow2[k] + Pow2[k] - 1
  <2>1. j >= (n + 1) * Pow2[h]
    BY <1>0, <1>1, <1>2, RightOfLeaf
  <2>2. j \in 0 .. Pow2[TreeDepth] - 1
    <3>1. j \in 0 .. Pow2[l + k] - 1
      BY <1>1, <1>2, BelowIsInLevel
    <3> QED
      BY <1>1, <3>1
  <2> QED
    BY <1>3, <2>1, <2>2
<1>5. N[l][q] = ZeroNodes(TreeDepth)[l][q]
  BY <1>0, <1>1, <1>2, <1>3, <1>4, NodesFromLeaves
<1> QED
  BY <1>1, <1>2, <1>3, <1>5 DEF ContractZeros

\* A node is the root of the tree of the leaves below it.
LEMMA NodeIsRoot ==
  ASSUME NEW d \in Nat, NEW h \in Nat, NEW N, IsMerkle(N, d + h), NEW n \in 0 .. Pow2[d] - 1,
         NEW S, IsMerkle(S, h), \A k \in 0 .. Pow2[h] - 1 : S[h][k] = N[d + h][n * Pow2[h] + k]
  PROVE  S[0][0] = N[d][n]
<1> DEFINE R == [l \in 0 .. h |-> [k \in 0 .. Pow2[l] - 1 |-> N[d + l][n * Pow2[l] + k]]]
<1>0. n \in Nat
  BY PowersOfTwo
<1>1. \A l \in 0 .. h : \A k \in 0 .. Pow2[l] - 1 : R[l][k] = N[d + l][n * Pow2[l] + k]
  OBVIOUS
<1> HIDE DEF R
<1>2. ASSUME NEW l \in 0 .. h - 1, NEW k \in 0 .. Pow2[l] - 1
      PROVE  R[l][k] = Hash2(R[l + 1][2 * k], R[l + 1][2 * k + 1])
  <2>1. PICK p \in Nat \ {0} : p = Pow2[l] /\ Pow2[l + 1] = 2 * p
    BY PowersOfTwo
  <2>2. 2 * k \in 0 .. Pow2[l + 1] - 1 /\ 2 * k + 1 \in 0 .. Pow2[l + 1] - 1 /\ k \in Nat
    BY <2>1
  <2>3. PICK j \in Nat : j = n * p + k
    BY <1>0, <2>1, <2>2
  <2>4. n * Pow2[l + 1] + 2 * k = 2 * j /\ n * Pow2[l + 1] + (2 * k + 1) = 2 * j + 1
    <3>1. PICK w \in Nat : w = n * p /\ n * (2 * p) = 2 * w
      BY <1>0, <2>1, n * p \in Nat /\ n * (2 * p) = 2 * (n * p)
    <3> QED
      BY <2>1, <2>2, <2>3, <3>1
  <2>5. j \in n * Pow2[l] .. n * Pow2[l] + Pow2[l] - 1
    BY <1>0, <2>1, <2>2, <2>3
  <2>6. j \in 0 .. Pow2[d + l] - 1
    BY <2>5, l \in Nat, BelowIsInLevel
  <2>7. d + l \in 0 .. (d + h) - 1 /\ d + l + 1 = d + (l + 1) /\ l + 1 \in 0 .. h /\ l \in 0 .. h
    OBVIOUS
  <2>8. N[d + l][j] = Hash2(N[d + (l + 1)][2 * j], N[d + (l + 1)][2 * j + 1])
    BY <2>6, <2>7 DEF IsMerkle
  <2>9. R[l][k] = N[d + l][j]
    BY <1>1, <2>1, <2>3, <2>7
  <2>10. R[l + 1][2 * k] = N[d + (l + 1)][2 * j] /\ R[l + 1][2 * k + 1] = N[d + (l + 1)][2 * j + 1]
    BY <1>1, <2>2, <2>4, <2>7
  <2> QED
    BY <2>8, <2>9, <2>10
<1>3. IsMerkle(R, h)
  BY <1>2 DEF IsMerkle
<1>4. \A k \in 0 .. Pow2[h] - 1 : S[h][k] = R[h][k]
  BY <1>1, h \in 0 .. h
<1>5. Pow2[0] = 1 /\ 0 \in 0 .. h /\ 0 \in 0 .. Pow2[0] - 1 /\ h - 0 = h /\ d + 0 = d /\ Pow2[h] \in Nat \ {0}
  BY PowersOfTwo
<1>6. PICK zero \in 0 .. h : zero = 0 /\ zero \in 0 .. Pow2[zero] - 1 /\ h - zero = h
  BY <1>5
<1>7. \A k \in zero * Pow2[h - zero] .. zero * Pow2[h - zero] + Pow2[h - zero] - 1 : S[h][k] = R[h][k]
  BY <1>4, <1>5, <1>6
<1>8. S[zero][zero] = R[zero][zero]
  BY <1>3, <1>6, <1>7, NodesFromLeaves
<1> QED
  BY <1>0, <1>1, <1>5, <1>6, <1>8

\* A root that computeRoot gets to is of the leaf and of the nodes beside its path.
LEMMA PathDown ==
  ASSUME NEW N, NEW n \in Nat, IsMerkle(N, n), NEW index \in 0 .. Pow2[n] - 1, index < Half,
         NEW leaf, NEW nodes, Len(nodes) = n, computeRoot(leaf, index, nodes) = N[0][0]
  PROVE  /\ N[n][index] = leaf
         /\ \A i \in 1 .. n : nodes[i] = N[n - i + 1][Beside(AboveLeaf(index, i - 1))]
<1>0. index \in 0 .. Half - 1 /\ Half \in Nat /\ index \in Nat
  BY HalfIsFour, PowersOfTwo
<1>1. PICK f : computeRoot(leaf, index, nodes) = f[n] /\ HashesAbove(f, leaf, index, nodes, n)
  BY <1>0, ComputeRootAbove
<1>2. f[0] = leaf /\ \A i \in 1 .. n : f[i] = IF AboveLeaf(index, i - 1) % 2 = 1
                                              THEN Hash2(nodes[i], f[i - 1]) ELSE Hash2(f[i - 1], nodes[i])
  BY <1>1 DEF HashesAbove
<1>3. ASSUME NEW i \in 1 .. n, f[i] = N[n - i][AboveLeaf(index, i)]
      PROVE  /\ f[i - 1] = N[n - i + 1][AboveLeaf(index, i - 1)]
             /\ nodes[i] = N[n - i + 1][Beside(AboveLeaf(index, i - 1))]
  <2>1. PICK q : q = AboveLeaf(index, i - 1)
    OBVIOUS
  <2>2. /\ q \in 0 .. Pow2[n - i + 1] - 1
        /\ Beside(q) \in 0 .. Pow2[n - i + 1] - 1
        /\ AboveLeaf(index, i) \in 0 .. Pow2[n - i] - 1
        /\ N[n - i][AboveLeaf(index, i)] =
             IF q % 2 = 1 THEN Hash2(N[n - i + 1][Beside(q)], N[n - i + 1][q])
             ELSE Hash2(N[n - i + 1][q], N[n - i + 1][Beside(q)])
    <3>1. OnPath(N, n, index, i, q)
      BY <2>1, PathIs
    <3> QED
      BY <3>1 DEF OnPath
  <2>3. f[i] = IF q % 2 = 1 THEN Hash2(nodes[i], f[i - 1]) ELSE Hash2(f[i - 1], nodes[i])
    BY <1>2, <2>1
  <2>4. \A a, b, c, d : Hash2(a, b) = Hash2(c, d) => a = c /\ b = d
    BY DEF Hash2
  <2>5. CASE q % 2 = 1
    <3>1. Hash2(nodes[i], f[i - 1]) = Hash2(N[n - i + 1][Beside(q)], N[n - i + 1][q])
      BY <1>3, <2>2, <2>3, <2>5
    <3> QED
      BY <2>1, <2>4, <3>1
  <2>6. CASE q % 2 # 1
    <3>1. Hash2(f[i - 1], nodes[i]) = Hash2(N[n - i + 1][q], N[n - i + 1][Beside(q)])
      BY <1>3, <2>2, <2>3, <2>6
    <3> QED
      BY <2>1, <2>4, <3>1
  <2> QED
    BY <2>5, <2>6
<1> DEFINE T == {k \in 0 .. n : f[n - k] = N[k][AboveLeaf(index, n - k)]}
<1>4. 0 \in T
  <2>1. index \div Pow2[n] = 0
    <3>1. PICK p \in Nat \ {0} : p = Pow2[n]
      BY PowersOfTwo
    <3>2. index \in 0 .. p - 1
      BY <3>1
    <3>3. index \div p = 0
      BY <3>2
    <3> QED
      BY <3>1, <3>3
  <2>2. AboveLeaf(index, n) = 0
    BY <2>1 DEF AboveLeaf
  <2>3. n - 0 = n /\ 0 \in 0 .. n
    OBVIOUS
  <2>4. f[n] = N[0][0]
    BY <1>1
  <2> QED
    BY <2>2, <2>3, <2>4
<1>5. \A k \in T \cap 0 .. n - 1 : k + 1 \in T
  <2> SUFFICES ASSUME NEW k \in 0 .. n - 1, f[n - k] = N[k][AboveLeaf(index, n - k)]
               PROVE  f[n - (k + 1)] = N[k + 1][AboveLeaf(index, n - (k + 1))]
    OBVIOUS
  <2>1. PICK i \in 1 .. n : i = n - k /\ i - 1 = n - (k + 1) /\ n - i = k /\ n - i + 1 = k + 1
    BY n - k \in 1 .. n /\ n - (n - k) = k /\ n - (n - k) + 1 = k + 1 /\ n - k - 1 = n - (k + 1)
  <2>2. f[i] = N[n - i][AboveLeaf(index, i)]
    BY <2>1
  <2>3. f[i - 1] = N[n - i + 1][AboveLeaf(index, i - 1)]
    BY <1>3, <2>2
  <2> QED
    BY <2>1, <2>3
<1>6. \A k \in 0 .. n : f[n - k] = N[k][AboveLeaf(index, n - k)]
  <2> HIDE DEF T
  <2>1. 0 .. n \subseteq T
    BY <1>4, <1>5, NumbersUpTo
  <2> QED
    BY <2>1 DEF T
<1>7. \A i \in 1 .. n : f[i] = N[n - i][AboveLeaf(index, i)]
  <2> TAKE i \in 1 .. n
  <2>1. n - i \in 0 .. n /\ n - (n - i) = i
    OBVIOUS
  <2> QED
    BY <1>6, <2>1
<1>8. leaf = N[n][index]
  <2>1. n \in 0 .. n /\ n - n = 0 /\ AboveLeaf(index, 0) = index
    BY <1>0, AboveLeafIs
  <2> QED
    BY <1>2, <1>6, <2>1
<1> QED
  BY <1>3, <1>7, <1>8

\* What is below a node is below one of its children.
LEMMA BelowChildren ==
  ASSUME NEW r \in Nat, NEW k \in Nat, NEW j \in r * Pow2[k + 1] .. r * Pow2[k + 1] + Pow2[k + 1] - 1
  PROVE  \/ j \in (2 * r) * Pow2[k] .. (2 * r) * Pow2[k] + Pow2[k] - 1
         \/ j \in (2 * r + 1) * Pow2[k] .. (2 * r + 1) * Pow2[k] + Pow2[k] - 1
<1>1. PICK p \in Nat \ {0} : p = Pow2[k] /\ Pow2[k + 1] = 2 * p
  BY PowersOfTwo
<1>2. PICK w \in Nat : w = r * p /\ r * (2 * p) = 2 * w /\ (2 * r) * p = 2 * w /\ (2 * r + 1) * p = 2 * w + p
  <2>1. r * p \in Nat /\ r * (2 * p) = 2 * (r * p) /\ (2 * r) * p = 2 * (r * p)
        /\ (2 * r + 1) * p = 2 * (r * p) + p
    BY <1>1
  <2> QED
    BY <2>1
<1>3. j \in 2 * w .. 2 * w + 2 * p - 1
  BY <1>1, <1>2
<1>4. j \in 2 * w .. 2 * w + p - 1 \/ j \in 2 * w + p .. 2 * w + p + p - 1
  BY <1>1, <1>2, <1>3
<1> QED
  BY <1>1, <1>2, <1>4

\* Trees with the same nodes beside the path of a leaf have the same other leaves.
LEMMA LeavesBeside ==
  ASSUME NEW M, NEW N, NEW n \in Nat, IsMerkle(M, n), IsMerkle(N, n),
         NEW index \in 0 .. Pow2[n] - 1, index < Half,
         \A i \in 1 .. n : M[n - i + 1][Beside(AboveLeaf(index, i - 1))] =
                           N[n - i + 1][Beside(AboveLeaf(index, i - 1))],
         NEW j \in 0 .. Pow2[n] - 1, j # index
  PROVE  M[n][j] = N[n][j]
<1>0. index \in 0 .. Half - 1 /\ Half \in Nat /\ index \in Nat
  BY HalfIsFour, PowersOfTwo
<1> DEFINE Under(q, k) == q * Pow2[k] .. q * Pow2[k] + Pow2[k] - 1
           T == {k \in 0 .. n : \A m \in Under(AboveLeaf(index, k), k) : m # index => M[n][m] = N[n][m]}
<1>1. 0 \in T
  <2>1. Pow2[0] = 1 /\ AboveLeaf(index, 0) = index
    BY <1>0, PowersOfTwo, AboveLeafIs
  <2>2. \A m \in index * 1 .. index * 1 + 1 - 1 : m = index
    BY <1>0
  <2> QED
    BY <2>1, <2>2
<1>2. \A k \in T \cap 0 .. n - 1 : k + 1 \in T
  <2> SUFFICES ASSUME NEW k \in 0 .. n - 1,
                      \A m \in Under(AboveLeaf(index, k), k) : m # index => M[n][m] = N[n][m],
                      NEW m \in Under(AboveLeaf(index, k + 1), k + 1), m # index
               PROVE  M[n][m] = N[n][m]
    OBVIOUS
  <2>1. PICK i \in 1 .. n : i = k + 1 /\ i - 1 = k /\ k \in Nat
    BY k + 1 \in 1 .. n /\ k + 1 - 1 = k
  <2>2. PICK q \in 0 .. Half - 1 : q = AboveLeaf(index, k) /\ AboveLeaf(index, k + 1) = q \div 2
    BY <1>0, <2>1, AboveLeafIs
  <2>3. /\ q % 2 \in {0, 1}
        /\ q % 2 = 0 => q = 2 * (q \div 2) /\ Beside(q) = 2 * (q \div 2) + 1
        /\ q % 2 = 1 => q = 2 * (q \div 2) + 1 /\ Beside(q) = 2 * (q \div 2)
    BY <2>2, BesideIs
  <2>4. PICK r \in Nat : r = q \div 2
    BY <1>0, <2>2
  <2>5. m \in Under(2 * r, k) \/ m \in Under(2 * r + 1, k)
    BY <2>1, <2>2, <2>4, BelowChildren
  <2>6. m \in Under(q, k) \/ m \in Under(Beside(q), k)
    <3> HIDE DEF Under
    <3> QED
      BY <2>3, <2>4, <2>5
  <2>7. CASE m \in Under(Beside(q), k)
    <3>1. Beside(q) \in 0 .. Pow2[n - i + 1] - 1
      BY <1>0, <2>1, <2>2, PathHashes
    <3>5. PICK b : b = Beside(q)
      OBVIOUS
    <3>2. PICK l \in 0 .. n : l = n - i + 1 /\ n - l = k
      BY <2>1, n - i + 1 \in 0 .. n /\ n - (n - i + 1) = i - 1
    <3>3. M[l][b] = N[l][b] /\ b \in 0 .. Pow2[l] - 1
      BY <2>1, <2>2, <3>1, <3>2, <3>5
    <3>4. m \in b * Pow2[n - l] .. b * Pow2[n - l] + Pow2[n - l] - 1
      BY <2>7, <3>2, <3>5
    <3> QED
      BY <3>2, <3>3, <3>4, LeavesFromNodes
  <2> QED
    BY <2>2, <2>6, <2>7
<1>3. n \in T
  <2> HIDE DEF T
  <2>1. 0 .. n \subseteq T
    BY <1>1, <1>2, NumbersUpTo
  <2> QED
    BY <2>1
<1>4. AboveLeaf(index, n) = 0 /\ Under(0, n) = 0 .. Pow2[n] - 1
  <2>1. PICK p \in Nat \ {0} : p = Pow2[n]
    BY PowersOfTwo
  <2>2. index \in 0 .. p - 1
    BY <2>1
  <2>3. index \div p = 0 /\ 0 * p = 0 /\ 0 + p - 1 = p - 1
    BY <2>2
  <2> QED
    BY <2>1, <2>3 DEF AboveLeaf
<1>5. j \in Under(AboveLeaf(index, n), n)
  BY <1>4
<1> HIDE DEF Under
<1> QED
  BY <1>3, <1>5

\* The leaves of a list of keys, and the nodes above them.
LeavesOf(keys) == [i \in 0 .. Len(keys) - 1 |-> pubkeyToLeaf(keys[i + 1])]
NodesFor(keys) == MerkleNodes(TreeDepth, LeavesOf(keys))

\* A tree of the contract that has appended n times at its level d: the keys, the
\* subtrees that wait for the next one, and the root.
Appending(keys, n, d, h, subtrees, node) ==
  /\ keys \in Seq(Pubkeys) /\ n \in 0 .. Pow2[d] - 1 /\ Len(keys) = n * Pow2[h]
  /\ Frontier(NodesFor(keys), n, d, subtrees)
  /\ node = NodesFor(keys)[0][0]

\* Multiples of a number.
LEMMA Multiples ==
  ASSUME NEW n \in Nat, NEW b \in Nat, NEW p \in Nat, n + 1 <= p
  PROVE  n * b \in Nat /\ (n + 1) * b = n * b + b /\ n * b + b <= p * b
<1>1. n * b \in Nat /\ (n + 1) * b = n * b + b
  OBVIOUS
<1>2. PICK e \in Nat : p = n + 1 + e
  BY p - (n + 1) \in Nat /\ p = n + 1 + (p - (n + 1))
<1>3. (n + 1 + e) * b = (n + 1) * b + e * b /\ e * b \in Nat
  OBVIOUS
<1> QED
  BY <1>1, <1>2, <1>3

\* The nodes of keys.
LEMMA NodesForKeys ==
  ASSUME NEW keys, Len(keys) \in Nat
  PROVE  /\ TreeDepth \in Nat
         /\ IsMerkle(NodesFor(keys), TreeDepth)
         /\ \A j \in 0 .. Pow2[TreeDepth] - 1 :
              NodesFor(keys)[TreeDepth][j] = IF j < Len(keys) THEN toLeaf(keys[j + 1]) ELSE ZeroLeaf
<1>1. TreeDepth \in Nat
  BY AccountAssumption
<1>2. /\ IsMerkle(NodesFor(keys), TreeDepth)
      /\ \A j \in 0 .. Pow2[TreeDepth] - 1 :
           NodesFor(keys)[TreeDepth][j] = IF j \in DOMAIN LeavesOf(keys) THEN LeavesOf(keys)[j] ELSE ZeroLeaf
  BY <1>1, MerkleNodesHash DEF NodesFor
<1>3. Pow2[TreeDepth] \in Nat
  BY <1>1, PowersOfTwo
<1>4. ASSUME NEW j \in 0 .. Pow2[TreeDepth] - 1
      PROVE  /\ j \in DOMAIN LeavesOf(keys) <=> j < Len(keys)
             /\ j < Len(keys) => LeavesOf(keys)[j] = toLeaf(keys[j + 1])
  BY <1>3 DEF LeavesOf, pubkeyToLeaf
<1> QED
  BY <1>1, <1>2, <1>4

\* Appending keys, a leaf or a subtree at a time.
LEMMA AppendKeys ==
  ASSUME NEW d \in Nat, NEW h \in Nat, TreeDepth = d + h, NEW keys, NEW n, NEW subtrees, NEW top,
         Appending(keys, n, d, h, subtrees, top), NEW new \in Seq(Pubkeys), Len(new) = Pow2[h],
         n + 1 < Pow2[d], NEW node, node = NodesFor(keys \o new)[d][n]
  PROVE  Appending(keys \o new, n + 1, d, h, Appended(subtrees, n, node, h).subtrees,
                   Appended(subtrees, n, node, h).node)
<1>1. PICK b \in Nat \ {0}, p \in Nat \ {0} : b = Pow2[h] /\ p = Pow2[d] /\ Pow2[d + h] = p * b
  BY PowersOfTwo, PowerOfSum
<1>2. keys \in Seq(Pubkeys) /\ n \in Nat /\ n \in 0 .. Pow2[d] - 1 /\ Len(keys) = n * b
      /\ Frontier(NodesFor(keys), n, d, subtrees)
  BY <1>1 DEF Appending
<1>3. PICK w \in Nat : w = n * b /\ (n + 1) * b = w + b /\ w + b <= p * b
  <2>1. n + 1 <= p /\ b \in Nat /\ p \in Nat
    BY <1>1, <1>2
  <2> QED
    BY <1>2, <2>1, Multiples
<1> DEFINE all == keys \o new
           M == NodesFor(keys)
           N == NodesFor(all)
<1>4. all \in Seq(Pubkeys) /\ Len(all) = w + b /\ \A j \in 0 .. w - 1 : all[j + 1] = keys[j + 1]
  <2>1. Len(keys) \in Nat /\ Len(new) \in Nat /\ Len(keys) = w /\ Len(new) = b
    BY <1>1, <1>2, <1>3
  <2>0. keys \in Seq(Pubkeys)
    BY <1>2
  <2>2. all \in Seq(Pubkeys) /\ Len(all) = Len(keys) + Len(new)
    BY <2>0, ConcatProperties
  <2>3. \A i \in 1 .. Len(keys) : all[i] = keys[i]
    BY <2>0, ConcatProperties
  <2>4. \A j \in 0 .. w - 1 : j + 1 \in 1 .. w
    OBVIOUS
  <2> QED
    BY <2>1, <2>2, <2>3, <2>4
<1> HIDE DEF all
<1>5. /\ IsMerkle(M, TreeDepth)
      /\ \A j \in 0 .. Pow2[TreeDepth] - 1 :
           M[TreeDepth][j] = IF j < w THEN toLeaf(keys[j + 1]) ELSE ZeroLeaf
  <2>1. Len(keys) = w
    BY <1>2, <1>3
  <2> QED
    BY <2>1, NodesForKeys
<1>6. /\ IsMerkle(N, TreeDepth)
      /\ \A j \in 0 .. Pow2[TreeDepth] - 1 :
           N[TreeDepth][j] = IF j < w + b THEN toLeaf(all[j + 1]) ELSE ZeroLeaf
  <2>1. Len(all) = w + b /\ w + b \in Nat
    BY <1>1, <1>3, <1>4
  <2> QED
    BY <2>1, NodesForKeys
<1> HIDE DEF M, N
<1>7. w + b <= p * b /\ Pow2[TreeDepth] = p * b /\ p * b \in Nat /\ n * Pow2[h] = w
      /\ (n + 1) * Pow2[h] = w + b
  BY <1>1, <1>3
<1>8. Frontier(N, n, d, subtrees)
  <2>1. \A j \in 0 .. n * Pow2[h] - 1 : M[d + h][j] = N[d + h][j]
    <3> TAKE j \in 0 .. n * Pow2[h] - 1
    <3>1. j \in 0 .. w - 1
      BY <1>7
    <3>4. PICK z \in Nat : z = Pow2[TreeDepth] /\ w + b <= z /\ b \in Nat
      BY <1>1, <1>7
    <3>2. j \in 0 .. Pow2[TreeDepth] - 1 /\ j < w /\ j < w + b
      BY <3>1, <3>4
    <3>3. all[j + 1] = keys[j + 1]
      BY <1>4, <3>1
    <3> QED
      BY <1>5, <1>6, <3>2, <3>3
  <2>2. Frontier(M, n, d, subtrees)
    BY <1>2 DEF M
  <2>3. IsMerkle(M, d + h) /\ IsMerkle(N, d + h)
    BY <1>5, <1>6
  <2> QED
    BY <1>2, <2>1, <2>2, <2>3, FrontierMoves
<1>9. ZerosAfter(N, n, d)
  <2>1. \A j \in 0 .. Pow2[TreeDepth] - 1 : j >= (n + 1) * Pow2[h] => N[TreeDepth][j] = ZeroLeaf
    <3> TAKE j \in 0 .. Pow2[TreeDepth] - 1
    <3> HAVE j >= (n + 1) * Pow2[h]
    <3>1. j >= w + b
      BY <1>7
    <3>3. j \in Int /\ w + b \in Int
      BY <1>1
    <3>2. ~ (j < w + b)
      BY <3>1, <3>3
    <3> QED
      BY <1>6, <3>2
  <2> QED
    BY <1>2, <1>6, <2>1, ZerosBeyond
<1>10. IsMerkle(N, d)
  BY <1>6, SMTT(30) DEF IsMerkle
<1>11. node = N[d][n]
  BY DEF N, all
<1>12. /\ Appended(subtrees, n, node, h).node = N[0][0]
       /\ Frontier(N, n + 1, d, Appended(subtrees, n, node, h).subtrees)
  BY <1>2, <1>8, <1>9, <1>10, <1>11, AppendedHashes
<1>13. n + 1 \in 0 .. Pow2[d] - 1 /\ Len(all) = (n + 1) * Pow2[h]
  <2>1. Pow2[d] \in Nat /\ n + 1 < Pow2[d] /\ n \in Nat
    BY <1>1, <1>2
  <2> QED
    BY <1>4, <1>7, <2>1
<1> QED
  BY <1>4, <1>12, <1>13 DEF Appending, N, all

\* A leaf is the node of its level.
LEMMA LeafIsNode ==
  ASSUME NEW keys \in Seq(Pubkeys), NEW key \in Pubkeys, Len(keys) + 1 < Pow2[TreeDepth]
  PROVE  NodesFor(keys \o <<key>>)[TreeDepth][Len(keys)] = pubkeyToLeaf(key)
<1>1. Len(keys) \in Nat /\ Len(keys \o <<key>>) = Len(keys) + 1
      /\ (keys \o <<key>>)[Len(keys) + 1] = key
  OBVIOUS
<1>5. PICK all : all = keys \o <<key>>
  OBVIOUS
<1>2. PICK n \in Nat : n = Len(keys) /\ Len(all) = n + 1 /\ all[n + 1] = key
  BY <1>1, <1>5
<1>3. \A j \in 0 .. Pow2[TreeDepth] - 1 :
        NodesFor(all)[TreeDepth][j] = IF j < n + 1 THEN toLeaf(all[j + 1]) ELSE ZeroLeaf
  <2>1. Len(all) = n + 1 /\ n + 1 \in Nat
    BY <1>2
  <2> QED
    BY <2>1, NodesForKeys
<1>4. n \in 0 .. Pow2[TreeDepth] - 1 /\ n < n + 1
  <2>1. Pow2[TreeDepth] \in Nat
    BY PowersOfTwo, AccountAssumption
  <2> QED
    BY <1>2, <2>1
<1> QED
  BY <1>2, <1>3, <1>4, <1>5 DEF pubkeyToLeaf

\* The root of a batch is the node above its leaves.
LEMMA BatchIsNode ==
  ASSUME NEW d \in Nat, NEW h \in Nat, TreeDepth = d + h, NEW keys \in Seq(Pubkeys), NEW n \in Nat,
         Len(keys) = n * Pow2[h], NEW new \in Seq(Pubkeys), Len(new) = Pow2[h], n + 1 < Pow2[d]
  PROVE  NodesFor(keys \o new)[d][n] =
           MerkleRoot(h, [i \in 0 .. Pow2[h] - 1 |-> pubkeyToLeaf(new[i + 1])])
<1>1. PICK b \in Nat \ {0}, p \in Nat \ {0} : b = Pow2[h] /\ p = Pow2[d] /\ Pow2[d + h] = p * b
  BY PowersOfTwo, PowerOfSum
<1>2. PICK w \in Nat : w = n * b /\ (n + 1) * b = w + b /\ w + b <= p * b
  <2>1. n + 1 <= p /\ b \in Nat /\ p \in Nat
    BY <1>1
  <2> QED
    BY <2>1, Multiples
<1>3. w + b <= Pow2[TreeDepth] /\ Pow2[TreeDepth] \in Nat /\ n * Pow2[h] = w
  <2>1. Pow2[TreeDepth] = p * b
    BY <1>1
  <2>2. TreeDepth \in Nat
    OBVIOUS
  <2>3. Pow2[TreeDepth] \in Nat
    BY <2>2, PowersOfTwo
  <2> QED
    BY <1>1, <1>2, <2>1, <2>3
<1> DEFINE leaves == [i \in 0 .. Pow2[h] - 1 |-> pubkeyToLeaf(new[i + 1])]
           S == MerkleNodes(h, leaves)
<1>4. PICK all : all = keys \o new
  OBVIOUS
<1>5. Len(all) = w + b /\ \A k \in 0 .. b - 1 : all[w + k + 1] = new[k + 1]
  <2>1. Len(keys) = w /\ Len(new) = b
    BY <1>1, <1>2
  <2>2. Len(all) = Len(keys) + Len(new) /\ \A i \in 1 .. Len(new) : all[Len(keys) + i] = new[i]
    <3>1. Len(all) = Len(keys) + Len(new)
      BY <1>4
    <3>2. ASSUME NEW i \in 1 .. Len(new) PROVE all[Len(keys) + i] = new[i]
      BY <1>4, <2>1, ConcatProperties
    <3> QED
      BY <3>1, <3>2
  <2>3. ASSUME NEW k \in 0 .. b - 1 PROVE all[w + k + 1] = new[k + 1]
    <3>1. k + 1 \in 1 .. Len(new) /\ w + k + 1 = w + (k + 1)
      BY <2>1
    <3> QED
      BY <2>1, <2>2, <3>1
  <2> QED
    BY <2>1, <2>2, <2>3
<1>6. /\ IsMerkle(NodesFor(all), d + h)
      /\ \A j \in 0 .. Pow2[TreeDepth] - 1 :
           NodesFor(all)[TreeDepth][j] = IF j < w + b THEN toLeaf(all[j + 1]) ELSE ZeroLeaf
  <2>1. Len(all) \in Nat
    BY <1>1, <1>2, <1>5
  <2> QED
    BY <1>5, <2>1, NodesForKeys
<1>7. IsMerkle(S, h) /\ \A k \in 0 .. Pow2[h] - 1 : S[h][k] = leaves[k]
  <2>1. \A k \in 0 .. Pow2[h] - 1 : k \in DOMAIN leaves
    OBVIOUS
  <2> HIDE DEF leaves
  <2> QED
    BY <2>1, MerkleNodesHash
<1>8. \A k \in 0 .. Pow2[h] - 1 : S[h][k] = NodesFor(all)[d + h][n * Pow2[h] + k]
  <2> TAKE k \in 0 .. Pow2[h] - 1
  <2>1. n * Pow2[h] + k = w + k /\ k \in Nat /\ k \in 0 .. b - 1
    BY <1>1, <1>3
  <2>5. PICK z \in Nat : z = Pow2[TreeDepth] /\ w + b <= z /\ b \in Nat
    BY <1>1, <1>3
  <2>2. w + k \in 0 .. Pow2[TreeDepth] - 1 /\ w + k < w + b
    BY <2>1, <2>5
  <2>3. NodesFor(all)[d + h][w + k] = toLeaf(new[k + 1])
    BY <1>5, <1>6, <2>1, <2>2
  <2>4. S[h][k] = toLeaf(new[k + 1])
    <3>1. leaves[k] = toLeaf(new[k + 1])
      BY DEF pubkeyToLeaf
    <3> HIDE DEF leaves
    <3> QED
      BY <1>7, <3>1
  <2> QED
    BY <2>1, <2>3, <2>4
<1>9. n \in 0 .. Pow2[d] - 1
  BY <1>1
<1>10. S[0][0] = NodesFor(all)[d][n]
  <2> HIDE DEF S
  <2> QED
    BY <1>6, <1>7, <1>8, <1>9, NodeIsRoot
<1> QED
  BY <1>4, <1>10 DEF MerkleRoot

(***************************************************************************)
(* The registry: the contract's trees, the client's, and the calls.        *)
(***************************************************************************)
\* The number of batches the right tree has room for.
RightDepth == TreeDepth - BatchDepth

\* Keys that are registered, and where the client writes them.
AreKeys(side, keys) ==
  /\ keys \in Seq(Pubkeys)
  /\ \/ side = "left" /\ Len(keys) = 1
     \/ side = "right" /\ Len(keys) = BATCH_SIZE
IsPlace(side, index) ==
  \/ side = "left" /\ index \in 0 .. SET_SIZE - 1
  \/ side = "right" /\ \E n \in 0 .. Pow2[RightDepth] - 1 : index = n * BATCH_SIZE
IsCall(p) ==
  \/ p = NoRequest
  \/ /\ p = [at |-> p.at, side |-> p.side, keys |-> p.keys, index |-> p.index]
     /\ p.at \in {"send", "check", "sync"}
     /\ AreKeys(p.side, p.keys) /\ IsPlace(p.side, p.index)

ContractTrees ==
  /\ filled = [left |-> filled.left, right |-> filled.right]
  /\ chainRoot = [left |-> chainRoot.left, right |-> chainRoot.right]
  /\ Appending(left, Len(left), TreeDepth, 0, filled.left, chainRoot.left)
  /\ \E n : Appending(right, n, RightDepth, BatchDepth, filled.right, chainRoot.right)
  /\ \A tx \in mempool : AreKeys(tx.side, tx.keys)

ClientTrees ==
  /\ IsTree(treeLeft, TreeDepth) /\ Couples(treeLeft)
  /\ IsTree(treeRight, TreeDepth) /\ Couples(treeRight)
  /\ leftIndex \in 0 .. Len(left) /\ rightIndex \in 0 .. Len(right)

RequestsFit ==
  /\ pending = [c \in Callers |-> pending[c]]
  /\ \A c \in Callers : IsCall(pending[c])

ReturnedIsTrue ==
  \A r \in returned : r.id \in Nat /\ (r.last \/ r.held => OnChain(r.id, r.pubkey))

RegistryInv == ContractTrees /\ ClientTrees /\ RequestsFit /\ ReturnedIsTrue

\* The depths of the two trees.
LEMMA DepthsFit ==
  /\ TreeDepth \in Nat \ {0} /\ BatchDepth \in Nat /\ RightDepth \in Nat \ {0}
  /\ TreeDepth = TreeDepth + 0 /\ TreeDepth = RightDepth + BatchDepth
  /\ SET_SIZE \in Nat \ {0} /\ BATCH_SIZE \in Nat \ {0}
  /\ SET_SIZE = Pow2[RightDepth] * BATCH_SIZE /\ Pow2[RightDepth] \in Nat \ {0}
  /\ SET_SIZE = Pow2[TreeDepth] /\ BATCH_SIZE = Pow2[BatchDepth]
  /\ Pow2[0] = 1 /\ SET_SIZE <= Half /\ 2 * BATCH_SIZE <= SET_SIZE
<1>1. /\ TreeDepth \in Nat \ {0} /\ BatchDepth \in Nat /\ RightDepth \in Nat \ {0}
      /\ TreeDepth = TreeDepth + 0 /\ TreeDepth = RightDepth + BatchDepth
      /\ BatchDepth < TreeDepth /\ TreeDepth <= BitWidth - 1 /\ BitWidth - 1 \in Nat
  BY AccountAssumption, BitWidthAssumption DEF RightDepth
<1>2. SET_SIZE \in Nat \ {0} /\ BATCH_SIZE \in Nat \ {0} /\ Pow2[RightDepth] \in Nat \ {0} /\ Pow2[0] = 1
  BY <1>1, PowersOfTwo DEF SET_SIZE, BATCH_SIZE
<1>3. SET_SIZE = Pow2[RightDepth] * BATCH_SIZE
  BY <1>1, PowerOfSum DEF SET_SIZE, BATCH_SIZE
<1>4. SET_SIZE <= Half /\ 2 * BATCH_SIZE <= SET_SIZE
  BY <1>1, PowersGrow DEF SET_SIZE, BATCH_SIZE, Half
<1> QED
  BY <1>1, <1>2, <1>3, <1>4 DEF SET_SIZE, BATCH_SIZE

\* Nothing is kept beside the first node.
LEMMA EmptyAppending ==
  ASSUME NEW d \in Nat, NEW h \in Nat, TreeDepth = d + h, NEW keys, keys = << >>,
         NEW top, top = ContractZeros[0]
  PROVE  Appending(keys, 0, d, h, [i \in 0 .. d - 1 |-> zeroAt(i + h)], top)
<1>1. Len(keys) = 0 /\ keys \in Seq(Pubkeys) /\ Pow2[d] \in Nat \ {0} /\ Pow2[h] \in Nat /\ TreeDepth \in Nat
  BY PowersOfTwo
<1>2. \A i \in 0 .. d - 1 : 0 \div Pow2[i] = 0 /\ 0 % 2 = 0
  <2> TAKE i \in 0 .. d - 1
  <2>3. i \in Nat
    OBVIOUS
  <2>1. PICK p \in Nat \ {0} : p = Pow2[i]
    BY <2>3, PowersOfTwo
  <2>2. 0 \div p = 0
    BY <2>1
  <2> QED
    BY <2>1, <2>2
<1>3. Frontier(NodesFor(keys), 0, d, [i \in 0 .. d - 1 |-> zeroAt(i + h)])
  BY <1>2 DEF Frontier
<1>4. NodesFor(keys)[0][0] = ContractZeros[0]
  <2>1. /\ IsMerkle(NodesFor(keys), TreeDepth)
        /\ \A j \in 0 .. Pow2[TreeDepth] - 1 :
             NodesFor(keys)[TreeDepth][j] = IF j < 0 THEN toLeaf(keys[j + 1]) ELSE ZeroLeaf
    BY <1>1, NodesForKeys
  <2>2. /\ IsMerkle(ZeroNodes(TreeDepth), TreeDepth)
        /\ \A l \in 0 .. TreeDepth : \A i \in 0 .. Pow2[l] - 1 : ZeroNodes(TreeDepth)[l][i] = zeros(TreeDepth)[l]
        /\ \A j \in 0 .. Pow2[TreeDepth] - 1 : ZeroNodes(TreeDepth)[TreeDepth][j] = ZeroLeaf
    BY <1>1, ZeroNodesHash
  <2>3. PICK z \in 0 .. TreeDepth : z = 0 /\ z \in 0 .. Pow2[z] - 1 /\ TreeDepth - z = TreeDepth
    BY <1>1, PowersOfTwo
  <2>4. PICK w \in Nat : w = Pow2[TreeDepth]
    BY <1>1, PowersOfTwo
  <2>5. z * w = 0
    BY <2>3, <2>4
  <2>6. \A j \in z * Pow2[TreeDepth - z] .. z * Pow2[TreeDepth - z] + Pow2[TreeDepth - z] - 1 :
          NodesFor(keys)[TreeDepth][j] = ZeroNodes(TreeDepth)[TreeDepth][j]
    <3> TAKE j \in z * Pow2[TreeDepth - z] .. z * Pow2[TreeDepth - z] + Pow2[TreeDepth - z] - 1
    <3>1. j \in 0 .. 0 + w - 1
      BY <2>3, <2>4, <2>5
    <3>2. j \in 0 .. w - 1 /\ ~ (j < 0)
      BY <2>4, <3>1
    <3> QED
      BY <2>1, <2>2, <2>4, <3>2
  <2>7. NodesFor(keys)[z][z] = ZeroNodes(TreeDepth)[z][z]
    BY <1>1, <2>1, <2>2, <2>3, <2>6, NodesFromLeaves
  <2> QED
    BY <2>2, <2>3, <2>7 DEF ContractZeros
<1>5. 0 \in 0 .. Pow2[d] - 1 /\ 0 = 0 * Pow2[h]
  BY <1>1
<1> QED
  BY <1>1, <1>3, <1>4, <1>5 DEF Appending

\* The registry begins with trees of nothing.
LEMMA RegistryInvInit == AccountInit => RegistryInv
<1> SUFFICES ASSUME AccountInit PROVE RegistryInv
  OBVIOUS
<1>1. ContractTrees
  <2>1. filled = [left |-> filled.left, right |-> filled.right]
        /\ chainRoot = [left |-> chainRoot.left, right |-> chainRoot.right] /\ mempool = {}
        /\ filled.left = [i \in 0 .. TreeDepth - 1 |-> zeroAt(i)]
        /\ filled.right = [i \in 0 .. TreeDepth - BatchDepth - 1 |-> zeroAt(i + BatchDepth)]
        /\ chainRoot.left = zeroAt(TreeDepth) /\ chainRoot.right = zeroAt(TreeDepth)
        /\ left = << >> /\ right = << >>
    BY DEF AccountInit
  <2>2. zeroAt(TreeDepth) = ContractZeros[0]
    <3>1. TreeDepth - TreeDepth = 0
      BY DepthsFit
    <3> QED
      BY <3>1 DEF zeroAt
  <2>3. filled.left = [i \in 0 .. TreeDepth - 1 |-> zeroAt(i + 0)]
    <3>1. \A i \in 0 .. TreeDepth - 1 : i + 0 = i
      OBVIOUS
    <3> QED
      BY <2>1, <3>1
  <2>4. filled.right = [i \in 0 .. RightDepth - 1 |-> zeroAt(i + BatchDepth)]
    BY <2>1 DEF RightDepth
  <2>5. Appending(left, Len(left), TreeDepth, 0, filled.left, chainRoot.left)
    <3>1. PICK d \in Nat, h \in Nat : d = TreeDepth /\ h = 0 /\ TreeDepth = d + h
      BY DepthsFit
    <3>2. Appending(left, 0, d, h, [i \in 0 .. d - 1 |-> zeroAt(i + h)], chainRoot.left)
      BY <2>1, <2>2, <3>1, EmptyAppending
    <3>3. Len(left) = 0
      BY <2>1
    <3> QED
      BY <2>3, <3>1, <3>2, <3>3
  <2>6. Appending(right, 0, RightDepth, BatchDepth, filled.right, chainRoot.right)
    <3>1. PICK d \in Nat, h \in Nat : d = RightDepth /\ h = BatchDepth /\ TreeDepth = d + h
      BY DepthsFit
    <3>2. Appending(right, 0, d, h, [i \in 0 .. d - 1 |-> zeroAt(i + h)], chainRoot.right)
      BY <2>1, <2>2, <3>1, EmptyAppending
    <3> QED
      BY <2>4, <3>1, <3>2
  <2> QED
    BY <2>1, <2>5, <2>6 DEF ContractTrees
<1>2. ClientTrees
  <2>1. IsTree(NewTree(TreeDepth), TreeDepth) /\ Couples(NewTree(TreeDepth))
    BY DepthsFit, NewTreeIs
  <2>2. Len(left) = 0 /\ Len(right) = 0 /\ leftIndex = 0 /\ rightIndex = 0
    BY DEF AccountInit
  <2> QED
    BY <2>1, <2>2 DEF AccountInit, ClientTrees
<1>3. RequestsFit
  BY DEF AccountInit, RequestsFit, IsCall
<1>4. ReturnedIsTrue
  BY DEF AccountInit, ReturnedIsTrue
<1> QED
  BY <1>1, <1>2, <1>3, <1>4 DEF RegistryInv

\* A key stays where it is when keys are appended.
LEMMA StaysOnChain ==
  ASSUME NEW id \in Nat, NEW pubkey, OnChain(id, pubkey),
         left \in Seq(Pubkeys), right \in Seq(Pubkeys), NEW more \in Seq(Pubkeys),
         \/ left' = left \o more /\ right' = right
         \/ right' = right \o more /\ left' = left
  PROVE  OnChain(id, pubkey)'
<1>0. SET_SIZE \in Nat \ {0} /\ SET_SIZE' = SET_SIZE
  BY DepthsFit DEF SET_SIZE
<1>1. ASSUME NEW keys \in Seq(Pubkeys), NEW j \in Nat, j < Len(keys)
      PROVE  j < Len(keys \o more) /\ (keys \o more)[j + 1] = keys[j + 1]
  <2>1. Len(keys) \in Nat /\ Len(more) \in Nat /\ Len(keys \o more) = Len(keys) + Len(more)
    BY ConcatProperties, LenProperties
  <2>2. j + 1 \in 1 .. Len(keys) + Len(more) /\ j + 1 <= Len(keys)
    BY <1>1, <2>1
  <2> QED
    BY <1>1, <2>1, <2>2, ConcatProperties
<1>2. CASE id < SET_SIZE
  <2>1. id < Len(left) /\ left[id + 1] = pubkey
    BY <1>2 DEF OnChain
  <2>2. id < Len(left') /\ left'[id + 1] = pubkey
    BY <1>1, <2>1
  <2> QED
    BY <1>0, <1>2, <2>2 DEF OnChain
<1>3. CASE ~ (id < SET_SIZE)
  <2>1. id - SET_SIZE \in Nat /\ id - SET_SIZE < Len(right) /\ right[id - SET_SIZE + 1] = pubkey
    BY <1>0, <1>3 DEF OnChain
  <2>2. id - SET_SIZE < Len(right') /\ right'[id - SET_SIZE + 1] = pubkey
    BY <1>1, <2>1
  <2> QED
    BY <1>0, <1>3, <2>2 DEF OnChain
<1> QED
  BY <1>2, <1>3

\* The indices of the client are among the keys, of which there are more.
LEMMA IndexStays ==
  ASSUME NEW keys \in Seq(Pubkeys), NEW more \in Seq(Pubkeys), NEW index \in 0 .. Len(keys)
  PROVE  index \in 0 .. Len(keys \o more)
<1>1. Len(keys) \in Nat /\ Len(more) \in Nat /\ Len(keys \o more) = Len(keys) + Len(more)
  BY ConcatProperties, LenProperties
<1> QED
  BY <1>1

\* A key is appended to the left tree.
LEMMA LeftAppends ==
  ASSUME ContractTrees, NEW pubkey \in Pubkeys, updateLeft(pubkey)
  PROVE  /\ left' = left \o <<pubkey>> /\ right' = right
         /\ filled' = [left |-> filled'.left, right |-> filled.right]
         /\ chainRoot' = [left |-> chainRoot'.left, right |-> chainRoot.right]
         /\ Appending(left', Len(left'), TreeDepth, 0, filled'.left, chainRoot'.left)
<1>1. left \in Seq(Pubkeys) /\ Len(left) \in Nat /\ Appending(left, Len(left), TreeDepth, 0, filled.left, chainRoot.left)
  <2>1. Appending(left, Len(left), TreeDepth, 0, filled.left, chainRoot.left)
    BY DEF ContractTrees
  <2> QED
    BY <2>1 DEF Appending
<1>2. PICK n \in Nat, d \in Nat, h \in Nat : n = Len(left) /\ d = TreeDepth /\ h = 0 /\ TreeDepth = d + h
  BY <1>1, DepthsFit
<1>3. PICK a : a = Appended(filled.left, n, pubkeyToLeaf(pubkey), h)
  OBVIOUS
<1>4. /\ n < SET_SIZE - 1 /\ left' = Append(left, pubkey) /\ right' = right
      /\ filled' = [filled EXCEPT !.left = a.subtrees] /\ chainRoot' = [chainRoot EXCEPT !.left = a.node]
  BY <1>2, <1>3 DEF updateLeft
<1>5. left' = left \o <<pubkey>> /\ Len(left') = n + 1
  BY <1>1, <1>2, <1>4, AppendIsConcat, AppendProperties
<1>6. filled' = [left |-> a.subtrees, right |-> filled.right]
      /\ chainRoot' = [left |-> a.node, right |-> chainRoot.right]
  <2>1. PICK l, r, x, y : filled = [left |-> l, right |-> r] /\ chainRoot = [left |-> x, right |-> y]
    BY DEF ContractTrees
  <2> QED
    BY <1>4, <2>1
<1>7. n + 1 < Pow2[d] /\ n + 1 < Pow2[TreeDepth]
  BY <1>2, <1>4, DepthsFit
<1>8. <<pubkey>> \in Seq(Pubkeys) /\ Len(<<pubkey>>) = Pow2[h]
  BY <1>2, DepthsFit
<1>9. PICK new \in Seq(Pubkeys) : new = <<pubkey>> /\ Len(new) = Pow2[h]
  BY <1>8
<1>10. PICK node : node = pubkeyToLeaf(pubkey) /\ node = NodesFor(left \o new)[d][n]
  <2>1. NodesFor(left \o <<pubkey>>)[TreeDepth][Len(left)] = pubkeyToLeaf(pubkey)
    BY <1>1, <1>2, <1>7, LeafIsNode
  <2> QED
    BY <1>2, <1>9, <2>1
<1>11. PICK subtrees, top : subtrees = filled.left /\ top = chainRoot.left /\ Appending(left, n, d, h, subtrees, top)
  BY <1>1, <1>2
<1>12. Appending(left \o new, n + 1, d, h, Appended(subtrees, n, node, h).subtrees,
                 Appended(subtrees, n, node, h).node)
  BY <1>1, <1>2, <1>7, <1>9, <1>10, <1>11, AppendKeys
<1>13. Appending(left', Len(left'), TreeDepth, 0, a.subtrees, a.node)
  BY <1>2, <1>3, <1>5, <1>9, <1>10, <1>11, <1>12
<1> QED
  BY <1>4, <1>5, <1>6, <1>13

\* A batch of keys is appended to the right tree.
LEMMA RightAppends ==
  ASSUME ContractTrees, NEW pubkeys \in Seq(Pubkeys), Len(pubkeys) = BATCH_SIZE, updateRight(pubkeys)
  PROVE  /\ right' = right \o pubkeys /\ left' = left
         /\ filled' = [left |-> filled.left, right |-> filled'.right]
         /\ chainRoot' = [left |-> chainRoot.left, right |-> chainRoot'.right]
         /\ \E n : Appending(right', n, RightDepth, BatchDepth, filled'.right, chainRoot'.right)
<1>1. PICK n : Appending(right, n, RightDepth, BatchDepth, filled.right, chainRoot.right)
  BY DEF ContractTrees
<1>2. PICK d \in Nat, h \in Nat, b \in Nat \ {0}, p \in Nat \ {0} :
        d = RightDepth /\ h = BatchDepth /\ TreeDepth = d + h /\ b = BATCH_SIZE /\ b = Pow2[h] /\ p = Pow2[d]
        /\ SET_SIZE = p * b
  BY DepthsFit
<1>3. right \in Seq(Pubkeys) /\ n \in 0 .. p - 1 /\ n \in Nat /\ Len(right) = n * b
  BY <1>1, <1>2 DEF Appending
<1>4. Len(right) \div BATCH_SIZE = n
  <2>1. PICK w \in Nat : w = b * n /\ w = n * b
    <3>1. b \in Nat /\ n \in Nat
      BY <1>2, <1>3
    <3> QED
      BY <3>1, b * n \in Nat /\ b * n = n * b
  <2>2. b * n <= w /\ w < b * n + b
    BY <1>2, <2>1
  <2>3. w \div b = n
    BY <1>2, <1>3, <2>2, QuotientIs
  <2> QED
    BY <1>2, <1>3, <2>1, <2>3
<1>5. n + 1 < p
  <2>1. Len(right) < SET_SIZE - 1 - BATCH_SIZE
    BY DEF updateRight
  <2>2. n * b < p * b - 1 - b
    BY <1>2, <1>3, <2>1
  <2>3. n + 1 <= p
    BY <1>2, <1>3
  <2>4. (n + 1) * b = n * b + b /\ n * b \in Nat
    <3>1. n \in Nat /\ b \in Nat /\ p \in Nat /\ n + 1 <= p
      BY <1>2, <1>3, <2>3
    <3> QED
      BY <3>1, Multiples
  <2>5. n + 1 # p
    BY <1>2, <2>2, <2>4
  <2> QED
    BY <1>2, <1>3, <2>3, <2>5
<1>6. PICK node : node = MerkleRoot(h, [i \in 0 .. b - 1 |-> pubkeyToLeaf(pubkeys[i + 1])])
  OBVIOUS
<1>7. PICK a : a = Appended(filled.right, n, node, h)
  OBVIOUS
<1>8. /\ right' = right \o pubkeys /\ left' = left
      /\ filled' = [filled EXCEPT !.right = a.subtrees] /\ chainRoot' = [chainRoot EXCEPT !.right = a.node]
  BY <1>2, <1>4, <1>6, <1>7 DEF updateRight
<1>9. filled' = [left |-> filled.left, right |-> a.subtrees]
      /\ chainRoot' = [left |-> chainRoot.left, right |-> a.node]
  <2>1. PICK l, r, x, y : filled = [left |-> l, right |-> r] /\ chainRoot = [left |-> x, right |-> y]
    BY DEF ContractTrees
  <2> QED
    BY <1>8, <2>1
<1>10. node = NodesFor(right \o pubkeys)[d][n]
  <2>1. Len(right) = n * Pow2[h] /\ Len(pubkeys) = Pow2[h] /\ n + 1 < Pow2[d]
    BY <1>2, <1>3, <1>5
  <2>2. NodesFor(right \o pubkeys)[d][n] =
          MerkleRoot(h, [i \in 0 .. Pow2[h] - 1 |-> pubkeyToLeaf(pubkeys[i + 1])])
    <3>1. right \in Seq(Pubkeys) /\ n \in Nat /\ TreeDepth = d + h
      BY <1>2, <1>3
    <3> QED
      BY <2>1, <3>1, BatchIsNode
  <2> QED
    BY <1>2, <1>6, <2>2
<1>11. PICK subtrees, top : subtrees = filled.right /\ top = chainRoot.right /\ Appending(right, n, d, h, subtrees, top)
  BY <1>1, <1>2
<1>12. Appending(right \o pubkeys, n + 1, d, h, Appended(subtrees, n, node, h).subtrees,
                 Appended(subtrees, n, node, h).node)
  <2>1. Len(pubkeys) = Pow2[h] /\ n + 1 < Pow2[d]
    BY <1>2, <1>5
  <2> QED
    BY <1>2, <1>3, <1>10, <1>11, <2>1, AppendKeys
<1>13. Appending(right', n + 1, RightDepth, BatchDepth, a.subtrees, a.node)
  BY <1>2, <1>7, <1>8, <1>11, <1>12
<1> QED
  BY <1>8, <1>9, <1>13

\* A registration is mined.
LEMMA MineKeeps ==
  ASSUME RegistryInv, Mine
  PROVE  RegistryInv'
<1>1. PICK tx \in mempool :
        /\ mempool' = mempool \ {tx}
        /\ IF tx.side = "left" THEN updateLeft(tx.keys[1]) ELSE updateRight(tx.keys)
        /\ UNCHANGED <<clientVars, pending, sent, returned>>
  BY DEF Mine
<1>2. AreKeys(tx.side, tx.keys) /\ ContractTrees
  BY DEF RegistryInv, ContractTrees
<1>3. left \in Seq(Pubkeys) /\ right \in Seq(Pubkeys)
  BY <1>2 DEF ContractTrees, Appending
<1>4. \E more \in Seq(Pubkeys) :
        /\ \/ left' = left \o more /\ right' = right
           \/ right' = right \o more /\ left' = left
        /\ filled' = [left |-> filled'.left, right |-> filled'.right]
        /\ chainRoot' = [left |-> chainRoot'.left, right |-> chainRoot'.right]
        /\ Appending(left', Len(left'), TreeDepth, 0, filled'.left, chainRoot'.left)
        /\ \E n : Appending(right', n, RightDepth, BatchDepth, filled'.right, chainRoot'.right)
  <2>1. CASE tx.side = "left"
    <3>1. PICK pubkey \in Pubkeys : pubkey = tx.keys[1]
      BY <1>2, <2>1 DEF AreKeys
    <3>2. /\ left' = left \o <<pubkey>> /\ right' = right
          /\ filled' = [left |-> filled'.left, right |-> filled.right]
          /\ chainRoot' = [left |-> chainRoot'.left, right |-> chainRoot.right]
          /\ Appending(left', Len(left'), TreeDepth, 0, filled'.left, chainRoot'.left)
      BY <1>1, <1>2, <2>1, <3>1, LeftAppends
    <3>3. filled'.right = filled.right /\ chainRoot'.right = chainRoot.right
      <4>1. \A x, y, r : r = [left |-> x, right |-> y] => r.right = y
        OBVIOUS
      <4> QED
        BY <3>2, <4>1
    <3>4. <<pubkey>> \in Seq(Pubkeys)
      OBVIOUS
    <3>5. \E n : Appending(right', n, RightDepth, BatchDepth, filled'.right, chainRoot'.right)
      BY <1>2, <3>2, <3>3 DEF ContractTrees
    <3> QED
      BY <3>2, <3>3, <3>4, <3>5
  <2>2. CASE tx.side = "right"
    <3>1. /\ right' = right \o tx.keys /\ left' = left
          /\ filled' = [left |-> filled.left, right |-> filled'.right]
          /\ chainRoot' = [left |-> chainRoot.left, right |-> chainRoot'.right]
          /\ \E n : Appending(right', n, RightDepth, BatchDepth, filled'.right, chainRoot'.right)
      <4>1. tx.keys \in Seq(Pubkeys) /\ Len(tx.keys) = BATCH_SIZE /\ updateRight(tx.keys)
        BY <1>1, <1>2, <2>2 DEF AreKeys
      <4> QED
        BY <1>2, <4>1, RightAppends
    <3>2. filled'.left = filled.left /\ chainRoot'.left = chainRoot.left
      <4>1. \A x, y, r : r = [left |-> x, right |-> y] => r.left = x
        OBVIOUS
      <4> QED
        BY <3>1, <4>1
    <3>3. Appending(left', Len(left'), TreeDepth, 0, filled'.left, chainRoot'.left)
      BY <1>2, <3>1, <3>2 DEF ContractTrees
    <3>4. tx.keys \in Seq(Pubkeys)
      BY <1>2 DEF AreKeys
    <3> QED
      BY <3>1, <3>2, <3>3, <3>4
  <2> QED
    BY <1>2, <2>1, <2>2 DEF AreKeys
<1>5. ContractTrees'
  BY <1>1, <1>2, <1>4 DEF ContractTrees, AreKeys, Appending, RightDepth, BATCH_SIZE, NodesFor, LeavesOf
<1>6. ClientTrees'
  <2>1. leftIndex \in 0 .. Len(left') /\ rightIndex \in 0 .. Len(right')
    BY <1>3, <1>4, IndexStays DEF RegistryInv, ClientTrees
  <2> QED
    BY <1>1, <2>1 DEF RegistryInv, ClientTrees, clientVars
<1>7. RequestsFit'
  BY <1>1 DEF RegistryInv, RequestsFit
<1>8. ReturnedIsTrue'
  <2> SUFFICES ASSUME NEW r \in returned
               PROVE  r.id \in Nat /\ (r.last \/ r.held => OnChain(r.id, r.pubkey)')
    BY <1>1 DEF ReturnedIsTrue
  <2>1. r.id \in Nat /\ (r.last \/ r.held => OnChain(r.id, r.pubkey))
    BY DEF RegistryInv, ReturnedIsTrue
  <2> QED
    BY <1>3, <1>4, <2>1, StaysOnChain
<1> QED
  BY <1>5, <1>6, <1>7, <1>8 DEF RegistryInv

\* The number of keys in either tree is a place in it.
LEMMA LengthIsPlace ==
  ASSUME ContractTrees
  PROVE  /\ IsPlace("left", Len(left)) /\ IsPlace("right", Len(right))
         /\ Len(left) \in Nat /\ Len(right) \in Nat
<1>1. PICK n : Appending(right, n, RightDepth, BatchDepth, filled.right, chainRoot.right)
  BY DEF ContractTrees
<1>2. n \in 0 .. Pow2[RightDepth] - 1 /\ Len(right) = n * BATCH_SIZE /\ right \in Seq(Pubkeys)
  BY <1>1, DepthsFit DEF Appending
<1>3. left \in Seq(Pubkeys) /\ Len(left) \in 0 .. SET_SIZE - 1
  BY DepthsFit DEF ContractTrees, Appending
<1> QED
  BY <1>2, <1>3, LenProperties DEF IsPlace

\* The client reads how many keys there are.
LEMMA SyncKeeps ==
  ASSUME ContractTrees, ClientTrees, NEW side, syncIndex(side), UNCHANGED <<left, right>>
  PROVE  ClientTrees'
<1>1. Len(left) \in Nat /\ Len(right) \in Nat
  BY LengthIsPlace
<1> QED
  BY <1>1 DEF ClientTrees, syncIndex

\* A registration that is sent waits with the others.
LEMMA SentKeeps ==
  ASSUME ContractTrees, NEW side, NEW keys, AreKeys(side, keys), NEW c, Sends(side, keys, c)
  PROVE  ContractTrees' /\ UNCHANGED <<left, right>>
<1>1. /\ UNCHANGED <<left, right, filled, chainRoot>>
      /\ mempool' = mempool \cup {[side |-> side, keys |-> keys, from |-> c, n |-> sent]}
  BY DEF Sends
<1>2. \A tx \in mempool' : AreKeys(tx.side, tx.keys)
  <2> SUFFICES ASSUME NEW tx \in mempool' PROVE AreKeys(tx.side, tx.keys)
    OBVIOUS
  <2>1. CASE tx \in mempool
    BY <2>1 DEF ContractTrees
  <2>2. CASE tx = [side |-> side, keys |-> keys, from |-> c, n |-> sent]
    <3>1. tx.side = side /\ tx.keys = keys
      BY <2>2
    <3> QED
      BY <3>1
  <2> QED
    BY <1>1, <2>1, <2>2
<1>3. \E n : Appending(right', n, RightDepth, BatchDepth, filled'.right, chainRoot'.right)
  BY <1>1 DEF ContractTrees
<1>4. \A tx \in mempool' : AreKeys(tx.side, tx.keys)'
  BY <1>2 DEF AreKeys, BATCH_SIZE
<1>5. Appending(left', Len(left'), TreeDepth, 0, filled'.left, chainRoot'.left)
  BY <1>1 DEF ContractTrees
<1>6. /\ filled' = [left |-> filled'.left, right |-> filled'.right]
      /\ chainRoot' = [left |-> chainRoot'.left, right |-> chainRoot'.right]
  BY <1>1 DEF ContractTrees
<1> QED
  BY <1>1, <1>3, <1>4, <1>5, <1>6 DEF ContractTrees, AreKeys, Appending, RightDepth, BATCH_SIZE, NodesFor, LeavesOf

\* The keys of a call of the client's.
LEMMA RequestKeys ==
  /\ \A pubkey \in Pubkeys : IsRequest("left", <<pubkey>>) => AreKeys("left", <<pubkey>>)
  /\ \A keys \in KeyBatches : IsRequest("right", keys) => AreKeys("right", keys)
<1>1. ASSUME NEW pubkey \in Pubkeys PROVE AreKeys("left", <<pubkey>>)
  <2>1. <<pubkey>> \in Seq(Pubkeys) /\ Len(<<pubkey>>) = 1
    OBVIOUS
  <2> QED
    BY <2>1 DEF AreKeys
<1>2. ASSUME NEW keys \in KeyBatches, IsRequest("right", keys) PROVE AreKeys("right", keys)
  <2>1. keys \in Seq(Pubkeys) /\ Len(keys) = BATCH_SIZE
    BY <1>2, AccountAssumption DEF IsRequest
  <2> QED
    BY <2>1 DEF AreKeys
<1> QED
  BY <1>1, <1>2

\* What was returned stays true while the trees do not change.
LEMMA ReturnedStays ==
  ASSUME ReturnedIsTrue, UNCHANGED <<left, right, returned>>
  PROVE  ReturnedIsTrue'
BY DEF ReturnedIsTrue, OnChain, SET_SIZE

\* Somebody else registers.
LEMMA OthersKeep ==
  ASSUME RegistryInv, NEW side, NEW keys, AreKeys(side, keys), OthersRegister(side, keys)
  PROVE  RegistryInv'
<1>1. Sends(side, keys, "other") /\ UNCHANGED <<clientVars, pending, returned>>
  BY DEF OthersRegister
<1>2. ContractTrees' /\ UNCHANGED <<left, right>>
  BY <1>1, SentKeeps DEF RegistryInv
<1>3. ClientTrees'
  BY <1>1, <1>2 DEF RegistryInv, ClientTrees, clientVars
<1>4. RequestsFit'
  BY <1>1 DEF RegistryInv, RequestsFit
<1>5. ReturnedIsTrue'
  BY <1>1, <1>2, ReturnedStays DEF RegistryInv
<1> QED
  BY <1>2, <1>3, <1>4, <1>5 DEF RegistryInv

\* One call changes.
LEMMA OneRequestFits ==
  ASSUME RequestsFit, NEW c \in Callers, NEW p, IsCall(p), pending' = [pending EXCEPT ![c] = p]
  PROVE  RequestsFit'
<1>1. pending' = [x \in Callers |-> IF x = c THEN p ELSE pending[x]]
  BY DEF RequestsFit
<1>2. \A x \in Callers : IsCall(pending'[x])
  BY <1>1 DEF RequestsFit
<1> QED
  BY <1>1, <1>2 DEF RequestsFit, IsCall, AreKeys, IsPlace, SET_SIZE, BATCH_SIZE, RightDepth

\* register and registerBatch read the index.
LEMMA RegisterKeeps ==
  ASSUME RegistryInv, NEW c \in Callers, NEW side, NEW keys, AreKeys(side, keys),
         register(c, side, keys)
  PROVE  RegistryInv'
<1>1. PICK p : p = [at |-> "send", side |-> side, keys |-> keys,
                    index |-> IF side = "left" THEN Len(left) ELSE Len(right)]
  OBVIOUS
<1>2. /\ syncIndex(side) /\ UNCHANGED <<chainVars, sent, returned>>
      /\ pending' = [pending EXCEPT ![c] = p]
  BY <1>1 DEF register
<1>3. UNCHANGED <<left, right, filled, chainRoot, mempool>>
  BY <1>2 DEF chainVars
<1>4. IsCall(p)
  <2>1. IsPlace(side, IF side = "left" THEN Len(left) ELSE Len(right))
    <3>1. IsPlace("left", Len(left)) /\ IsPlace("right", Len(right))
      BY LengthIsPlace DEF RegistryInv
    <3>2. side \in {"left", "right"}
      BY DEF AreKeys
    <3> QED
      BY <3>1, <3>2
  <2>2. p.at = "send" /\ p.side = side /\ p.keys = keys
        /\ p.index = IF side = "left" THEN Len(left) ELSE Len(right)
    BY <1>1
  <2> QED
    BY <1>1, <2>1, <2>2 DEF IsCall
<1>5. RequestsFit'
  BY <1>2, <1>4, OneRequestFits DEF RegistryInv
<1>6. ClientTrees'
  BY <1>2, <1>3, SyncKeeps DEF RegistryInv
<1>7. ContractTrees'
  BY <1>3 DEF RegistryInv, ContractTrees, Appending, AreKeys, NodesFor, LeavesOf, RightDepth, BATCH_SIZE
<1>8. ReturnedIsTrue'
  BY <1>2, <1>3, ReturnedStays DEF RegistryInv
<1> QED
  BY <1>5, <1>6, <1>7, <1>8 DEF RegistryInv

\* A call returns.
LEMMA ReturnKeeps ==
  ASSUME RegistryInv, NEW c \in Callers, Return(c)
  PROVE  RegistryInv'
<1>1. /\ syncIndex(pending[c].side) /\ UNCHANGED <<chainVars, sent, returned>>
      /\ pending' = [pending EXCEPT ![c] = NoRequest]
  BY DEF Return
<1>2. UNCHANGED <<left, right, filled, chainRoot, mempool>>
  BY <1>1 DEF chainVars
<1>3. RequestsFit'
  <2>1. IsCall(NoRequest)
    BY DEF IsCall
  <2> QED
    BY <1>1, <2>1, OneRequestFits DEF RegistryInv
<1>4. ClientTrees'
  BY <1>1, <1>2, SyncKeeps DEF RegistryInv
<1>5. ContractTrees'
  BY <1>2 DEF RegistryInv, ContractTrees, Appending, AreKeys, NodesFor, LeavesOf, RightDepth, BATCH_SIZE
<1>6. ReturnedIsTrue'
  BY <1>1, <1>2, ReturnedStays DEF RegistryInv
<1> QED
  BY <1>3, <1>4, <1>5, <1>6 DEF RegistryInv

\* A place for a batch is the first leaf of a subtree, and the batch fits in it.
LEMMA BatchFitsPlace ==
  ASSUME NEW index, IsPlace("right", index)
  PROVE  /\ index \in Nat /\ index + BATCH_SIZE <= SET_SIZE
         /\ 2 * (((index + BATCH_SIZE - 1) \div 2) - (index \div 2) + 1) < Half
<1>1. PICK b \in Nat \ {0}, p \in Nat \ {0}, s \in Nat :
        b = BATCH_SIZE /\ p = Pow2[RightDepth] /\ s = SET_SIZE /\ s = p * b /\ 2 * b <= s /\ s <= Half
  BY DepthsFit
<1>2. PICK n \in 0 .. p - 1 : index = n * b
  BY <1>1 DEF IsPlace
<1>3. n \in Nat /\ n + 1 <= p /\ b \in Nat /\ p \in Nat
  BY <1>1, <1>2
<1>4. n * b \in Nat /\ n * b + b <= p * b
  BY <1>3, Multiples
<1>5. Half \in Nat /\ Half >= 4
  BY HalfIsFour
<1>6. PICK i \in Nat : i = index /\ i = n * b /\ i + b <= s
  BY <1>1, <1>2, <1>4
<1>7. CASE b = 1
  <2>1. i + b - 1 = i
    BY <1>7
  <2>2. i \div 2 \in Nat
    OBVIOUS
  <2>3. 2 * ((i \div 2) - (i \div 2) + 1) = 2
    BY <2>2
  <2> QED
    BY <1>1, <1>5, <1>6, <2>1, <2>3
<1>8. CASE b # 1
  <2>1. PICK k \in Nat : BatchDepth = k + 1
    <3>1. BatchDepth \in Nat /\ BatchDepth # 0
      BY <1>1, <1>8, DepthsFit
    <3>2. BatchDepth - 1 \in Nat /\ BatchDepth = (BatchDepth - 1) + 1
      BY <3>1
    <3> QED
      BY <3>2
  <2>2. PICK c \in Nat \ {0} : b = 2 * c
    BY <1>1, <2>1, DepthsFit, PowersOfTwo
  <2>3. PICK w \in Nat : w = n * c /\ i = 2 * w
    <3>1. n * c \in Nat /\ n * (2 * c) = 2 * (n * c)
      BY <1>3
    <3> QED
      BY <1>6, <2>2, <3>1
  <2>4. (i + b - 1) \div 2 = w + c - 1 /\ i \div 2 = w
    BY <2>2, <2>3
  <2>5. 2 * ((w + c - 1) - w + 1) = b
    BY <2>2
  <2>6. b < Half
    BY <1>1, <1>5
  <2> QED
    BY <1>1, <1>6, <2>4, <2>5, <2>6
<1> QED
  BY <1>1, <1>6, <1>7, <1>8

\* The call goes on, where it writes.
LEMMA CallGoesOn ==
  ASSUME RequestsFit, NEW c \in Callers, NEW at \in {"send", "check", "sync"}, pending[c] # NoRequest,
         pending' = [pending EXCEPT ![c].at = at]
  PROVE  RequestsFit'
<1>1. IsCall(pending[c]) /\ pending[c] # NoRequest
  BY DEF RequestsFit
<1>2. PICK p : p = pending[c]
  OBVIOUS
<1>3. p = [at |-> p.at, side |-> p.side, keys |-> p.keys, index |-> p.index]
      /\ AreKeys(p.side, p.keys) /\ IsPlace(p.side, p.index)
  BY <1>1, <1>2 DEF IsCall
<1>4. PICK r : r = [p EXCEPT !.at = at]
  OBVIOUS
<1>5. r = [at |-> at, side |-> p.side, keys |-> p.keys, index |-> p.index]
  BY <1>3, <1>4
<1>6. IsCall(r)
  <2>1. r.at = at /\ r.side = p.side /\ r.keys = p.keys /\ r.index = p.index
    BY <1>5
  <2> QED
    BY <1>3, <1>5, <2>1 DEF IsCall
<1>7. pending' = [pending EXCEPT ![c] = r]
  BY <1>2, <1>4
<1> QED
  BY <1>6, <1>7, OneRequestFits

\* What a call in progress is.
LEMMA InProgress ==
  ASSUME RequestsFit, NEW c \in Callers, pending[c].at \in {"send", "check", "sync"}
  PROVE  /\ pending[c] # NoRequest
         /\ AreKeys(pending[c].side, pending[c].keys) /\ IsPlace(pending[c].side, pending[c].index)
<1>1. NoRequest.at = "none"
  BY DEF NoRequest
<1>2. pending[c] # NoRequest
  BY <1>1
<1>3. IsCall(pending[c])
  BY DEF RequestsFit
<1> QED
  BY <1>2, <1>3 DEF IsCall

\* A registration is sent, and its leaves written where the index was.
LEMMA SendAndWriteKeeps ==
  ASSUME RegistryInv, NEW c \in Callers, SendAndWrite(c)
  PROVE  RegistryInv'
<1>1. PICK p : p = pending[c]
  OBVIOUS
<1>2. PICK leaves : leaves = [i \in DOMAIN p.keys |-> pubkeyToLeaf(p.keys[i])]
  OBVIOUS
<1>3. /\ p.at = "send" /\ Sends(p.side, p.keys, c)
      /\ IF p.side = "left"
         THEN treeLeft' = updateSingle(treeLeft, p.index, leaves[1]) /\ UNCHANGED treeRight
         ELSE treeRight' = updateBatch(treeRight, p.index, leaves) /\ UNCHANGED treeLeft
      /\ pending' = [pending EXCEPT ![c].at = "check"]
      /\ UNCHANGED <<leftIndex, rightIndex, returned>>
  BY <1>1, <1>2 DEF SendAndWrite
<1>4. pending[c] # NoRequest /\ AreKeys(p.side, p.keys) /\ IsPlace(p.side, p.index)
  BY <1>1, <1>3, InProgress DEF RegistryInv
<1>5. ContractTrees' /\ UNCHANGED <<left, right>>
  BY <1>3, <1>4, SentKeeps DEF RegistryInv
<1>6. RequestsFit'
  BY <1>3, <1>4, CallGoesOn DEF RegistryInv
<1>7. ReturnedIsTrue'
  BY <1>3, <1>5, ReturnedStays DEF RegistryInv
<1>8. /\ IsTree(treeLeft, TreeDepth) /\ Couples(treeLeft)
      /\ IsTree(treeRight, TreeDepth) /\ Couples(treeRight)
      /\ leftIndex \in 0 .. Len(left) /\ rightIndex \in 0 .. Len(right)
  BY DEF RegistryInv, ClientTrees
<1>9. PICK n \in Nat \ {0} : n = TreeDepth /\ Pow2[n] = SET_SIZE /\ SET_SIZE <= Half /\ SET_SIZE \in Nat
  BY DepthsFit
<1>10. CASE p.side = "left"
  <2>1. treeLeft' = updateSingle(treeLeft, p.index, leaves[1]) /\ treeRight' = treeRight
    BY <1>3, <1>10
  <2>2. p.index \in 0 .. Pow2[n] - 1 /\ p.index < Half
    <3>1. p.index \in 0 .. SET_SIZE - 1
      BY <1>4, <1>10 DEF IsPlace
    <3> QED
      BY <1>9, <3>1, HalfIsFour
  <2>3. LeavesSet(treeLeft', treeLeft, n, p.index, <<leaves[1]>>)
    BY <1>8, <1>9, <2>1, <2>2, UpdateSingleIs
  <2>4. IsTree(treeLeft', n) /\ Couples(treeLeft')
    BY <2>3 DEF LeavesSet
  <2>5. IsTree(treeLeft', TreeDepth) /\ IsTree(treeRight', TreeDepth) /\ Couples(treeLeft') /\ Couples(treeRight')
    BY <1>8, <1>9, <2>1, <2>4
  <2> QED
    BY <1>3, <1>5, <1>6, <1>7, <1>8, <2>5 DEF RegistryInv, ClientTrees
<1>11. CASE p.side # "left"
  <2>1. treeRight' = updateBatch(treeRight, p.index, leaves) /\ treeLeft' = treeLeft
    BY <1>3, <1>11
  <2>2. p.keys \in Seq(Pubkeys) /\ Len(p.keys) = BATCH_SIZE /\ IsPlace("right", p.index)
    BY <1>4, <1>11 DEF AreKeys, IsPlace
  <2>3. PICK b \in Nat \ {0} : b = BATCH_SIZE
    BY DepthsFit
  <2>4. Len(leaves) = b /\ leaves # << >> /\ \E S : leaves \in Seq(S)
    <3>1. DOMAIN p.keys = 1 .. b
      BY <2>2, <2>3, LenProperties
    <3>2. leaves = [i \in 1 .. b |-> leaves[i]]
      BY <1>2, <3>1
    <3>3. Len(leaves) = b /\ \E S : leaves \in Seq(S)
      BY <2>3, <3>2, LenOfFunction
    <3>4. Len(<< >>) = 0
      OBVIOUS
    <3> QED
      BY <2>3, <3>3, <3>4
  <2>5. PICK S : leaves \in Seq(S)
    BY <2>4
  <2>6. PICK i \in Nat : i = p.index /\ i + b <= SET_SIZE
                         /\ 2 * (((i + b - 1) \div 2) - (i \div 2) + 1) < Half
    BY <2>2, <2>3, BatchFitsPlace
  <2>7. i + Len(leaves) <= Half /\ i + Len(leaves) <= Pow2[n]
        /\ 2 * (((i + Len(leaves) - 1) \div 2) - (i \div 2) + 1) < Half
    BY <1>9, <2>4, <2>6, HalfIsFour
  <2>8. LeavesSet(updateBatch(treeRight, i, leaves), treeRight, n, i, leaves)
    BY <1>8, <1>9, <2>4, <2>5, <2>7, UpdateBatchIs
  <2>9. IsTree(treeRight', n) /\ Couples(treeRight')
    BY <2>1, <2>6, <2>8 DEF LeavesSet
  <2>10. IsTree(treeLeft', TreeDepth) /\ IsTree(treeRight', TreeDepth) /\ Couples(treeLeft') /\ Couples(treeRight')
    BY <1>8, <1>9, <2>1, <2>9
  <2> QED
    BY <1>3, <1>5, <1>6, <1>7, <1>8, <2>10 DEF RegistryInv, ClientTrees
<1> QED
  BY <1>10, <1>11

\* checkExistence leaves the last node of the witness out.
LEMMA LastLeftOut ==
  ASSUME NEW n \in Nat, NEW f, f = [i \in 1 .. n |-> f[i]], NEW x
  PROVE  SubSeq(Append(f, x), 1, n) = f /\ Len(f) = n
<1>1. PICK S : f \in Seq(S) /\ Len(f) = n
  BY LenOfFunction
<1>2. PICK R : R = S \cup {x}
  OBVIOUS
<1>3. f \in Seq(R) /\ x \in R
  BY <1>1, <1>2
<1>4. /\ Append(f, x) \in Seq(R) /\ Len(Append(f, x)) = n + 1
      /\ \A i \in 1 .. n : Append(f, x)[i] = f[i]
  BY <1>1, <1>3, AppendProperties
<1>5. PICK g : g = Append(f, x)
  OBVIOUS
<1>6. g \in Seq(R) /\ Len(g) = n + 1 /\ \A i \in 1 .. n : g[i] = f[i]
  BY <1>4, <1>5
<1>7. SubSeq(g, 1, n) = [i \in 1 .. n |-> g[i]]
  <2>1. \A i \in 1 .. n : g[1 + i - 1] = g[i]
    OBVIOUS
  <2>2. n - 1 + 1 = n
    OBVIOUS
  <2>3. 1 \in 1 .. Len(g) + 1 /\ n \in 1 - 1 .. Len(g)
    BY <1>6
  <2>4. SubSeq(g, 1, n) \in Seq(R) /\ Len(SubSeq(g, 1, n)) = n
        /\ \A i \in 1 .. n : SubSeq(g, 1, n)[i] = g[i]
    <3>1. Len(SubSeq(g, 1, n)) = IF 1 <= n THEN n - 1 + 1 ELSE 0
      BY <1>6, <2>3, SubSeqProperties
    <3>2. Len(SubSeq(g, 1, n)) = n
      BY <3>1
    <3>3. SubSeq(g, 1, n) \in Seq(R)
      BY <1>6, <2>3, SubSeqProperties
    <3>4. \A i \in 1 .. n : SubSeq(g, 1, n)[i] = g[i]
      BY <1>6, <2>1, <2>2, <2>3, SubSeqProperties
    <3> QED
      BY <3>2, <3>3, <3>4
  <2> QED
    BY <2>4, LenProperties
<1>8. SubSeq(g, 1, n) = f
  BY <1>6, <1>7
<1> QED
  BY <1>1, <1>5, <1>8

\* A leaf that is a key's among those of a list of keys.
LEMMA LeafOfKey ==
  ASSUME NEW keys, Len(keys) \in Nat, NEW j \in 0 .. SET_SIZE - 1, NEW key,
         NodesFor(keys)[TreeDepth][j] = pubkeyToLeaf(key)
  PROVE  j < Len(keys) /\ keys[j + 1] = key
<1>1. j \in 0 .. Pow2[TreeDepth] - 1
  BY DEF SET_SIZE
<1>2. toLeaf(key) = IF j < Len(keys) THEN toLeaf(keys[j + 1]) ELSE ZeroLeaf
  BY <1>1, NodesForKeys DEF pubkeyToLeaf
<1>3. toLeaf(key) # ZeroLeaf
  <2>1. "item" \in DOMAIN toLeaf(key) /\ "item" \notin DOMAIN ZeroLeaf
    BY DEF toLeaf, ZeroLeaf
  <2> QED
    BY <2>1
<1>4. j < Len(keys) /\ toLeaf(key) = toLeaf(keys[j + 1])
  BY <1>2, <1>3
<1>5. toLeaf(key).item = key /\ toLeaf(keys[j + 1]).item = keys[j + 1]
  BY DEF toLeaf
<1> QED
  BY <1>4, <1>5

\* A root that is computed from a witness of another tree: the leaf is in the
\* tree the root is of, and the others are those the witness was made beside.
LEMMA WitnessSpeaksForAll ==
  ASSUME NEW t, IsTree(t, TreeDepth), Couples(t), NEW keys, Len(keys) \in Nat,
         NEW index \in 0 .. SET_SIZE - 1, NEW key, NEW nodes,
         nodes = witness(t, index, TreeDepth).nodes,
         computeRoot(pubkeyToLeaf(key), index, nodes) = NodesFor(keys)[0][0]
  PROVE  /\ index < Len(keys) /\ keys[index + 1] = key
         /\ \A j \in 0 .. SET_SIZE - 1 : \A k :
              j # index /\ getNode(t, TreeDepth, j) = pubkeyToLeaf(k) => j < Len(keys) /\ keys[j + 1] = k
<1>1. PICK n \in Nat : n = TreeDepth /\ Pow2[n] = SET_SIZE /\ SET_SIZE <= Half /\ SET_SIZE \in Nat
  BY DepthsFit
<1>2. index \in 0 .. Pow2[n] - 1 /\ index < Half /\ index \in 0 .. Half - 1 /\ Half \in Nat
  BY <1>1, HalfIsFour
<1>3. nodes = [i \in 1 .. n |-> getNode(t, n - i + 1, Beside(AboveLeaf(index, i - 1)))]
  <2>1. PICK w : w = witness(t, index, n)
    OBVIOUS
  <2>2. IsWitness(w, t, index, n)
    BY <1>2, <2>1, WitnessNodes
  <2>3. nodes = w.nodes
    BY <1>1, <2>1
  <2> QED
    BY <2>2, <2>3 DEF IsWitness
<1>4. Len(nodes) = n
  <2>1. nodes = [i \in 1 .. n |-> nodes[i]]
    BY <1>3
  <2> QED
    BY <2>1, LenOfFunction
<1>5. PICK N : N = NodesFor(keys) /\ IsMerkle(N, n)
  BY <1>1, NodesForKeys
<1>6. /\ N[n][index] = pubkeyToLeaf(key)
      /\ \A i \in 1 .. n : nodes[i] = N[n - i + 1][Beside(AboveLeaf(index, i - 1))]
  <2>1. PICK leaf : leaf = pubkeyToLeaf(key)
    OBVIOUS
  <2>2. computeRoot(leaf, index, nodes) = N[0][0]
    BY <1>5, <2>1
  <2>3. N[n][index] = leaf /\ \A i \in 1 .. n : nodes[i] = N[n - i + 1][Beside(AboveLeaf(index, i - 1))]
    <3>1. index \in 0 .. Pow2[n] - 1 /\ index < Half
      BY <1>2
    <3> QED
      BY <1>4, <1>5, <2>2, <3>1, PathDown
  <2> QED
    BY <2>1, <2>3
<1>7. index < Len(keys) /\ keys[index + 1] = key
  BY <1>1, <1>5, <1>6, LeafOfKey
<1>8. PICK M : /\ IsMerkle(M, n)
               /\ \A l \in 0 .. n : \A i \in 0 .. Pow2[l] - 1 : M[l][i] = getNode(t, l, i)
  <2>1. t.depth = n
    BY <1>1 DEF IsTree
  <2>2. /\ IsMerkle(NodesOf(t), n)
        /\ \A l \in 0 .. n : \A i \in 0 .. Pow2[l] - 1 : NodesOf(t)[l][i] = getNode(t, l, i)
    BY <2>1, CouplesHash
  <2> QED
    BY <2>2
<1>9. ASSUME NEW i \in 1 .. n
      PROVE  M[n - i + 1][Beside(AboveLeaf(index, i - 1))] = N[n - i + 1][Beside(AboveLeaf(index, i - 1))]
  <2>1. PICK q : q = AboveLeaf(index, i - 1)
    OBVIOUS
  <2>2. Beside(q) \in 0 .. Pow2[n - i + 1] - 1
    <3>1. index \in 0 .. Pow2[n] - 1 /\ index < Half /\ IsMerkle(N, n)
      BY <1>2, <1>5
    <3>2. Beside(q) \in 0 .. Pow2[n - i + 1] - 1
      BY <2>1, <3>1, PathHashes
    <3> QED
      BY <3>2
  <2>3. n - i + 1 \in 0 .. n
    OBVIOUS
  <2>4. M[n - i + 1][Beside(q)] = getNode(t, n - i + 1, Beside(q))
    BY <1>8, <2>2, <2>3
  <2>5. nodes[i] = getNode(t, n - i + 1, Beside(q))
    BY <1>3, <2>1
  <2> QED
    BY <1>6, <2>1, <2>4, <2>5
<1>10. ASSUME NEW j \in 0 .. SET_SIZE - 1, NEW k, j # index, getNode(t, TreeDepth, j) = pubkeyToLeaf(k)
       PROVE  j < Len(keys) /\ keys[j + 1] = k
  <2>1. j \in 0 .. Pow2[n] - 1 /\ n \in 0 .. n
    BY <1>1
  <2>2. M[n][j] = N[n][j]
    BY <1>2, <1>5, <1>8, <1>9, <1>10, <2>1, LeavesBeside
  <2>3. N[n][j] = pubkeyToLeaf(k)
    BY <1>1, <1>8, <1>10, <2>1, <2>2
  <2> QED
    BY <1>1, <1>5, <2>3, LeafOfKey
<1> QED
  BY <1>7, <1>10

\* The remainder of an ID of either tree.
LEMMA IDsOfTrees ==
  ASSUME NEW index \in 0 .. SET_SIZE - 1
  PROVE  /\ index % SET_SIZE = index
         /\ (index + SET_SIZE) % SET_SIZE = index /\ ~ (index + SET_SIZE < SET_SIZE)
         /\ (index + SET_SIZE) - SET_SIZE = index
<1>1. PICK s \in Nat \ {0} : s = SET_SIZE
  BY DepthsFit
<1>2. index \in Nat /\ index < s
  BY <1>1
<1>3. index % s = index
  BY <1>2
<1>4. (index + s) % s = index
  <2>1. PICK m \in Nat : m = index + s
    BY <1>2
  <2>2. s * 1 = s
    OBVIOUS
  <2>3. m \div s = 1
    BY <1>2, <2>1, <2>2, QuotientIs
  <2>4. m = s * (m \div s) + (m % s)
    BY <2>1
  <2> QED
    BY <1>2, <2>1, <2>2, <2>3, <2>4
<1> QED
  BY <1>1, <1>2, <1>3, <1>4

\* What the contract's answer says of the left tree.
LEMMA ExistsLeft ==
  ASSUME ContractTrees, ClientTrees, NEW index \in 0 .. SET_SIZE - 1, NEW key, checkExistence(index, key)
  PROVE  index < Len(left) /\ left[index + 1] = key
<1>1. index < SET_SIZE /\ index % SET_SIZE = index
  BY DepthsFit, IDsOfTrees
<1>2. PICK f : f = witness(treeLeft, index, TreeDepth).nodes
  OBVIOUS
<1>3. pubkeyWitness(index) = Append(f, treeRoot(treeRight))
  BY <1>1, <1>2 DEF pubkeyWitness
<1>4. f = [i \in 1 .. TreeDepth |-> f[i]] /\ TreeDepth \in Nat
  <2>1. PICK w : w = witness(treeLeft, index, TreeDepth)
    OBVIOUS
  <2>2. TreeDepth \in Nat /\ index \in 0 .. Half - 1
    BY DepthsFit, HalfIsFour
  <2>3. IsWitness(w, treeLeft, index, TreeDepth)
    BY <2>1, <2>2, WitnessNodes
  <2>4. w.nodes = [i \in 1 .. TreeDepth |-> w.nodes[i]]
    BY <2>3 DEF IsWitness
  <2> QED
    BY <1>2, <2>1, <2>2, <2>4
<1>5. SubSeq(pubkeyWitness(index), 1, TreeDepth) = f
  BY <1>3, <1>4, LastLeftOut
<1>6. computeRoot(pubkeyToLeaf(key), index, f) = chainRoot.left
  BY <1>1, <1>5 DEF checkExistence, existsOnChain
<1>7. chainRoot.left = NodesFor(left)[0][0] /\ Len(left) \in Nat
  BY LenProperties DEF ContractTrees, Appending
<1>8. IsTree(treeLeft, TreeDepth) /\ Couples(treeLeft)
  BY DEF ClientTrees
<1>9. computeRoot(pubkeyToLeaf(key), index, f) = NodesFor(left)[0][0]
  BY <1>6, <1>7
<1> QED
  BY <1>2, <1>7, <1>8, <1>9, WitnessSpeaksForAll

\* What the contract's answer says of the right tree: of one key, and of all
\* the others that the client's tree has as leaves.
LEMMA ExistsRight ==
  ASSUME ContractTrees, ClientTrees, NEW index \in 0 .. SET_SIZE - 1, NEW key,
         NEW id, id = index + SET_SIZE, checkExistence(id, key)
  PROVE  /\ index < Len(right) /\ right[index + 1] = key
         /\ \A j \in 0 .. SET_SIZE - 1 : \A k :
              j # index /\ getNode(treeRight, TreeDepth, j) = pubkeyToLeaf(k) =>
                j < Len(right) /\ right[j + 1] = k
<1>1. ~ (id < SET_SIZE) /\ id - SET_SIZE = index /\ id % SET_SIZE = index
  BY IDsOfTrees
<1>2. PICK f : f = witness(treeRight, index, TreeDepth).nodes
  OBVIOUS
<1>3. pubkeyWitness(id) = Append(f, treeRoot(treeLeft))
  BY <1>1, <1>2 DEF pubkeyWitness
<1>4. f = [i \in 1 .. TreeDepth |-> f[i]] /\ TreeDepth \in Nat
  <2>1. PICK w : w = witness(treeRight, index, TreeDepth)
    OBVIOUS
  <2>2. TreeDepth \in Nat /\ index \in 0 .. Half - 1
    BY DepthsFit, HalfIsFour
  <2>3. IsWitness(w, treeRight, index, TreeDepth)
    BY <2>1, <2>2, WitnessNodes
  <2>4. w.nodes = [i \in 1 .. TreeDepth |-> w.nodes[i]]
    BY <2>3 DEF IsWitness
  <2> QED
    BY <1>2, <2>1, <2>2, <2>4
<1>5. SubSeq(pubkeyWitness(id), 1, TreeDepth) = f
  BY <1>3, <1>4, LastLeftOut
<1>6. computeRoot(pubkeyToLeaf(key), index, f) = chainRoot.right
  BY <1>1, <1>5 DEF checkExistence, existsOnChain
<1>7. chainRoot.right = NodesFor(right)[0][0]
  <2>1. PICK n : Appending(right, n, RightDepth, BatchDepth, filled.right, chainRoot.right)
    BY DEF ContractTrees
  <2> QED
    BY <2>1 DEF Appending
<1>10. Len(right) \in Nat
  BY LengthIsPlace
<1>8. IsTree(treeRight, TreeDepth) /\ Couples(treeRight)
  BY DEF ClientTrees
<1>9. computeRoot(pubkeyToLeaf(key), index, f) = NodesFor(right)[0][0]
  BY <1>6, <1>7
<1>11. index < Len(right) /\ right[index + 1] = key
  BY <1>2, <1>8, <1>9, <1>10, WitnessSpeaksForAll
<1>12. \A j \in 0 .. SET_SIZE - 1 : \A k :
         j # index /\ getNode(treeRight, TreeDepth, j) = pubkeyToLeaf(k) => j < Len(right) /\ right[j + 1] = k
  BY <1>2, <1>8, <1>9, <1>10, WitnessSpeaksForAll
<1> QED
  BY <1>11, <1>12

\* The IDs of a call that the contract has answered.
TrueAnswer(p) ==
  LET first == IF p.side = "left" THEN p.index ELSE p.index + SET_SIZE
      lastKey == Len(p.keys)
      leaf(i) == getNode(IF p.side = "left" THEN treeLeft ELSE treeRight, TreeDepth, p.index + i - 1)
  IN  {[id |-> first + i - 1, pubkey |-> p.keys[i], last |-> i = lastKey,
        held |-> leaf(i) = pubkeyToLeaf(p.keys[i])] : i \in DOMAIN p.keys}

\* The key of the left tree that was asked for.
LEMMA LeftAnswer ==
  ASSUME ContractTrees, ClientTrees, NEW p, p.side = "left", AreKeys("left", p.keys), IsPlace("left", p.index),
         checkExistence(p.index + Len(p.keys) - 1, p.keys[Len(p.keys)]), NEW r \in TrueAnswer(p)
  PROVE  r.id \in Nat /\ OnChain(r.id, r.pubkey)
<1>1. p.keys \in Seq(Pubkeys) /\ Len(p.keys) = 1 /\ p.index \in 0 .. SET_SIZE - 1
  BY DEF AreKeys, IsPlace
<1>2. DOMAIN p.keys = {1}
  BY <1>1, LenProperties, 1 .. 1 = {1}
<1>3. p.index + 1 - 1 = p.index /\ p.index \in Nat /\ p.index < SET_SIZE
  BY <1>1, DepthsFit
<1>4. r.id = p.index /\ r.pubkey = p.keys[1]
  BY <1>2, <1>3 DEF TrueAnswer
<1>5. checkExistence(p.index, p.keys[1])
  BY <1>1, <1>3
<1>6. p.index < Len(left) /\ left[p.index + 1] = p.keys[1]
  BY <1>1, <1>5, ExistsLeft
<1> QED
  BY <1>3, <1>4, <1>6 DEF OnChain

\* The last key of a batch that was asked for, and those the client's tree has.
LEMMA RightAnswer ==
  ASSUME ContractTrees, ClientTrees, NEW p, p.side # "left", AreKeys("right", p.keys), IsPlace("right", p.index),
         checkExistence(p.index + SET_SIZE + Len(p.keys) - 1, p.keys[Len(p.keys)]), NEW r \in TrueAnswer(p)
  PROVE  r.id \in Nat /\ (r.last \/ r.held => OnChain(r.id, r.pubkey))
<1>1. p.keys \in Seq(Pubkeys) /\ Len(p.keys) = BATCH_SIZE
  BY DEF AreKeys
<1>2. PICK b \in Nat \ {0}, s \in Nat, x \in Nat :
        b = BATCH_SIZE /\ s = SET_SIZE /\ x = p.index /\ x + b <= s
  BY DepthsFit, BatchFitsPlace
<1>3. DOMAIN p.keys = 1 .. b
  BY <1>1, <1>2, LenProperties
<1>4. PICK i \in 1 .. b : /\ r.id = x + s + i - 1 /\ r.pubkey = p.keys[i] /\ (r.last <=> i = b)
                          /\ (r.held <=> getNode(treeRight, TreeDepth, x + i - 1) = pubkeyToLeaf(p.keys[i]))
  <2>1. PICK i \in 1 .. b : r = [id |-> (p.index + SET_SIZE) + i - 1, pubkey |-> p.keys[i], last |-> i = Len(p.keys),
                                 held |-> getNode(treeRight, TreeDepth, p.index + i - 1) = pubkeyToLeaf(p.keys[i])]
    BY <1>3 DEF TrueAnswer
  <2>2. r.id = x + s + i - 1 /\ r.pubkey = p.keys[i]
    BY <1>2, <2>1
  <2>3. r.last <=> i = b
    BY <1>1, <1>2, <2>1
  <2>4. r.held <=> getNode(treeRight, TreeDepth, x + i - 1) = pubkeyToLeaf(p.keys[i])
    BY <1>2, <2>1
  <2> QED
    BY <2>1, <2>2, <2>3, <2>4
<1>5. PICK y \in Nat : y = x + b - 1 /\ y + s = x + s + b - 1 /\ y \in 0 .. s - 1
  BY <1>2, x + b - 1 \in Nat
<1>6. PICK j \in Nat : j = x + i - 1 /\ r.id = j + s /\ (j = y <=> i = b) /\ j \in 0 .. s - 1
  <2>1. PICK m \in 1 .. b : m = i
    BY <1>4
  <2>2. PICK id : id = r.id /\ id = x + s + m - 1
    BY <1>4, <2>1
  <2>4. x \in Nat /\ s \in Nat /\ b \in Nat \ {0} /\ x + b <= s /\ y = x + b - 1 /\ m \in 1 .. b
    BY <1>2, <1>5, <2>1
  <2>5. x + m - 1 \in Nat /\ (x + m - 1 = y <=> m = b) /\ x + m - 1 \in 0 .. s - 1
    BY <2>4
  <2>6. x + s + m - 1 = (x + m - 1) + s
    BY <2>4
  <2>3. x + m - 1 \in Nat /\ id = (x + m - 1) + s /\ (x + m - 1 = y <=> m = b) /\ x + m - 1 \in 0 .. s - 1
    BY <2>2, <2>5, <2>6
  <2> QED
    BY <2>1, <2>2, <2>3
<1>7. checkExistence(y + s, p.keys[b])
  BY <1>1, <1>2, <1>5
<1>8. /\ y < Len(right) /\ right[y + 1] = p.keys[b]
      /\ \A m \in 0 .. SET_SIZE - 1 : \A k :
           m # y /\ getNode(treeRight, TreeDepth, m) = pubkeyToLeaf(k) => m < Len(right) /\ right[m + 1] = k
  <2>1. PICK at : at = y + s
    OBVIOUS
  <2>2. y \in 0 .. SET_SIZE - 1 /\ at = y + SET_SIZE
    BY <1>2, <1>5, <2>1
  <2>3. PICK key : key = p.keys[b] /\ checkExistence(at, key)
    BY <1>7, <2>1
  <2>4. y < Len(right) /\ right[y + 1] = key
    BY <2>2, <2>3, ExistsRight
  <2>5. \A m \in 0 .. SET_SIZE - 1 : \A k :
          m # y /\ getNode(treeRight, TreeDepth, m) = pubkeyToLeaf(k) => m < Len(right) /\ right[m + 1] = k
    BY <2>2, <2>3, ExistsRight
  <2> QED
    BY <2>3, <2>4, <2>5
<1>9. ASSUME r.last \/ r.held
      PROVE  j < Len(right) /\ right[j + 1] = p.keys[i]
  <2>1. CASE j = y
    BY <1>6, <1>8, <2>1
  <2>2. CASE j # y
    <3>1. getNode(treeRight, TreeDepth, j) = pubkeyToLeaf(p.keys[i])
      BY <1>4, <1>6, <1>9, <2>2
    <3>2. j \in 0 .. SET_SIZE - 1
      BY <1>2, <1>6
    <3> QED
      BY <1>8, <2>2, <3>1, <3>2
  <2> QED
    BY <2>1, <2>2
<1>10. r.id \in Nat /\ ~ (r.id < SET_SIZE) /\ r.id - SET_SIZE = j
  <2>1. PICK id : id = r.id /\ id = j + s
    BY <1>6
  <2>3. s \in Nat /\ j \in Nat /\ id = j + s
    BY <1>2, <1>6, <2>1
  <2>2. id \in Nat /\ ~ (id < s) /\ id - s = j
    BY <2>3
  <2> QED
    BY <1>2, <2>1, <2>2
<1> QED
  BY <1>4, <1>9, <1>10 DEF OnChain

\* The contract is asked whether the last key is there.
LEMMA CheckKeeps ==
  ASSUME RegistryInv, NEW c \in Callers, Check(c)
  PROVE  RegistryInv'
<1>1. PICK p : p = pending[c]
  OBVIOUS
<1>2. PICK id, key : /\ id = (IF p.side = "left" THEN p.index ELSE p.index + SET_SIZE) + Len(p.keys) - 1
                     /\ key = p.keys[Len(p.keys)]
  OBVIOUS
<1>3. /\ p.at = "check" /\ UNCHANGED <<chainVars, clientVars, sent>>
      /\ \/ /\ checkExistence(id, key) /\ pending' = [pending EXCEPT ![c].at = "sync"]
            /\ returned' = returned \cup TrueAnswer(p)
         \/ pending' = [pending EXCEPT ![c] = NoRequest] /\ UNCHANGED returned
  BY <1>1, <1>2 DEF Check, TrueAnswer
<1>4. UNCHANGED <<left, right, filled, chainRoot, mempool, treeLeft, treeRight, leftIndex, rightIndex>>
  BY <1>3 DEF chainVars, clientVars
<1>5. pending[c] # NoRequest /\ AreKeys(p.side, p.keys) /\ IsPlace(p.side, p.index)
  BY <1>1, <1>3, InProgress DEF RegistryInv
<1>6. ContractTrees'
  BY <1>4 DEF RegistryInv, ContractTrees, Appending, AreKeys, NodesFor, LeavesOf, RightDepth, BATCH_SIZE
<1>7. ClientTrees'
  BY <1>4 DEF RegistryInv, ClientTrees
<1>8. RequestsFit'
  <2>1. IsCall(NoRequest)
    BY DEF IsCall
  <2>2. CASE pending' = [pending EXCEPT ![c].at = "sync"]
    BY <1>5, <2>2, CallGoesOn DEF RegistryInv
  <2>3. CASE pending' = [pending EXCEPT ![c] = NoRequest]
    BY <2>1, <2>3, OneRequestFits DEF RegistryInv
  <2> QED
    BY <1>3, <2>2, <2>3
<1>9. \A r \in returned' : r.id \in Nat /\ (r.last \/ r.held => OnChain(r.id, r.pubkey))
  <2> SUFFICES ASSUME NEW r \in returned'
               PROVE  r.id \in Nat /\ (r.last \/ r.held => OnChain(r.id, r.pubkey))
    OBVIOUS
  <2>1. CASE r \in returned
    BY <2>1 DEF RegistryInv, ReturnedIsTrue
  <2>2. CASE r \notin returned
    <3>1. checkExistence(id, key) /\ r \in TrueAnswer(p)
      BY <1>3, <2>2
    <3>2. ContractTrees /\ ClientTrees
      BY DEF RegistryInv
    <3>3. CASE p.side = "left"
      <4>1. checkExistence(p.index + Len(p.keys) - 1, p.keys[Len(p.keys)])
        BY <1>2, <3>1, <3>3
      <4>2. AreKeys("left", p.keys) /\ IsPlace("left", p.index)
        BY <1>5, <3>3
      <4> QED
        BY <3>1, <3>2, <3>3, <4>1, <4>2, LeftAnswer
    <3>4. CASE p.side # "left"
      <4>1. checkExistence(p.index + SET_SIZE + Len(p.keys) - 1, p.keys[Len(p.keys)])
        BY <1>2, <3>1, <3>4
      <4>2. p.side = "right"
        BY <1>5, <3>4 DEF AreKeys
      <4>3. AreKeys("right", p.keys) /\ IsPlace("right", p.index)
        BY <1>5, <4>2
      <4> QED
        BY <3>1, <3>2, <3>4, <4>1, <4>3, RightAnswer
    <3> QED
      BY <3>3, <3>4
  <2> QED
    BY <2>1, <2>2
<1>10. ReturnedIsTrue'
  BY <1>4, <1>9 DEF ReturnedIsTrue, OnChain, SET_SIZE
<1> QED
  BY <1>6, <1>7, <1>8, <1>10 DEF RegistryInv

\* Every step keeps the invariant of the registry.
LEMMA RegistryInvKept == RegistryInv /\ [AccountNext]_accountVars => RegistryInv'
<1> SUFFICES ASSUME RegistryInv, [AccountNext]_accountVars PROVE RegistryInv'
  OBVIOUS
<1>1. CASE Mine
  BY <1>1, MineKeeps
<1>2. ASSUME NEW pubkey \in Pubkeys, OthersRegister("left", <<pubkey>>) PROVE RegistryInv'
  <2>1. AreKeys("left", <<pubkey>>)
    BY <1>2, RequestKeys DEF OthersRegister
  <2> QED
    BY <1>2, <2>1, OthersKeep
<1>3. ASSUME NEW keys \in KeyBatches, OthersRegister("right", keys) PROVE RegistryInv'
  <2>1. AreKeys("right", keys)
    BY <1>3, RequestKeys DEF OthersRegister
  <2> QED
    BY <1>3, <2>1, OthersKeep
<1>4. ASSUME NEW c \in Callers, NEW pubkey \in Pubkeys, register(c, "left", <<pubkey>>) PROVE RegistryInv'
  <2>1. AreKeys("left", <<pubkey>>)
    BY <1>4, RequestKeys DEF register
  <2> QED
    BY <1>4, <2>1, RegisterKeeps
<1>5. ASSUME NEW c \in Callers, NEW keys \in KeyBatches, register(c, "right", keys) PROVE RegistryInv'
  <2>1. AreKeys("right", keys)
    BY <1>5, RequestKeys DEF register
  <2> QED
    BY <1>5, <2>1, RegisterKeeps
<1>6. ASSUME NEW c \in Callers, SendAndWrite(c) \/ Check(c) \/ Return(c) PROVE RegistryInv'
  BY <1>6, SendAndWriteKeeps, CheckKeeps, ReturnKeeps
<1>7. CASE UNCHANGED accountVars
  BY <1>7 DEF accountVars, chainVars, clientVars, RegistryInv, ContractTrees, ClientTrees, RequestsFit, ReturnedIsTrue,
     Appending, AreKeys, NodesFor, LeavesOf, RightDepth, BATCH_SIZE, OnChain, SET_SIZE, IsCall, IsPlace
<1> QED
  BY <1>1, <1>2, <1>3, <1>4, <1>5, <1>6, <1>7 DEF AccountNext

\* What the invariant of the registry says of its parts.
LEMMA RegistryIsRight == RegistryInv => AccountTypeOK /\ AppendedIsHashed /\ RegisteredIDsAreTrue
<1> SUFFICES ASSUME RegistryInv PROVE AccountTypeOK /\ AppendedIsHashed /\ RegisteredIDsAreTrue
  OBVIOUS
<1>1. PICK n : Appending(right, n, RightDepth, BatchDepth, filled.right, chainRoot.right)
  BY DEF RegistryInv, ContractTrees
<1>2. Appending(left, Len(left), TreeDepth, 0, filled.left, chainRoot.left)
  BY DEF RegistryInv, ContractTrees
<1>3. AppendedIsHashed
  <2>1. chainRoot.left = NodesFor(left)[0][0] /\ chainRoot.right = NodesFor(right)[0][0]
    BY <1>1, <1>2 DEF Appending
  <2> QED
    BY <2>1 DEF AppendedIsHashed, NodesFor, LeavesOf, MerkleRoot
<1>4. RegisteredIDsAreTrue
  BY DEF RegistryInv, ReturnedIsTrue, RegisteredIDsAreTrue
<1>5. left \in Seq(Pubkeys) /\ Len(left) < SET_SIZE
  <2>1. left \in Seq(Pubkeys) /\ Len(left) \in 0 .. Pow2[TreeDepth] - 1
    BY <1>2 DEF Appending
  <2> QED
    BY <2>1, DepthsFit
<1>6. right \in Seq(Pubkeys) /\ Len(right) <= SET_SIZE /\ Len(right) % BATCH_SIZE = 0
  <2>1. PICK b \in Nat \ {0}, p \in Nat \ {0} : b = BATCH_SIZE /\ p = Pow2[RightDepth] /\ SET_SIZE = p * b
    BY DepthsFit
  <2>2. right \in Seq(Pubkeys) /\ n \in 0 .. p - 1 /\ n \in Nat /\ Len(right) = n * b /\ n + 1 <= p
    <3>1. b = Pow2[BatchDepth]
      BY <2>1, DepthsFit
    <3> QED
      BY <1>1, <2>1, <3>1 DEF Appending
  <2>3. b \in Nat /\ p \in Nat /\ n \in Nat /\ n + 1 <= p
    BY <2>1, <2>2
  <2>4. PICK w \in Nat : w = n * b /\ w + b <= p * b
    BY <2>3, Multiples
  <2>5. b * n = w
    BY <2>3, <2>4
  <2>6. w \div b = n
    BY <2>1, <2>3, <2>5, QuotientIs
  <2>7. w = b * (w \div b) + (w % b)
    BY <2>1
  <2>8. w % b = 0
    BY <2>1, <2>5, <2>6, <2>7
  <2>9. p * b \in Nat /\ w <= p * b
    BY <2>3, <2>4
  <2> QED
    BY <2>1, <2>2, <2>4, <2>8, <2>9
<1>7. {treeLeft.depth, treeRight.depth} = {TreeDepth}
  BY DEF RegistryInv, ClientTrees, IsTree
<1>8. \A c \in Callers : pending[c].at \in {"none", "send", "check", "sync"}
  <2>1. NoRequest.at = "none"
    BY DEF NoRequest
  <2> QED
    BY <2>1 DEF RegistryInv, RequestsFit, IsCall
<1>9. leftIndex \in 0 .. Len(left) /\ rightIndex \in 0 .. Len(right)
  BY DEF RegistryInv, ClientTrees
<1> QED
  BY <1>3, <1>4, <1>5, <1>6, <1>7, <1>8, <1>9 DEF AccountTypeOK

(* The types of the database's rows, for every depth, number of tasks and  *)
(* batch, crashes and interleavings included (dbTree.ts:107-120).          *)
THEOREM DatabaseTypes == DatabaseSpec => []DatabaseTypeOK
BY DatabaseInvInit, DatabaseInvKept, DatabaseInvTyped, PTL DEF DatabaseSpec

(* After updates that came one at a time the rows are the Merkle tree of   *)
(* the leaves, though every row is read and written in a step of its own   *)
(* and the process may have restarted between two updates                  *)
(* (dbTree.ts:183-200).                                                    *)
THEOREM RowsAreTheTree == DatabaseSpec => []RowsAreATree
BY DatabaseInvInit, DatabaseInvKept, DatabaseHolds, PTL DEF DatabaseSpec

(* The types of the registry: the right tree is filled by whole batches,   *)
(* and the client's indices are never ahead of the chain                   *)
(* (AccountTree.sol:47-119, accountTree.ts:71-82).                         *)
THEOREM AccountTypes == AccountSpec => []AccountTypeOK
BY RegistryInvInit, RegistryInvKept, RegistryIsRight, PTL DEF AccountSpec

(* The contract's roots are those of Merkle trees of all the keys, for     *)
(* trees of any depth (AccountTree.sol:47-119).                            *)
THEOREM AppendsHash == AccountSpec => []AppendedIsHashed
BY RegistryInvInit, RegistryInvKept, RegistryIsRight, PTL DEF AccountSpec

(* The IDs that register and registerBatch return are the keys' on the     *)
(* chain, for any number of callers, of keys and of registrations of       *)
(* others, mined in any order (accountTree.ts:31-69).                      *)
THEOREM IDsAreTrue == AccountSpec => []RegisteredIDsAreTrue
BY RegistryInvInit, RegistryInvKept, RegistryIsRight, PTL DEF AccountSpec

(* The parts that keep trees run as they would alone (accountTree.ts:12,   *)
(* memoryEngine.ts:29, databaseEngine.ts:10).                              *)
THEOREM PartsRunAlone == StorageSpec => MemorySpec /\ DatabaseSpec /\ AccountSpec
<1>1. StorageInit => MemoryInit /\ DatabaseInit /\ AccountInit
  BY DEF StorageInit
<1>2. [StorageNext]_storageVars =>
        [MemoryNext]_memoryVars /\ [DatabaseNext]_databaseVars /\ [AccountNext]_accountVars
  <2>1. StorageNext => [MemoryNext]_memoryVars /\ [DatabaseNext]_databaseVars /\ [AccountNext]_accountVars
    BY DEF StorageNext
  <2>2. UNCHANGED storageVars => UNCHANGED memoryVars /\ UNCHANGED databaseVars /\ UNCHANGED accountVars
    BY DEF storageVars
  <2> QED
    BY <2>1, <2>2
<1> QED
  BY <1>1, <1>2, PTL DEF StorageSpec, MemorySpec, DatabaseSpec, AccountSpec

(* The types of the part that runs (memoryEngine.ts:29, dbTree.ts:14,      *)
(* accountTree.ts:12).                                                     *)
THEOREM StorageTypes == StorageSpec => []StorageTypeOK
<1>1. MemoryTypeOK /\ DatabaseTypeOK /\ AccountTypeOK => StorageTypeOK
  BY DEF StorageTypeOK
<1> QED
  BY <1>1, PartsRunAlone, MemoryTypes, DatabaseTypes, AccountTypes, PTL

(* The trees of all the parts are Merkle trees of what they are trees of   *)
(* (memoryTree.ts:174, dbTree.ts:183, AccountTree.sol:47).                 *)
THEOREM TreesAreTrue == StorageSpec => []TreesHold
<1>1. MemoryTreeHolds /\ RowsAreATree /\ AppendedIsHashed => TreesHold
  BY DEF TreesHold
<1> QED
  BY <1>1, PartsRunAlone, MemoryTreeIsOfItems, RowsAreTheTree, AppendsHash, PTL
=============================================================================
