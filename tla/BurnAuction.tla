---------------------------- MODULE BurnAuction ----------------------------
(***************************************************************************)
(* contracts/proposers/BurnAuction.sol: the auction that chooses, slot by  *)
(* slot, the proposer that Rollup.sol's onlyCoordinator lets submit.       *)
(* Coordinators bid ether they will burn; a part of it is donated.         *)
(***************************************************************************)
EXTENDS Integers, FiniteSets, Functions

CONSTANTS
  Accounts,              \* the accounts that use the auction
  donationAddress,
  donationNumerator, DONATION_DENOMINATOR,
  BLOCKS_PER_SLOT,
  genesisBlock,          \* the first block of slot 0
  Values,                \* values of msg.value and of amount arguments
  MaxBlock,              \* bound: block.number
  MaxEther               \* bound: ether paid into the contract, in total

ASSUME AuctionAssumption ==
  /\ IsFiniteSet(Accounts) /\ donationAddress \in Accounts
  /\ donationNumerator \in 0 .. DONATION_DENOMINATOR
  /\ DONATION_DENOMINATOR \in Nat \ {0} /\ BLOCKS_PER_SLOT \in Nat \ {0}
  /\ genesisBlock \in Nat /\ Values \subseteq Nat
  /\ MaxBlock \in Nat /\ MaxEther \in Nat

VARIABLES
  block,     \* block.number
  auction,   \* auction: slot -> best bid; the domain is the initialized slots
  deposits,  \* deposits: account -> what it can bid with or withdraw
  balance,   \* the ether the contract holds
  paid       \* history: ether paid in for an account less ether paid out to it

auctionVars == <<block, auction, deposits, balance, paid>>

SlotFromGenesis(numBlock) == (numBlock - genesisBlock) \div BLOCKS_PER_SLOT

block2slot(numBlock) ==
  IF numBlock < genesisBlock THEN 0
  ELSE SlotFromGenesis(numBlock)

currentSlot == block2slot(block)

\* Bids are for the slot after the next one.
NextSlot    == currentSlot + 1
auctionSlot == currentSlot + 2

CurrentBid(slot) == IF slot \in DOMAIN auction THEN auction[slot].amount ELSE 0

Donation(amount)  == (amount * donationNumerator) \div DONATION_DENOMINATOR

\* updateBalance on a given mapping; SafeMath.sub reverts below zero
CanUpdate(balances, addr, incr, decr) == balances[addr] + incr >= decr
updateBalance(balances, addr, incr, decr) ==
  [balances EXCEPT ![addr] = @ + incr - decr]

NoRefund(slot) == deposits
\* The coordinator that is outbid gets its whole bid back.
Refunded(slot) ==
  IF slot \in DOMAIN auction
  THEN updateBalance(deposits, auction[slot].coordinator, auction[slot].amount, 0)
  ELSE deposits

Receive(account, value) ==
  /\ balance + value <= MaxEther
  /\ balance' = balance + value
  /\ paid' = [paid EXCEPT ![account] = @ + value]

Pay(account, amount) ==
  /\ balance >= amount
  /\ balance' = balance - amount
  /\ paid' = [paid EXCEPT ![account] = @ - amount]

(***************************************************************************)
(* The external functions.                                                 *)
(***************************************************************************)
AuctionInit ==
  /\ block = 0
  /\ auction = <<>>
  /\ deposits = [a \in Accounts |-> 0]
  /\ balance = 0
  /\ paid = [a \in Accounts |-> 0]

deposit(beneficiary, value) ==
  /\ Receive(beneficiary, value)
  /\ deposits' = updateBalance(deposits, beneficiary, value, 0)
  /\ UNCHANGED <<block, auction>>

bid(sender, bidAmount, value) ==
  LET slot     == auctionSlot
      current  == CurrentBid(slot)
      refunded == Refunded(slot)
      donated  == updateBalance(refunded, donationAddress,
                                Donation(bidAmount), Donation(current))
  IN  /\ bidAmount > current
      /\ deposits[sender] + value >= bidAmount
      /\ Receive(sender, value)
      /\ CanUpdate(refunded, donationAddress, Donation(bidAmount), Donation(current))
      /\ CanUpdate(donated, sender, value, bidAmount)
      /\ deposits' = updateBalance(donated, sender, value, bidAmount)
      /\ auction' = [s \in DOMAIN auction \cup {slot} |->
                       IF s = slot THEN [coordinator |-> sender, amount |-> bidAmount]
                                   ELSE auction[s]]
      /\ UNCHANGED block

PaidButNotCleared ==
  /\ deposits[donationAddress] # 0
  /\ Pay(donationAddress, deposits[donationAddress])
  /\ UNCHANGED <<block, auction, deposits>>

withdrawDonation ==
  /\ deposits[donationAddress] # 0
  /\ Pay(donationAddress, deposits[donationAddress])
  /\ deposits' = [deposits EXCEPT ![donationAddress] = 0]
  /\ UNCHANGED <<block, auction>>

withdraw(claimer, amount) ==
  /\ deposits[claimer] >= amount
  /\ Pay(claimer, amount)
  /\ deposits' = updateBalance(deposits, claimer, 0, amount)
  /\ UNCHANGED <<block, auction>>

NewBlock ==
  /\ block < MaxBlock
  /\ block' = block + 1
  /\ UNCHANGED <<auction, deposits, balance, paid>>

AuctionNext ==
  \/ \E account \in Accounts, amount \in Values :
       \/ deposit(account, amount)
       \/ \E value \in Values : bid(account, amount, value)
       \/ withdraw(account, amount)
  \/ withdrawDonation
  \/ NewBlock

AuctionSpec == AuctionInit /\ [][AuctionNext]_auctionVars

(***************************************************************************)
(* Properties.                                                             *)
(***************************************************************************)
Bid == [coordinator : Accounts, amount : Nat \ {0}]

\* The variables hold values of their types; only slots that bids could reach
\* are initialized.
AuctionTypeOK ==
  /\ block \in Nat
  /\ DOMAIN auction \subseteq 2 .. auctionSlot
  /\ \A slot \in DOMAIN auction : auction[slot] \in Bid
  /\ deposits \in [Accounts -> Nat]
  /\ balance \in Nat
  /\ paid \in [Accounts -> Int]

BidsOf(account) == {slot \in DOMAIN auction : auction[slot].coordinator = account}

\* What the winning bid of each slot comes to, donates and burns.
AmountOf   == [slot \in DOMAIN auction |-> auction[slot].amount]
DonationOf == [slot \in DOMAIN auction |-> Donation(auction[slot].amount)]
BurntOf    == [slot \in DOMAIN auction |->
                 auction[slot].amount - Donation(auction[slot].amount)]

\* The auction costs an account its winning bids and nothing else, whatever the
\* bids it lost in between; the donation address also collects the donations.
AccountsAddUp ==
  \A account \in Accounts :
    deposits[account] + SumFunctionOnSet(AmountOf, BidsOf(account))
      = paid[account] + (IF account = donationAddress THEN SumFunction(DonationOf) ELSE 0)

\* Every deposit can be withdrawn, and what stays behind for ever is exactly the
\* burnt part of the winning bids: rounding the donations loses no wei.
DepositsAreCovered == balance = SumFunction(deposits) + SumFunction(BurntOf)

\* Whoever is to propose now or in the next slot is settled: no later call
\* changes the outcome, and while a slot is open its best bid only rises.
ProposersAreSettled ==
  [][\A slot \in DOMAIN auction \cup DOMAIN auction' :
       \/ slot \in DOMAIN auction \cap DOMAIN auction' /\ auction'[slot] = auction[slot]
       \/ slot > currentSlot + 1 /\ slot \in DOMAIN auction'
            /\ auction'[slot].amount > CurrentBid(slot)]_auctionVars
=============================================================================
