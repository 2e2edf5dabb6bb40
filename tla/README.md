# Hubble: a verification development

TLA+ models of Hubble, an optimistic rollup: contracts on an Ethereum chain
(the L1) that accept batches of L2 transactions without replaying them, hold a
stake behind each batch, and delete a batch, with everything on top of it, when
somebody proves one of its commitments wrong; and a node (`src/ts/client`) that
submits batches and follows the chain. The modules are written from the code
under `src/`; `PROJECT.json` names, for each definition, the lines it stands for.

1. [The system](#1-the-system)
2. [Modules](#2-modules)
3. [Runs, bounds and fairness](#3-runs-bounds-and-fairness)
4. [Proofs](#4-proofs)
5. [Where code and documentation disagree](#5-where-code-and-documentation-disagree)
6. [Assumptions, and what is not modelled](#6-assumptions-and-what-is-not-modelled)
7. [What is left](#7-what-is-left)

Check a run with `tlc -config X.cfg M`, a proof with `tlapm M.tla`.

## 1. The system

### Components

| Component (source) | State | Operations | What makes it correct | Modelled |
|---|---|---|---|---|
| Batches and roll back (`rollup/BatchManager.sol`, `rollup/Rollup.sol`) | `batches`, `nextBatchID`, `deposits`, `withdrawalBitmap`, `invalidBatchMarker`, ether | `submit*`, `dispute*`, `keepRollingBack`, `withdrawStake` | A batch that fails a dispute is deleted with all that is built on it; final ones never; each stake leaves once; no deposit is lost | `Rollup`, `BatchChain` |
| Deposit manager (`DepositManager.sol`) | `babyTrees`, `depositCount`, `queue`, `front`, `back` | `depositFor`, `dequeueToSubmit`, `reenqueue`, `setRollupAddress` | Deposits in order form perfect subtrees; the subtrees form a FIFO; the vault holds what L2 balances stand for | `DepositManager`, `DepositQueue` |
| Burn auction (`proposers/BurnAuction.sol`) | `auction`, `deposits`, ether | `bid`, `deposit`, `withdraw`, `withdrawDonation`, `getProposer` | Accounts pay their winning bids and nothing else; the proposer is settled in advance | `BurnAuction`, `Node` (partly: `getProposer` only as the node's question) |
| Proof of authority (`proposers/Chooser.sol`) | an address | `getProposer` | - | `Coordinators` of `Rollup` |
| Vault and withdrawals (`Vault.sol`, `WithdrawManager.sol`, `SpokeRegistry.sol`) | approved batches, processed roots, claim bitmaps, tokens | `requestApproval`, `processWithdrawCommitment`, `claimTokens`, `registerSpoke` | Nobody is paid twice, or more than batches in place migrate; the manager can pay the open claims of right commitments | `Withdrawals` |
| State transition (`libs/Transition.sol`, `Transfer.sol`, `Create2Transfer.sol`, `MassMigrations.sol`, nonces of `libs/Authenticity.sol`; `ts/stateTree.ts`, `ts/commitments.ts`) | the state tree | `process*Commit`, proofs for disputes, bodies of commitments | Tokens are conserved, nonces spent once and in order, leaves not overwritten; the client's tree and hashes are the contract's | `Transition`, `StateTree`, `Commitments` |
| Token registry (`TokenRegistry.sol`) | token IDs, units | `requestRegistration`, `finaliseRegistration` | A token's unit and ID are fixed | no |
| Account tree (`AccountTree.sol`, `BLSAccountRegistry.sol`, `ts/accountTree.ts`) | two append-only subtrees, and the client's copy | `register`, `registerBatch` | The root is that of the registered keys; a returned ID is the key's | `AccountRegistry` |
| Merkle trees (`libs/MerkleTree.sol`, `ts/tree`) | nodes | `update*`, `witness`, `verify`, `merklize` | Every node is the hash of what is below it, and a proof verifies exactly for what the tree holds | `Trees`, `Commitments`, `DatabaseEngine` |
| Codec (`libs/Tx.sol`, `ts/decimal.ts`, `ts/tx.ts`) | - | `compress`, `decode`, `serialize` | Decoding undoes encoding; amounts that have no encoding are refused | `Codec` |
| Signatures (`libs/BLS.sol`, `ts/mcl.ts`) | - | `verify*` | - | a Boolean; the signed message is in `Codec` |
| State engine (`ts/client/storageEngine`, `ts/client/database`) | tree, cache, journal; rows | `get`, `create`, `update*`, `findVacantSubtree`, `commit`, `revert` | Reads return what was written and not reverted; vacant subtrees are vacant | `MemoryEngine`, `DatabaseEngine` |
| Batch and transaction storage | maps | `add`, `pending`, `submitted`, `finalized`, `fail`, `sync` | What is told of a transaction is true; what is synced is found once | `BatchStorage`, `TransactionStorage` (partly) |
| Transfer pool and packing (`ts/client/txPool.ts`, `features/transfer.ts`, `services/packer.ts`) | queues per token, the packer's commitment and batch | `push`, `getHighestValueToken`, `pack`, `submit` | What the packer sends replays as it claims; no pending transfer is lost, and each is decided | `TransferPool`, `Packing` |
| Deposit pool and packing (`features/deposit.ts`) | waiting deposits, subtrees | `pushDeposit`, `pop`, `applyBatch`, `packAndSubmit` | The pool's first subtree is the L1's | `DepositPool`, `Client` |
| Syncer and sync point (`services/syncer.ts`, `events`, `coreAPI.ts`) | sync point, listeners, handlers under way | `initialSync`, `listen`, `stop`, handlers of `newBatch` and `depositQueued` | The node has the batches, states and deposits of the L1 | `Client` (partly) |
| Node, services, bidder (`node.ts`, `services/base.ts`, `services/bidder.ts`, `ts/burnAuction.ts`) | mode, service states, calls under way | `init`, `close`, `start`, `stop`, handlers of blocks and slots, `maybeBid` | The node packs in its own slots only and wins what it pays for | `Node`, `Service` |
| RPC, configuration, genesis | - | `POST /tx`, modes, genesis state | - | the parts that change state, in `Packing`, `Node`, `Client` |
| Front-end contracts, deployment | - | - | - | no |

### How they interact

```
 users --depositFor--> DepositManager --tokens--> Vault
                          ^  |  dequeueToSubmit / reenqueue
 coordinators --submit*--> Rollup/BatchManager <--getProposer-- BurnAuction <--bid-- bidder
 anyone --dispute*, keepRollingBack-->  |  |
                                        |  +--process*Commit--> Transfer, Create2Transfer, MassMigrations
           getBatch                     v
 spokes --requestApproval--> Vault --allowance--> WithdrawManager --claimTokens--> users

 node:  L1 events --> syncer --+--> deposit pool --+
                               +--> storages <-----+--> packer --submit*--> L1
        POST /tx -------------------> transfer pool +
        blocks --> bidder --bid--> L1;  slots --> start/stop of packer and syncer
```

Every L1 transaction is atomic, so on the L1 the interleaving is that of whole
calls, by anybody and in any order, with blocks passing in between. Inside the
node, handlers interleave at each `await`.

### What is hard

* **Roll back in several calls.** `rollback` stops when the gas runs out
  (`BatchManager.sol:103`) and leaves wrong batches in place, behind
  `invalidBatchMarker`. Time passes, so they reach `finaliseOn`. Every other
  function must look at the marker; `withdrawStake` and `Vault.requestApproval`
  do not.
* **IDs that are used again.** After a roll back a new batch has an ID an
  earlier one had. `deposits` and `withdrawalBitmap` are not cleared.
* **Boundaries in time.** Disputes end where finality begins; the genesis batch
  is final from the start; bids are for the slot after the next one.
* **Disputes that revert.** What cannot be replayed cannot be disputed.
* **Disputes of right batches.** A dispute function replays what hashes alike, whatever
  the batch's type is, and takes a path modulo the size of a full tree.
* **Backward counting.** Nonces are verified from the state after the commitment.
* **The queue of subtrees.** A window `front .. back` of a map, with subtrees
  coming back out of order; the merge loop is a binary counter.
* **Withdraw roots** are known by their hash, can be processed repeatedly and
  from more than one batch; claims are marked per root and public key.
* **Trees that are updated in place.** A commit of the memory engine awaits
  between two leaves, the database engine between two rows; JavaScript's bit
  operators read an index as a signed number; an index of a public key is read
  before the registration that it is for.
* **The packer** changes the states before a batch is sent, stores it before the L1 has
  mined it, and undoes nothing when that fails; and a transfer is known by its message,
  so that two that are alike are one.
* **Events.** The same log is read as past events and heard as new ones, by
  handlers that interleave, with a sync point that both and the packer move, and
  is read again each time the node stops being the proposer.
* **Slots.** A slot's start and its last blocks are handled by asynchronous calls
  that ask the L1 first; stopping one service and starting another overlap. The
  bidder's question, its answer and its bid each take time, and bids are for
  whatever slot is open when they are mined.

`PROJECT.json` lists 40 hazards at their lines with the properties that cover
them, or a note why none does.

## 2. Modules

| Module | Role |
|---|---|
| `DepositQueue` | abstract: a FIFO of complete deposit subtrees |
| `DepositManager` | the contract, shown to implement `DepositQueue` |
| `BatchChain` | abstract: a chain of batches that become final, of which disputes cut off tails |
| `Rollup` | the rollup contracts, composed with `DepositQueue`; shown to implement `BatchChain` |
| `BurnAuction` | the auction |
| `Withdrawals` | vault, spoke registry, withdraw manager, composed with `BatchChain` |
| `Transition` | the replay of commitments, in the contract and in the node |
| `StateTree` | the client's tree that makes commitments and dispute proofs, on the states of `Transition` |
| `Codec` | floats, encodings and messages of transactions, on both sides |
| `Powers` | powers of two and of ten, used by `Codec` and `Trees` |
| `Trees` | Merkle trees of the client as operators on a tree value |
| `Commitments` | bodies, calldata and proofs of commitments and batches, on `Codec` and `Trees` |
| `StorageEngine`, `MemoryEngine`, `DatabaseEngine` | the node's state storage, in memory and on disk |
| `AccountRegistry` | the public keys: contract and client |
| `Storage` | the engines and the registry side by side: what keeps a Merkle tree |
| `TransactionStorage`, `BatchStorage`, `TransferPool`, `DepositPool` | the node's storages and pools, as operators on their values |
| `Packing` | transfers from the pool to the L1, composed with `Codec`, the storages and `Transition` |
| `Client` | the node following the L1 and proposing on it, composed with `DepositPool` and `BatchStorage` |
| `Service` | the life cycle of a service, as operators |
| `Node` | the node's modes and services over the slots, composed with `BurnAuction` |
| `RollupProofs`, `DepositManagerProofs`, `WithdrawalsProofs`, `TransitionProofs`, `ClientProofs` | proofs of the modules they are named after; `TransitionProofs` has those of `StateTree` too |
| `ProposerProofs` | proofs of `BurnAuction`, which chooses the proposer, and of `Packing`, which is what it does |
| `NodeProofs` | proofs of `Node` and, in the same module, of `Storage` with its engines, registry and trees |
| `SumTheorems` | lemmas: quotients, induction over numbers and finite sets, sums, folds along a sequence |
| `MC*` | instances for TLC |

The abstract modules are the joints of the composition on the L1. `Rollup` uses
`DepositQueue` in place of the contract that implements it, `Withdrawals` uses
`BatchChain` in place of the contract that implements it, so neither pays for
states of the other that it cannot see. In the client the pools and storages are
operators on values, each returning what it leaves and the exception it ends with,
so that the modules that interleave their callers (`Packing`, `Client`) stay short.

Definitions marked as alternatives (`ShiftOne`, `EndsEarly`, `Trusted`, ...) are
plausible wrong forms of the one after them. `PROJECT.json` pairs each property with
one under which its run fails. A property that no run lists (`TypeOK` of several
modules) is there for readers and proofs.

### DepositManager

State: the fields of `DepositCore` and `SubtreeQueue`. `babyTrees` is the live
part of the array, `queue` has an entry deleted where the code deletes it, and
`keccak256` is injective: the hash of two nodes is the pair of them, so a root
*is* the tree. `depositFor` includes `insertAndMerge` and, when a subtree is
complete, `enqueue`. `reenqueue` takes any subtree that was dequeued earlier,
once or again, which is what the rollup may do. The history variables `leaves`
and `dequeued` are there for the properties.

* `BinaryCounter`: after any number of deposits, the live trees are the perfect
  trees over consecutive deposits, one for each 1 bit of `depositCount`.
* `SubtreesReachRollup`: each complete subtree waits in the queue or was handed out.
* `VaultBacksDeposits`: converting amounts to L2 units leaves no remainder.
* `ImplementsQueue`: refinement of `DepositQueue`; a subtree maps to its number,
  the window of IDs to a sequence.

### Rollup

One step is one transaction. What a state root is told apart by is which deposit
subtree stands at which slot of the state tree, which slots were written by a
`create2Transfer`, and which are vacant. A commitment is a state root and a body,
and a body is reduced to what disputes make of it: whether, as transactions of a kind,
it replays, fails with a `Result`, or reverts, and which slots it creates states in.
Coordinators post the root the body leads to, the one it started from, or an
empty tree, so correct and wrong commitments arise on every state.

Of each body the model knows what the dispute functions of all three kinds make of it.
None of them reads the batch's type (`Rollup.sol:366-527`): which it can be given is
a matter of hashes (`Reads`). The leaf of a Transfer and of a Create2Transfer
commitment is the hash of the same fields (`Rollup.sol:217-225`, `256-264`), so the
functions of either kind replay the batches of both; a mass migration's body has more
fields, a deposit has none. And the path of the target is not compared with the number of
commitments (`Rollup.sol:146`), while `MerkleTree.verify` reads as many of its bits as the
tree is deep: in a full tree (`Full`) the path after the last one is the first commitment
again, with the last one as its predecessor. From there `TransitionFails` leaves the
outcome open.

| Action | Code |
|---|---|
| `SubmitCommitments` | `submitTransfer`, `submitCreate2Transfer`, `submitMassMigration` with `submitBatch` |
| `submitDeposits` | `submitDeposits`: vacancy of the previous state, `dequeueToSubmit`, `submitBatch` |
| `disputeTransition`, `disputeSignature` | the six functions, for a kind, batch and path, where they reach `startRollingBack` |
| `keepRollingBack` | the same `rollback`, from the marker |
| `withdrawStake` | `withdrawStake` |
| `SubtreeReady`, `NewBlock` | the deposit manager's side, and time |

`nActual` of the disputes and of `keepRollingBack` is the number of iterations the gas
lasts for, from none to all.

* `StakeLedger`: what the contract holds is what was paid in for the batches in
  place less one stake for each bit of the bitmap.
* `FinalisedIsPermanent`: a batch that became final while no roll back was about
  to delete it is never deleted or changed.
* `RollbackIsThorough`: no batch is added during a roll back and its marker is
  only reset when everything from the marker on is gone.
* `RollbackHasGrounds`: the batch that a roll back began with, maybe many calls ago, is
  wrong (`Correct` is false of it), or `Exposed`: of the two kinds that are replayed as
  each other, or with a full tree. So a deposit batch, or a correct mass migration batch
  whose tree is not full, starts none; that the others may is in section 5.
* `RollbackCompletes` (liveness), unless the contract cannot pay.
* `NoSubtreeLost`: every subtree waits or is in the deposit batch that holds it.
* `DepositsCredited`: as long as the batches are correct, the newest state holds
  the subtree of every deposit batch.
* `ImplementsChain`: refinement of `BatchChain`.

### BurnAuction

One action for each external function. `updateBalance` is the code's, with the
reverts of `SafeMath` as guards, and a bid performs the refund, the donation and
the charge in the order of the code, so that a coordinator that outbids itself,
or the donation address bidding, is covered.

* `AccountsAddUp`: what an account paid in less what it took out is its deposit
  plus its winning bids, less the donations if it is the donation address.
* `DepositsAreCovered`: every deposit can be withdrawn; what stays is exactly the
  burnt part of the winning bids, rounding included.
* `ProposersAreSettled`: no call changes who proposes in the current or the next
  slot, and the best bid of the open slot only rises.

### Withdrawals

A batch is the sequence of its mass migration commitments; a withdraw root is the
sequence of the states it was computed from. `requestApproval` is called by
spokes of other systems, which then take their allowance (`SpokeTakes`,
external), or within `processWithdrawCommitment`. A commitment's withdraw root and amount
are what its coordinator chose: they need not agree, nor be what the transactions lead to.
Batches are disputed or not, and time goes on either way, since a commitment whose replay
reverts cannot be disputed (`Transition.sol:127`) and becomes final with whatever it says.

The vault tests `finaliseOn` alone, so a batch can be approved that a roll back
under way will delete. The history variable `doomed` collects those; the two
properties below that would be false for such batches say so.

* `ApprovedIsPermanent`: a batch approved otherwise stays in the chain.
* `PaidOncePerRoot`: a public key is paid once for each processed root that has a
  state of it, however often the root is processed.
* `ManagerCoversClaims`: the manager's tokens and the `Shortfall` cover every open claim.
  The shortfall is what each root's commitments, all those it was processed from
  (`received`), claimed less than the total of its states. So a root whose
  commitments claimed its total is covered, and a wrong one makes the manager short of
  its own missing tokens and of no others.
* `PaidAtMostMigrated`: nobody is paid more than the withdraw roots of the batches in
  place name for it. Where those roots are what the transactions lead to, that is what
  was taken from its L2 balance; a wrong root of a commitment that cannot be disputed
  pays what it names.

### Transition

Operators for the replay of one transaction and of a whole commitment of each
kind, with the `Result`s, reverts and their order as in the code, and the node's
`process` with its exceptions. The specification applies commitments that replay
to `Ok` to states that arise from deposits and earlier commitments.

* `TokensConserved`: per token, balances plus what migrated is what was deposited.
* `NoncesAreSpentInOrder`: the nonce that must have been signed, counted backwards
  from the state after the commitment, is the sender's nonce when the transaction
  is applied, with any number of transactions of the same sender.
* `NodeAgrees`: the node accepts a transfer commitment with transactions exactly
  when the contract replays it to `Ok`, and reaches the same states.
* `StatesKeepOwners`: no commitment changes a leaf's public key or token.

### StateTree, Codec, Trees, Commitments

`StateTree` is `ts/stateTree.ts`: each step of a commitment (sender, receiver, new
state, fee) makes a proof from the state of a leaf and updates it, or raises. A step
that raises leaves the tree as the code does, a receiver's with the sender updated.

* `TreeAgrees`: what the tree builds without an exception the contract replays to
  `Ok`, to the same states and with the proofs it asks for, one for each leaf it
  reads; where the tree raises, the replay does not end `Ok`.

`Codec` has the floats of `decimal.ts` and the transactions of `tx.ts` beside
`Tx.sol`: a byte is a digit of base `2^ByteBits`, a field a sequence of them.
`Trees` has `MemoryTree` as a function from level and index to nodes, a hash being a
record of what was hashed; an update goes up the tree level by level, in couples. JavaScript's `&`, `^`, `~` and `>>` work on `BitWidth` bits
read as a signed number, `+` and `-` do not; so an index with the highest bit set
comes out negative, in the model as in the language. In `Commitments` a coordinator
adds transactions to a commitment and commitments to a batch.

* `CalldataDecodes`: what the contract and the node decode, and the messages whose
  signatures are checked, are what the coordinator put in; numbers that would change
  are refused.
* `BatchesAgree`: client and contract compute the same commitment root, the client
  does again from calldata, and a proof with a path of the batch convinces the contract of the
  commitment at its place and of no other (what paths beyond it do is in `Rollup`).
  A batch of create2Transfers is not read back as one: the
  node's `batchFactory` takes it for mass migrations, though the decoder for it exists
  and would give the right one.

### MemoryEngine and DatabaseEngine

`MemoryEngine` has `items`, `cache`, `journal` and the tree. `update` and `create` are
one step, `commit` is one step for each entry of the journal and one at the end, and
`updateBatch` one for each item, since each awaits. The array a commit walks is the
engine's own until a `revert` replaces it (`Detached`). `overlapped` records that two
commits ran at a time, and `reverted` that something was reverted: `revert` leaves the
cache as it is (`memoryEngine.ts:63`).

`DatabaseEngine` takes one step for each row read or written, by several tasks, and
restarts between any two. `raced` and `interrupted` record updates that overlapped,
and restarts in the middle of one.

* `TreesHold`, of `Storage`: every node of the memory engine's tree is the hash of what is
  below it and every witness proves its leaf, however commits interleave; of the
  database's tree after updates that came one at a time; and the contract's append-only
  account tree has the root of all keys.
* `NoUpdateLost`: what was given to `update` is what `get` returns, while commits do
  not overlap and nothing was reverted.
* `VacantIsVacant`: a subtree found vacant has no item, stored or waiting.

### AccountRegistry

The contract's two subtrees, appended to with the nodes kept in `filledSubtrees`, and
the client's two trees and indices. A call of `register` or `registerBatch` is four
steps: it reads the index, sends and writes its copy, asks the contract for the key,
and reads the index again; registrations are mined in any order, others among them.

* `RegisteredIDsAreTrue`: the ID that a call returns for its last key is that key's on the
  chain, and so are those of the other keys of a batch that the client's tree has as the
  call wrote them. The contract is asked for the last key alone (`accountTree.ts:68`).

### Packing

| Action | Code |
|---|---|
| `Push` | `POST /tx` up to the pool: several at once, which all see the pool as it was |
| `StartBatch`, `getNextPipe` | `maybePackTransfers`, the token with the highest fees |
| `PullFromPool`, `PullFromSimulator`, `Exhausted` | one turn of the loop of `pack`: `validateTransferStateTransition`, `processTransfer` |
| `Commit` | fees, `engine.commit`, encoding of the commitment |
| `submitTransfer` | the L1 transaction is sent, which may fail: `l1Txn` is pending |
| `Record` | `batches.add`, `submitted` and `failed` of each transfer, not waiting for the L1 |
| `Mined`, `Reverted` | the L1 takes up what was sent, or not, some time after that |
| `wait` | `tx.wait(1)` of `packer.ts:74`: the packer goes on, or dies of a transaction reverted |

A push of a transfer whose token has no queue throws and makes nothing pending
(`pendingOf`); the simulator throws for a balance that `round` cannot write (`canGenTx`).

`packer.pc = "dead"` is the run loop after an exception. The contract's replay of
`Transition` is an INSTANCE (`L1`) that reads the batches that were submitted.

* `BatchesReplay`: of the batch that was sent, the replay of each commitment, by the
  functions of its own kind and from the commitment before it, ends well, in the states
  it claims, and asks for the nonces that were signed. (That such a batch may be disputed
  all the same, as another kind or with another path, is in `Rollup` and section 5.)
* `StatusesAreTrue`: submitted is in the batch it names, in the storage; pending is in
  none, and failed in none but that of a first copy, which it names; unless the packer
  died with the transfer in the batch it was to record (`Unrecorded`). What is stored is
  what the L1 has, but for the batch that was sent last (`StoresWhatWasSent`): until that
  is mined, and for ever when it is reverted, the storage is ahead and its transfers are
  told to be submitted; then the packer does not go on. And a node that syncs the batches
  can store the transfers of each.
* `PendingIsHeld`: a pending transfer is in the pool, however pushes overlapped and
  whichever was taken, or in the packer's hands, or was dropped; until the packer dies.
* `PendingIsDecided` (liveness): each pending transfer is submitted or fails, unless
  the packer dropped it or has died.

What the model shows beside the properties, each a step of it:
`pack` drops the transfer it has pulled when the commitment is full; a nonce is
compared by reference (`transfer.ts:305`), so one that was counted up by the sender
never equals the state's; a transfer pushed twice is told `Failed` though its first
copy is in a batch; one that failed, pushed again and accepted, ends the packer after
the batch was sent; so does a pool whose transfers pay no fee, a commitment without
a valid transfer, or a bad transfer without a signature, which is logged by a hash it
cannot have. The packer has changed its states by then (`engine.commit` comes before
encoding and before the transaction is sent).

### Client

The L1 is a log of one event a block: deposits, and batches of it or of the node. A
state root stands for the subtrees of deposits, by path, and for how many transfer
batches were applied.

| Actions | Code |
|---|---|
| `getBlockNumber`, `SyncDeposits`, `QueryBatches`, `SyncBatch`, `FinishBatch`, `EndChunk` | `initialSync`, chunk by chunk; `newBatch.ts`: strategy, storing, applying, sync point |
| `SyncComplete`, `HearDeposit`, `HearBatch` | `listen`: each event is handled by as many listeners as are registered |
| `RunOnce`, `submitDeposits`, `Deposited`, `submitTransfers`, `Transferred`, `Mined`, `NoneLeft`, `StopPacker` | `packer.ts` with `packAndSubmit` of deposits and transfers |
| `SlotBoundary`, `NewSlot` | `node.ts:133-168`, with handlers that answer in time (for others see `Node`) |
| `QueueDeposit`, `OtherProposes` | the L1 |

* `NodeFollowsL1`: nothing is raised, each batch on the L1 leads from the states of the
  one before, and a node that has handled everything up to the last block (`AllHeard`,
  with the packer between two batches) has the L1's batches, states and waiting deposits.
* `CatchesUp` (liveness): the node comes to have every batch.
* `DepositRootsMatch` (refuted): see section 5.

The first two say so only of a node around which none of eleven things has happened, which
the history variable `flaws` records. Each is a behaviour of the code, and
each of them, alone, makes `NodeFollowsL1` fail when it is allowed for:

| Flaw | What happens | Line |
|---|---|---|
| `repeated` | a sync asks again for the block of the sync point: deposits are pooled twice | `syncer.ts:54` |
| `reordered` | a listener hears a deposit before a sync that started again reads an earlier one | `node.ts:160` |
| `early` | a deposit batch is handled before its deposits | `deposit.ts:148` |
| `overlap` | two batches are handled at once and share one strategy | `contexts.ts:43` |
| `unsupported` | mass migrations and create2Transfers have no strategy | `contexts.ts:44` |
| `overtaken` | the sync point moves during an initial sync | `syncer.ts:64` |
| `own` | the packer's batch is heard as well | `packer.ts:75` |
| `unfinished` | a sync starts while the packer's batch is under way | `node.ts:159` |
| `missed` | an event falls between the last chunk and `listen` | `syncer.ts:47` |
| `unheard` | nobody listens in the node's own slots: another's batch, or a deposit, reaches no listener | `node.ts:163` |
| `refused` | the L1 refuses the packer's batch when its gas is estimated, or does not mine it | `packer.ts:65`, `:74` |

A batch of the packer is on the log from the step that sends it: no other part of the node
asks for it in between, and the packer stores it and waits in later steps (`Record`,
`Mined`), as in the code. When it is sent and not mined, it is stored and the packer dies
of its wait (`Refused`); the steps between sending and mining are those of `Packing`.

### Node and Service

`Service` is `base.ts` as operators on a record: state, run loops, stops that wait.
`Node` has the modes of a node, the packer as a `Service`, the listeners of the syncer,
the handlers and calls under way, and the auction of `BurnAuction`.

| Actions | Code |
|---|---|
| `init`, `onSyncComplete`, `close` | `HubbleNode.init`, `start`, `close`, for each configuration |
| `Deliver` | a block's event: `maybeBid` up to its question, and the handlers of `node.ts` |
| `Answered` | `onSlotBoundary`, `onNewSlot` after their answers |
| `getAuctioningSlotBid`, `Bids` | `maybeBid` after its question, and its bid |
| `PackerSteps` | a run that is over, that fails, a stop that is over |
| `NewBlock`, `RivalBid` | the L1 |

* `SlotsAreWon`: a slot for which the node's call came to its end in time is the
  node's, or has a best bid of no less than it would have paid, unless the amounts
  were compared wrongly: `bidder.ts:42` compares two BigNumbers as their decimal
  strings, and `"9" >= "10"`.
* `PacksInOwnSlots`: at most one run loop; and the packer, unless told to stop, runs
  in the node's slots only, up to what was not handled yet. Where a slot's start is
  answered after its boundary (`node.ts:164`), the stop comes before the start and
  nobody stops the packer again (`overtaken`).

The model also has: a stop of a service that is not running waits for ever; a packer
that died stays `RUNNING` and is not started again; `close` leaves the handlers of
blocks registered, and they may start the packer again; a bid mined one slot late is
for the wrong slot.

## 3. Runs, bounds and fairness

| Run | Instance | States | Question |
|---|---|---|---|
| `deposit_manager` | depth 2 (subtrees of 4), 9 deposits, 2 waiting | 18 k | Are merging and the queue right? |
| `rollup_deposits` | 2 slots, 2 subtrees, 3 batches, block 0 and 1 | 138 k | Do deposits survive roll backs? |
| `rollup_disputes` | 2 batches of up to 2 commitments of two kinds, blocks 0 to 4, finality after 1 | 207 k | What do disputes delete, who is paid, does a roll back end? |
| `burn_auction` | 3 accounts, one the donation address; slots of 2 blocks, genesis block 1, blocks 0 to 5 | 15 k | Do the accounts add up, is the outcome settled? |
| `withdrawals` | 2 users, 3 contents, a spoke besides the manager, `l2Unit` 2 | 442 k | Who is paid, from which batches, and with whose tokens? |
| `transition` | 3 leaves, 2 tokens, up to 3 transactions where 2 are allowed; batches of up to 3 commitments of 2 encoded transactions | 3 k | Are tokens, nonces and leaves kept? Do client and contract agree? |
| `storage_engine` | depth 4, 2 tasks, 3 updates; 2 rows; trees of 8 keys, 2 callers, 3 registrations, 2 batches of keys | 358 k | Do trees, caches and indices hold? |
| `packing` | 5 states, 2 tokens, 9 transfers, a pool of 2, 2 transfers a commitment, 2 commitments a batch | 131 k | Do batches replay, are statuses true, transfers held and decided? |
| `client` | subtrees of 2, chunks of 2 blocks, 5 blocks, 3 slots | 742 k | Does the node follow the L1? |
| `node` | slots of 4 blocks, 21 blocks, 2 behind, one rival | 1.3 M | Does the node win and use its slots? |

Two more runs each show one violation; see [section 5](#5-where-code-and-documentation-disagree).

Why the bounds are enough: each is chosen so that the case a property is about
occurs with room to spare.

* *Deposits.* Depth 2 has one, two and no merges; nine deposits complete two
  subtrees and start a third, so the counter wraps twice and the window of the
  queue empties, refills and receives subtrees back.
* *Disputes.* `MaxBatchID = 3` leaves two batches on top of genesis: the disputed
  one, and one above it, which a roll back may or may not reach. Two commitments
  give a previous commitment in the same batch and in the batch below, and make a full
  tree, whose path 2 is commitment 0 again; one alone does not. Mass migrations that
  replay as nothing else stand beside create2Transfers that fail as transfers. Finality
  after one block within four lets batches of different ages, final ones among
  them, stand side by side, and lets time pass during a roll back. IDs are used
  again as often as the bound on blocks and payments allows.
* *Deposits in batches.* Three batches and two subtrees let a deposit batch lie
  above a batch that writes to leaves, be rolled back with it, and be submitted
  again beside a newer subtree.
* *Auction.* Slot length 2 and genesis block 1 give blocks before genesis, at and
  across boundaries of slots; odd values and a donation rate of 1/2 round.
* *Withdrawals.* A commitment with one user twice, a batch with two commitments
  for different spokes, and one whose amount is too small for its withdraw root, which a
  right commitment of another batch has as well.
* *Transitions.* One transaction more than allowed; senders twice, transfers to
  oneself and to the fee receiver, zero amounts, leaves that are created and used
  in the same commitment, two tokens. Bytes of 3 bits, exponents of 2 and mantissas
  of 4 put the ends of the codec within reach: exact with an exponent and without, the
  largest, not representable; indices of one byte, of four, and too large. Three
  commitments make a tree with a zero leaf, `merklize` is checked up to 9 leaves.
* *Storage.* `BitWidth = Depth = 4` makes the upper half of the indices negative to
  the bit operators, as the 32 bits of a tree of depth 32; IDs 2 and 9 lie on both
  sides. Three updates let one come before, inside and after a commit. Two callers
  read the same index, and others register in between; of the two batches of keys one
  is twice the key that the other ends with.
* *Packing.* Four pushes, two at a time, over a pool of two exceed its limit; three
  transfers of one token overfill a commitment of two; the eight transfers are two in a
  row of one sender with the higher fee last, a nonce that was counted up, another
  sender, another token without a fee, an amount without encoding, no signature, and
  an unknown key.
* *Client.* Five blocks hold genesis, two deposits that make a subtree, the batch of
  it and one more, over three chunks; three slots give a change to the node, back, and
  to the node again.
  Once a flaw has occurred neither property says anything more, so the search ends
  there (`WithoutFlaws`): flaws only grow, and `CatchesUp` holds of such behaviours.
* *Node.* 21 blocks are five slots from genesis block 1; a node made in slot 0 bids
  for slot 3 first, and slots 3 to 5 (`SomeSlots`) give a slot of its own after, before
  and between the rival's. Two calls or handlers under way are enough for any two to
  overtake each other. The rival bids 9 and 12, around the node's 10, and 9 is the
  one that compares wrongly. With 17 blocks no boundary of the node's last slot could be
  overtaken and `overtaken` never mattered. States that differ only in accounts of the
  auction, which decide nothing here, are one (`WithoutAccounts`).

`MaxOverpaid`, `MaxEther`, `MaxWaiting`, `MaxSubtrees`, `MaxSpokes`, `MaxNonce`,
`MaxLeaves`, `MaxUpdates`, `MaxRows`, `MaxRegistrations`, `MaxPushes`, `MaxTogether`, `MaxBlocks`, `MaxSlots`, `MaxBehind` and `MaxStart` bound counters; each
stands as a guard of the actions that increase it. Deadlock is not checked because all
these systems stop when their bounds are used up. Symmetry is used in
`storage_engine` only, over tasks and callers, which no definition tells apart.

**Fairness.**

* `rollup_disputes`: `WF(\E n >= 1 : keepRollingBack(n))`. `rollback` pays two thirds of
  each stake to its caller (`BatchManager.sol:121`), anyone may call it, and the gas of
  one iteration is all it takes; so as long as there is a stake to earn somebody calls
  it. Nothing is assumed of coordinators, disputers, users or blocks. The alternative
  in the property, a balance below one stake, is a real outcome: see section 5.
* `packing`: `WF(Packs \/ L1Answers)`. The packer's loop goes on as long as its promises
  resolve: the disk's, its own timer, and that of a transaction sent, which the L1 mines or
  reverts some time; which of the two is not said. Pushes are not fair.
* `client`: `WF(NodeStep)`. The L1 answers queries and delivers events, and the node
  handles them; nothing is assumed of the L1's proposers, the slots, or the packer's
  decisions to submit.

`node` has no liveness property: a stop may wait for ever, and so may a start behind it.

## 4. Proofs

TLAPS proves these for every value of the constants that satisfies the modules'
assumptions: which sets and numbers they are, and what else section 6 names.

| Module | Theorem | Property |
|---|---|---|
| `RollupProofs` | `Invariance` | the inductive invariant `IInv` |
| | `TypeCorrect` | `TypeOK` |
| | `StakesAccounted` | `StakeLedger` |
| | `FinalisedPermanent` | `FinalisedIsPermanent` |
| | `GroundsForRollback` | `RollbackHasGrounds` |
| | `RollbackThorough` | `RollbackIsThorough` |
| | `SubtreesKept` | `NoSubtreeLost` |
| | `DepositsAreCredited` | `DepositsCredited` |
| | `ChainImplemented` | `ImplementsChain`: the refinement of `BatchChain` |
| `DepositManagerProofs` | `InvariantHolds`, `TypesHold` | the inductive invariant, `TypeOK` |
| | `MergingCounts` | `BinaryCounter` |
| | `NoSubtreeIsLost` | `SubtreesReachRollup` |
| | `VaultHolds` | `VaultBacksDeposits` |
| | `QueueImplemented` | `ImplementsQueue`: the refinement of `DepositQueue` |
| `WithdrawalsProofs` | `InvariantHolds`, `MoneyHolds` | the inductive invariants of the chain and of the money |
| | `ApprovedBatchesStay` | `ApprovedIsPermanent` |
| | `PaidOnce` | `PaidOncePerRoot` |
| | `PaidIsMigrated` | `PaidAtMostMigrated` |
| | `ManagerCovers` | `ManagerCoversClaims` |
| `TransitionProofs` | `TypesHold` | `TypeOK` |
| | `OwnersKept` | `StatesKeepOwners` |
| | `NoTokensMade` | `TokensConserved` |
| | `NoncesInOrder` | `NoncesAreSpentInOrder` |
| | `NodeAgreesWithL1` | `NodeAgrees` |
| | `TreeAgreesWithL1` | `TreeAgrees` of `StateTree` |
| `ProposerProofs` | `TypesHold` | `AuctionTypeOK` |
| | `ProposersSettled` | `ProposersAreSettled` |
| | `AccountsBalance` | `AccountsAddUp` |
| | `EtherCovered` | `DepositsAreCovered` |
| | `PackerTypes` | the types of `Packing`'s variables, `TypeInv` |
| | `NothingIsLost` | `PendingIsHeld` |
| | `AcceptedOnce` | `SpentInv` and `UniqueInv`: no message is accepted twice |
| | `StatusesStayTrue` | `StatusesAreTrue` |
| `NodeProofs` | `SlotsWon` | `SlotsAreWon` |
| | `OneLoop`, `PacksWhereItMay` | the first part of `PacksInOwnSlots`, and all of it |
| | `UpdatesAreKept` | `NoUpdateLost` of the memory engine |
| | `FoundIsVacant` | `VacantIsVacant` |
| | `TreesAreTrue` | `TreesHold`, from the next three |
| | `MemoryTreeIsOfItems` | `MemoryTreeHolds` |
| | `RowsAreTheTree` | `RowsAreATree` |
| | `AppendsHash` | `AppendedIsHashed` |
| | `IDsAreTrue` | `RegisteredIDsAreTrue` |
| | `StorageTypes` | `StorageTypeOK`, from the types of the three parts |
| `ClientProofs` | `FollowsL1` | `NodeFollowsL1` |

So every safety property has a theorem in the runs `deposit_manager`, `rollup_deposits`,
`rollup_disputes`, `burn_auction`, `withdrawals`, `storage_engine`, `client` and `node`; in
`transition` those of `Transition` and `StateTree` do, and in `packing` all but one.

### Induction

The library's rules of induction take an operator as a parameter, which the provers
cannot instantiate. `SumTheorems` states induction about *sets*, which they can: a set
of numbers that is not empty has a least one (`LeastNumber`); one that holds 0 and the
successors of its elements up to a bound holds all numbers up to it (`NumbersUpTo`); a
set of sets that holds {} and grows by single elements holds every finite set
(`SetsByInduction`). From these come the sums of the community modules, which choose
their next element: any choice gives the same sum (`SumIsAdditive`), so one changed
value changes a sum by as much (`SumUpdate`), and terms mapped to different terms that
are no smaller have no larger sum (`SumInjection`). And folds along a sequence: the
partial results exist, and have a type if every step keeps it (`SequenceFold`).

### Arguments

**Rollup.** The invariant is

```
IInv == TypeOK /\ StakeLedger /\ FinaliseOrder /\ MarkerFails
```

`FinalisedIsPermanent` is not inductive by itself. A roll back deletes from its
marker up, and only the disputed batch was tested for finality; that nothing above
it is final needs *FinaliseOrder*: `finaliseOn` never falls with the ID, genesis
is final, and no batch is final later than one submitted now. `RollbackHasGrounds`
needs *MarkerFails*: a roll back that goes on in a later call deletes batches that
nobody disputes in that call, so the invariant remembers that some dispute function that
can be given the batch at the marker finds it wrong, at some path. It keeps to do so
because a replay depends only on the batch below the marker and on its own batch, neither
of which changes while the marker is set. And such a batch is wrong or `Exposed`
(`FailsHasGrounds`): of a batch that is not, every kind that reads it is its own, every
path is one of its commitments', and the replay is the one that `Correct` speaks of.
`StakeLedger` carries the arithmetic of the payments and is inductive with the types.
Each action is treated once for each conjunct; what submission and roll back do to
the map of batches is stated in lemmas of their own.

**Deposits in batches.** `DepositsCredited` speaks of the newest state, and a roll back
makes an older one the newest; so the invariant `CreditedUpTo` says it of the state after
every batch `n`, as long as the batches up to `n` are correct. A deposit batch writes to a
slot that was vacant, and no subtree has the number of `Vacant`. A batch of transactions
leaves a subtree where it is (`ReplayKeeps`): if some commitment moved it, the first one
that did would start from a state that has it.

**The chain.** The batches after genesis map to a sequence of links, the marker to
the marker. A submission is a `Submit`, a dispute a `Dispute`, `keepRollingBack` a
`KeepRollingBack`; withdrawing stakes and completing subtrees leave the chain alone.

**Deposit manager.** The invariant says that `depositCount` is what `leaves` has beyond the
complete subtrees, and that `babyTrees` are `Counted`: one perfect tree for each 1 bit of
the count, larger ones first, over consecutive deposits. The merge loop runs once for each
1 bit at the end of the number, so the two nodes it takes are neighbours of one size, and
what it makes is the perfect tree of twice as many deposits (`Perfect` trees are recursive
functions of their depth; what is used of them is the one step from a depth to the next).
When the loop reaches the full depth the count was all ones and becomes 0. So what goes to
the queue is the next subtree; and the window `front .. back`, read as the numbers of its
subtrees, is the FIFO of `DepositQueue`, each call one step of it or none.

**Withdrawals.** `IInv` says that `finaliseOn` never falls along the chain and that
whatever was approved in good time is in the chain, final, and below the marker. A
dispute cuts at a batch that is not final, hence above all of these. The proof uses
`BatchChain` only, so by `ChainImplemented` it holds of the rollup contracts.

`MoneyInv` says that every processed root is one of an approved batch, that claims are of
processed roots, and that a public key was paid at most the largest states of its claims.
A claim pays one state of its root, and the bitmap has a bit for each root and key, so
`PaidOncePerRoot`; the states of different processed roots stand in different commitments
of the chain, so by `SumInjection` what was paid is at most what migrated.

`ManagerCoversClaims` is inductive with these. What a commitment brings when it is processed either goes towards the
total of its root, and the shortfall falls by as much, or, when the root is new, is
what its claims are worth less what is missing from then on (`ShortfallAfter`); a claim
takes from the manager what it takes from the open claims at most. Nothing is assumed of
disputes, nor of the time that batches take to become final.

**Transition.** One transaction that replays moves its amount between two leaves of one
token and takes its fee, or its amount, out of that token's balances, spends one nonce, of
its sender, and changes no owner (`TxOk`). Along a commitment this is an induction
over the fold that replays it (`SequenceFold`): the fees and amounts taken out add up to
what the fee receiver is paid and what migrates, so tokens are conserved; and the sender of
transaction `i` has spent as many nonces by then as it sent of the first `i - 1`, so the
nonce counted backwards from the end is the one it has. The node replays with the same
steps in the same order, and refuses in the cases in which the contract does.

**The client's tree.** On the same states a step of the tree raises exactly when the contract's
refuses, and otherwise leaves the contract's states and the proof of the leaf as it was
(`Follows`). Both sides are folds over the transactions, so by induction the tree that
has been through `k` of them is `Together` with the contract's replay of `k`: what it has
proved is the list of leaves read so far, unfolded from `StepsOf`, and each sender's proof
shows that leaf in the states after the transactions before it. For a mass migration,
`fromStateProvider` looks senders up in the tree *after* the transactions, and the contract
computes the leaves to withdraw from the states *before*: a migration that replays has
its senders among the states it started from, with the commitment's token (`SendersThere`),
and replaying keeps owners and tokens, so both read the same. Where the tree raises there
is no such commitment; the contract takes the token of a mass migration from the
commitment, not from its first sender, but one that replays has its senders' token
(`RaisedIsRefused`).

**Packing.** That statuses are true rests on each message being in one place, and that on
the nonces, so the invariant is

```
IInv == TypeInv /\ PipeInv /\ SpentInv /\ UniqueInv /\ StoredInv /\ StatusInv
```

*SpentInv*: a message that was accepted, for a batch, a commitment or the next one, names a
nonce below that of its sender's state. `pack` accepts only the state's own nonce, and
counts it up; states are never taken back, not even when the L1 refuses the batch. So a
message that is accepted was not accepted before (*UniqueInv*): in the batches sent, mined
or not, the commitments and what is accepted, no message is twice. *StoredInv* relates the
storage to what was sent, step by step: one batch behind between the answer and the record,
the same from then on, and the same as the L1's when nothing is under way. *StatusInv*
says that a status names a batch exactly when its message is in it: `Record` goes through
the accepted and then the failed transfers, and may end at any of them with an exception,
which is where `Unrecorded` comes from. What `Record` leaves is a fold along the transfers,
each step an exception or a status (`submittedAll`, `failedAll` and lemmas on their
runs). That another node can follow (`CanFollow`) is a fold as well, along the flattened
messages of a batch, which are all different and in no earlier batch.

*HeldInv* follows each pending transfer: a push adds it to a queue in the step that makes
it pending, whatever else is pushed at once; `pop` takes out the one it returns and no other;
`pack` accepts it, puts it with the failed, or drops it; `Record` leaves none of the
transfers in its hands pending. What the simulator made up last is not pending yet, and must
be in hand when it becomes so.

**Auction.** `AuctionTypeOK` is inductive. The work is in division: a later block is in no
earlier slot (`SlotsInOrder`), a donation is a natural number, and each of the three
updates of a bid is covered by its guard. What an account paid is the sum of its winning
bids: a bid changes the outcome of one slot, so it adds to one account's sum what it
charges and takes from another's what it refunds; the donation address' own bids are the
case where both are one account. Summed over the accounts, a deposit is in the contract
for each, and the rest is what was burnt.

**Memory engine.** What is cached is the last entry of its ID in the journal
(`CacheIsJournal`), and of the entries that a lone commit has been through, the last of
each ID is stored (`CommitHasStored`). When the commit ends it has been through all, so
emptying the cache loses nothing. An update in between goes to the end of the journal,
where the commit will come to it. All of it is claimed only while no commits have
overlapped and nothing was reverted.

**Merkle trees.** A power of two, a Merkle tree, the nodes that a walk goes through are
recursive functions; of each it is shown once that it exists and what one step of it is
(`PowersUpTo` and its like, by induction over a set), and only that step is used. Below
half of `2^BitWidth` the bit operators are division, remainder and neighbour. A tree is
right (`Couples`) when each node is the hash of the two below. Writing leaves breaks the
couples above them and no others; going up one level mends the couples of the level and
breaks those above, of half as many nodes, rounded outwards (`EvenLength`). At the root
none is broken. Of a node and what stands beside its path, hashing upwards gives the
root: so every witness proves its node.

**The memory engine's tree.** Every leaf that a commit or a batch has written is the item
stored under its ID, and each `await` comes after a walk to the root. So between any two
steps the tree is that of the items, whoever else commits. Since nothing is written
outside of `IDs`, a subtree whose node is the empty one has no leaf, and an entry that
waits is in the cache, where `findVacantSubtree` looks too.

**The database's rows.** The walk is taken row by row, and a restart may come between any
two. `LoneUpdate` says of an update that nobody overlapped: all rows are those of a tree,
except that the couple it is at is not hashed yet; the new value has been handed up
that far. When the last row is written no couple is left out.

**The registry.** `filled` keeps, at each level, the left nodes that wait for their right
one (`Frontier`): exactly those at the 1 bits of the number of leaves. An append goes up
with the hash of what it has, takes the kept node where the bit is 1 and the zero hash
where it is 0, and so at each level has the node of the larger tree. The client's tree has
other leaves than the contract's, but `checkInclusion` has computed the contract's root
from the client's leaf and the nodes beside its path. Hashes being injective, whatever
leads to a root is in its tree (`PathDown`): the key asked for is on the chain, and so is
each key below those nodes as the client's tree has it (`LeavesBeside`).

**Node.** `BidsInv`: the node's best bids are all of `willingnessToBid`, and a slot that
was answered in time has a best bid of no less. Best bids only rise, and a bid that is
mined too late is for a slot its call is not counted for. `LoopInv` ties the number of
run loops to the state of the service and to the calls of `stop` that wait. `PackInv`
remembers where the running packer was started: in a slot of the node's, at a block that
was delivered, and of every boundary delivered since then that ends the node's turn, the
handler still waits. A packer that runs in a slot of others is then behind such a boundary.
The slots of the blocks up to now keep their proposers (`Settled`), since bids are
for later ones. The starts of slots stay before the boundaries behind them
(`NewsFirst`) unless `overtaken`.

**Client.** The invariant is `IInv == flaws = {} => Right`, and `Right` has one part for
each thing that can be out of step:

* the L1's batches are a chain, each from the states of the one before (`IsChain`), and the
  node has stored a prefix of them, its pool being exactly what the pushed deposits and
  the deposit batches in that prefix leave (`HasBatches`, `HasDeposits`, with `Waiting`);
* the packer is between two batches, with the sync point and the tree at the last one it
  stored, or has submitted the next one, or has stored it and not moved the sync point
  (`PackerInv`);
* at most one batch is being handled, the next one, by its strategy (`HandlersInv`);
* what lies before the sync point is stored, and an initial sync goes through the log
  without a gap: each batch of its chunk is stored, still to do, or being handled (`SyncInv`);
* what the listeners heard is stored, being handled, or the packer's own (`ListenInv`).

Each step is shown to keep the parts it touches; a handler of a deposit batch
finds its subtree in front of the pool because the pool is `Waiting` of what was pushed.
A node that has heard everything then stores the whole log.

### What the proofs found

* `StatusesAreTrue` once said that what failed is in no batch, and it was false. A transfer
  that failed can be pushed again: `rpc.ts:44` inserts it before `pending` refuses it. When
  it is accepted now, it is in a batch on the L1, and `submitted` throws, as nothing goes
  from failed to submitted (`transactions/memory.ts:124`); the packer ends there.
  *StatusInv* did not go through `Record`, and no transfer of the instance could fail first
  and be valid later. One of them can now (`MCOffered`: the fee is missing until something
  comes in), TLC finds the old property violated, and it says `Unrecorded` where it must.
* The amount of the simulator's transfers is rounded, and `round` throws beyond what it can
  write (`decimal.ts:93`): the types of `Packing` had no proof until this was a guard.
* `RegisteredIDsAreTrue` once spoke of every ID that a call returns, and it was false. Two
  calls of `registerBatch` with the same last key read the same index; the first is mined
  there, and the second is told that its last key is at that index, which it is, and
  returns the IDs of the whole batch for its own other keys (`accountTree.ts:57-69`). The
  instance had one batch of keys and could not show it. It has two now, and the property
  says which of the IDs can be relied on.
* The property `NodeFollowsL1` was once stated for a node that had heard every event, and
  took only batches as possibly `unheard`. It was not inductive, and it was false: a deposit
  that no listener hears in the node's own slot is missing when the next sync starts behind
  it, which takes four slots and was beyond the bounds of the run. A deposit nobody hears
  now counts as the flaw `unheard`, and the property no longer assumes anything was heard.
* Two `CASE`s, in `Node` and in `Client`, had guards that overlap, so that TLC took the
  first and a proof could assume neither; they are now written so that the order shows.

### Checked by TLC only

* `CalldataDecodes` and `BatchesAgree`: bytes that are written by recursive functions, cut
  and read again. What `SumTheorems` has would allow a proof, at the price of one induction
  for each function.
* `BatchesReplay`: it replays what the contract decodes of the transfers, so it
  rests on the encodings too; that the packer's own replay and the contract's agree is
  proved on transactions (`NodeAgrees`, `TreeAgrees`).
* Liveness under fairness, which is out of the prover's reach: `RollbackCompletes`,
  `PendingIsDecided`, `CatchesUp`.

## 5. Where code and documentation disagree

Two are shown by a run that violates one property, and quoted in `PROJECT.json`.

1. **`rollup_subtree_once`** (`BatchManager.sol:108`). `deposits[batchID]` outlives its
   batch. When the ID is used again and rolled back again, the subtree is enqueued a
   second time, against `Rollup.sol:344`.
2. **`client_restarted`** (`syncer.ts:54`). A sync that starts again asks for the block of
   the sync point, which was handled, and for everything since the last batch. Deposits
   are pooled twice, and the assertion of `deposit.ts:149` fails at the next deposit batch.

Others are behaviours of the models that no line of the repository contradicts; the
properties are stated so that they say exactly what is left:

* The deployer is the committer of the genesis batch, which is final at once, and can
  withdraw a stake nobody paid (`Rollup.sol:93`). The contract then holds one stake less
  than it owes: the alternative in `RollbackCompletes`.
* `withdrawStake` does not look at the marker (`BatchManager.sol:152`): while an interrupted
  roll back waits, the stake of a batch it is about to delete can be withdrawn.
* A batch that an interrupted roll back is about to delete counts as final for the vault
  (`Vault.sol:55`): `doomed` of `Withdrawals`.
* Where the replay reverts - a sender or receiver that does not exist, a used leaf, a
  mass migration without transactions - so does the dispute (`Transition.sol:127`), and
  such a commitment becomes final with any state root; a mass migration with any amount
  and withdraw root, too: the `Shortfall` of `Withdrawals`.
* Batches that are right can be rolled back. No dispute function reads the type of the
  batch, so a Transfer batch can be replayed as create2Transfers and the other way round,
  where a body of one kind is hardly a good one of the other
  (`Create2Transfer.sol:31` is a `BadCompression` of a single transfer). And where the
  number of commitments is a power of two, other than one, the first can be disputed as if
  the last were the one before it (`Rollup.sol:146`): `Exposed` of `Rollup`.
* The packer stores a batch and calls its transfers submitted when the transaction is
  sent (`transfer.ts:694-713`). When it is reverted they remain so, and the packer ends
  with an exception (`packer.ts:74`): `StoresWhatWasSent` of `Packing`.
* `maxSize` is documented as the maximum number of transactions allowed in the pool
  (`txPool.ts:35`). `push` tests the size before it awaits the sender's state and
  inserts after it (`txPool.ts:78-90`), so that pushes that overlap all pass the test, and
  the pool exceeds its limit by as many as there are, less one. The runs have such states; no
  property claims the limit.
* The flaws of `Client`, the deaths of the packer in `Packing`, and `misread` and
  `overtaken` of `Node`, in section 2.

## 6. Assumptions, and what is not modelled

* Hashes are injective. In the modules of the L1 a Merkle proof verifies exactly for
  what the tree holds; `Commitments` and `Trees` are where that is checked.
* A proof has as many nodes as its tree is deep: `MerkleTree.verify` compares the two no
  more than it compares the path with the size of the batch, and the depth is assumed,
  the path is not.
* What the first commitment of a full tree comes to, replayed from the last one, may be
  anything (`TransitionFails`): it depends on transactions that are abstracted.
* ERC20 tokens do what the standard says; there is one token in `DepositManager` and
  `Withdrawals`, and the token registry is a constant.
* A signature check is part of a body's outcome; pairing arithmetic is out of reach.
* Amounts and balances are far from 2^256: amounts are 12-bit mantissas times at most
  10^15, and a commitment has at most 32 transactions.
* Gas is the number of iterations of `rollback`, chosen freely; ether is transferred to
  accounts that accept it.
* The L1 itself does not reorganise.
* In `Client` the L1 rolls nothing back: the node has no code for it
  (`newBatch.ts:43`), and a replaced batch is simply one it has synced before.
* In `Packing` the transfers pushed have the form that POST /tx means to give them. As
  it stands the endpoint raises on every one: `deserialize` makes JavaScript numbers of
  the indices (`transfer.ts:200`), and the pool asks them for their `toNumber`
  (`txPool.ts:82`). The pool is filled by tests and by the simulator.
* `Storage` takes trees to be no deeper than the bit operators are wide (`MAX_DEPTH` is 32,
  `constants.ts:18`), the account trees to be less deep than that (31,
  `AccountTree.sol:11`) and deeper than a batch of keys, and batches not to be empty.
* `Packing`'s genesis states, tokens and transfers have their types, users have a state of
  each token, and there are finitely many tokens.
* There are finitely many accounts in `BurnAuction` and leaves in `Transition` (2^32 at
  most), and the contents of `Withdrawals` are sequences of commitments.
* `Node` takes slots to have more than three blocks, as `onSlotBoundary` does (slots have
  100, `BurnAuction.sol:10`), and they and the genesis block to be naturals.

Not modelled: pairing arithmetic and hashing to curves (`mcl.ts`, `BLS.sol`), which have
no state; the token registry, the proof of authority chooser, front-end helper
contracts, deployment scripts and contract bindings; queries of the RPC interface, which
read only; `rollbackTo`, `finalized` and `getByCommitmentRoot` of the storages, which
nobody calls; the syncers of public keys, which only fill the account tree. What
`getProposer` does for slots without a bid (a revert, so that nobody can submit) is not
composed with `Rollup`, whose `Coordinators` may be anybody.

## 7. What is left

1. `Rollup` composed with `BurnAuction` by `getProposer`: who may submit when, and that a
   slot without a bid, or slots 0 and 1, stay empty.
2. `TokenRegistry`, and several tokens in deposits and withdrawals.
3. Proofs: that decoding undoes encoding in `Codec`, and with it `BatchesReplay`.
4. The client beside an L1 that rolls back, once the node has code for it.
