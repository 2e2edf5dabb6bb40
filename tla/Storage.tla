------------------------------ MODULE Storage -------------------------------
(* The parts that keep Merkle trees: the client's two storage engines, and *)
(* its account tree with the contract's.  They share nothing, and one of   *)
(* them runs in each behaviour, the others stay as they are.               *)
EXTENDS MemoryEngine, DatabaseEngine, AccountRegistry

VARIABLE part

storageVars == <<part, memoryVars, databaseVars, accountVars>>

StorageInit ==
  /\ part \in {"memory", "database", "accounts"}
  /\ MemoryInit /\ DatabaseInit /\ AccountInit

StorageNext ==
  /\ \/ part = "memory" /\ MemoryNext /\ UNCHANGED <<databaseVars, accountVars>>
     \/ part = "database" /\ DatabaseNext /\ UNCHANGED <<memoryVars, accountVars>>
     \/ part = "accounts" /\ AccountNext /\ UNCHANGED <<memoryVars, databaseVars>>
  /\ UNCHANGED part

StorageSpec == StorageInit /\ [][StorageNext]_storageVars

\* The types of the part that runs.
StorageTypeOK ==
  /\ part = "memory" => MemoryTypeOK
  /\ part = "database" => DatabaseTypeOK
  /\ part = "accounts" => AccountTypeOK

(* The trees are Merkle trees of what they are trees of, and their         *)
(* witnesses prove it: the memory engine's whatever commits interleave     *)
(* (memoryTree.ts:174), the database's after updates that came one at a    *)
(* time (dbTree.ts:183), the contract's as it appends (AccountTree.sol:47).*)
TreesHold ==
  /\ part = "memory" => MemoryTreeHolds
  /\ part = "database" => RowsAreATree
  /\ part = "accounts" => AppendedIsHashed
=============================================================================
