----------------------------- MODULE BatchChain -----------------------------
(***************************************************************************)
(* What the contracts and clients around the rollup rely on: a chain of    *)
(* batches, each final some blocks after it was submitted, of which a      *)
(* dispute cuts off a tail -- perhaps in several steps, during which       *)
(* nothing is submitted.  Why a batch is disputed, stakes and deposits are *)
(* not visible here; module Rollup is shown to implement this.             *)
(***************************************************************************)
EXTENDS Integers, Sequences

CONSTANTS
  Contents,           \* what batches hold
  BlocksToFinalise

VARIABLES
  block,    \* block.number
  chain,    \* the batches after genesis: batch i is chain[i]
  marker    \* the first batch that a roll back under way deletes, or 0

chainVars == <<block, chain, marker>>

Final(i)    == block >= chain[i].finaliseOn
Standing(i) == marker = 0 \/ i < marker

ChainInit ==
  /\ block = 0
  /\ chain = <<>>
  /\ marker = 0

Submit(content) ==
  /\ marker = 0
  /\ chain' = Append(chain, [content |-> content,
                             finaliseOn |-> block + BlocksToFinalise])
  /\ UNCHANGED <<block, marker>>

\* The last n batches go; the roll back is over when batch `from' has gone.
RollBack(from, n) ==
  /\ n \in 0 .. Len(chain) - from + 1
  /\ chain' = SubSeq(chain, 1, Len(chain) - n)
  /\ marker' = IF n = Len(chain) - from + 1 THEN 0 ELSE from
  /\ UNCHANGED block

Dispute(from, n) ==
  /\ ~Final(from) /\ Standing(from)
  /\ RollBack(from, n)

KeepRollingBack(n) ==
  /\ marker > 0
  /\ RollBack(marker, n)

Tick ==
  /\ block' = block + 1
  /\ UNCHANGED <<chain, marker>>

ChainNext ==
  \/ \E content \in Contents : Submit(content)
  \/ \E from \in DOMAIN chain, n \in 0 .. Len(chain) : Dispute(from, n)
  \/ \E n \in 0 .. Len(chain) : KeepRollingBack(n)
  \/ Tick

ChainSpec == ChainInit /\ [][ChainNext]_chainVars
=============================================================================
