-------------------------------- MODULE Codec --------------------------------
(***************************************************************************)
(* How amounts and transactions are written as bytes: ts/decimal.ts and    *)
(* ts/tx.ts on one side, contracts/libs/Tx.sol on the other.  A byte is a  *)
(* digit of base 2^ByteBits; lengths are those of the code.                *)
(***************************************************************************)
EXTENDS Powers, SequencesExt

CONSTANTS
  ByteBits,       \* 8
  ExponentBits,   \* 4
  MantissaBits    \* 12

ASSUME CodecAssumption ==
  /\ {ByteBits, ExponentBits, MantissaBits} \subseteq Nat \ {0}
  /\ ExponentBits + MantissaBits = 2 * ByteBits

(***************************************************************************)
(* Bytes: hexZeroPad(hexlify(n), length), which throws unless n fits.      *)
(***************************************************************************)
Bytes(n, length) == [i \in 1 .. length |-> (n \div Pow2[ByteBits * (length - i)]) % Pow2[ByteBits]]
NumberOf(bytes) == FoldLeft(LAMBDA n, byte : n * Pow2[ByteBits] + byte, 0, bytes)
FitsIn(n, length) == n < Pow2[ByteBits * length]

(***************************************************************************)
(* Float: a mantissa and a power of ten.                                   *)
(***************************************************************************)
mantissaMax == Pow2[MantissaBits] - 1
exponentMax == Pow2[ExponentBits] - 1
FloatLength == 2
StateIDLen == 4

\* compress takes out factors of ten, as many as there are and fit.
\* Mutant: one more than fits.
OneMore(n) ==
  IF n = 0 THEN 0
  ELSE CHOOSE e \in 0 .. exponentMax + 1 :
         /\ n % Pow10[e] = 0
         /\ e <= exponentMax => n % Pow10[e + 1] # 0
Exponent(n) ==
  IF n = 0 THEN 0
  ELSE CHOOSE e \in 0 .. exponentMax :
         /\ n % Pow10[e] = 0
         /\ e < exponentMax => n % Pow10[e + 1] # 0
CanCompress(n) == n \div Pow10[Exponent(n)] <= mantissaMax
compress(n) ==
  Bytes(Exponent(n) * Pow2[MantissaBits] + n \div Pow10[Exponent(n)], FloatLength)
decompress(bytes) ==
  LET n == NumberOf(bytes)
  IN  (n % Pow2[MantissaBits]) * Pow10[n \div Pow2[MantissaBits]]

\* round looks at exponents below the largest only.
Fits(n, e) == n \div Pow10[e] <= mantissaMax
CanRound(n) == Fits(n, exponentMax - 1)
round(n) ==
  LET e == CHOOSE e \in 0 .. exponentMax - 1 : Fits(n, e) /\ \A d \in 0 .. e - 1 : ~Fits(n, d)
  IN  (n \div Pow10[e]) * Pow10[e]

(***************************************************************************)
(* ERC20Value: what an L1 amount is on the L2, rounded down.               *)
(***************************************************************************)
l2Unit(l1Decimals) == IF l1Decimals >= 9 THEN Pow10[9] ELSE 1
l2Decimals(l1Decimals) == IF l1Decimals >= 9 THEN l1Decimals - 9 ELSE l1Decimals
fromL2Value(l1Decimals, n) == n * l2Unit(l1Decimals)
l2Value(l1Decimals, n) == n \div l2Unit(l1Decimals)

(***************************************************************************)
(* Transactions: the fields each kind writes and in which order.           *)
(***************************************************************************)
TxTransfer ==
  [type |-> 1, encode |-> <<"from", "to", "amount", "fee">>,
   message |-> <<"from", "to", "nonce", "amount", "fee">>]
TxMassMigration ==
  [type |-> 5, encode |-> <<"from", "amount", "fee">>,
   message |-> <<"from", "amount", "fee", "nonce", "spokeID">>]
TxCreate2Transfer ==
  [type |-> 3, encode |-> <<"from", "to", "toPubkeyID", "amount", "fee">>,
   message |-> <<"from", "toPubkey", "nonce", "amount", "fee">>]
TxClass(kind) ==
  CASE kind = "Transfer"        -> TxTransfer
    [] kind = "MassMigration"   -> TxMassMigration
    [] kind = "Create2Transfer" -> TxCreate2Transfer
FieldsOf(kind) == TxClass(kind).encode

\* What is signed; a create2Transfer names its receiver by the public key.
hashPubkey(pubkey) == <<"hash of", pubkey>>
message(kind, tx) ==
  <<TxClass(kind).type>> \o
    [i \in DOMAIN TxClass(kind).message |->
       LET field == TxClass(kind).message[i]
       IN  IF field = "toPubkey" THEN hashPubkey(tx.toPubkey) ELSE tx[field]]

IsAmount(field) == field \in {"amount", "fee"}
LengthOf(field) == IF IsAmount(field) THEN FloatLength ELSE StateIDLen

\* encode and TransferCompressedTx.serialize throw unless every field fits.
CanEncode(kind, tx) ==
  \A field \in ToSet(FieldsOf(kind)) :
    IF IsAmount(field) THEN CanCompress(tx[field]) ELSE FitsIn(tx[field], LengthOf(field))
encodeField(field, n) == IF IsAmount(field) THEN compress(n) ELSE Bytes(n, LengthOf(field))
encode(kind, tx) ==
  FlattenSeq([i \in DOMAIN FieldsOf(kind) |->
                encodeField(FieldsOf(kind)[i], tx[FieldsOf(kind)[i]])])
serialize(kind, txs) == FlattenSeq([i \in DOMAIN txs |-> encode(kind, txs[i])])

\* deserialize and decompressTxs of features/transfer.ts: the bytes of each
\* transaction, cut where its fields end.
txLen(kind) == FoldLeft(LAMBDA n, field : n + LengthOf(field), 0, FieldsOf(kind))
EndOf(kind, i) ==
  FoldLeft(LAMBDA n, field : n + LengthOf(field), 0, SubSeq(FieldsOf(kind), 1, i))
FieldOf(kind, bytes, i) ==
  LET field == FieldsOf(kind)[i]
      part  == SubSeq(bytes, EndOf(kind, i) - LengthOf(field) + 1, EndOf(kind, i))
  IN  IF IsAmount(field) THEN decompress(part) ELSE NumberOf(part)
deserialize(kind, bytes) ==
  [field \in ToSet(FieldsOf(kind)) |->
     FieldOf(kind, bytes, CHOOSE i \in DOMAIN FieldsOf(kind) : FieldsOf(kind)[i] = field)]
IsWhole(kind, bytes) == Len(bytes) % txLen(kind) = 0
decompressTxs(kind, bytes) ==
  [i \in 1 .. Len(bytes) \div txLen(kind) |->
     deserialize(kind, SubSeq(bytes, (i - 1) * txLen(kind) + 1, i * txLen(kind)))]

(***************************************************************************)
(* The contract reads a word that ends where the field ends and masks it.  *)
(***************************************************************************)
TX_LEN(kind) ==
  CASE kind = "Transfer" -> 12 [] kind = "Create2Transfer" -> 16 [] kind = "MassMigration" -> 8
Position(kind) ==
  CASE kind = "Transfer"        -> [from |-> 4, to |-> 8, amount |-> 10, fee |-> 12]
    [] kind = "Create2Transfer" -> [from |-> 4, to |-> 8, toPubkeyID |-> 12, amount |-> 14, fee |-> 16]
    [] kind = "MassMigration"   -> [from |-> 4, amount |-> 6, fee |-> 8]
hasExcessData(kind, txs) == Len(txs) % TX_LEN(kind) # 0
size(kind, txs) == Len(txs) \div TX_LEN(kind)

WordBefore(txs, end, length) == NumberOf(SubSeq(txs, end - length + 1, end))
decodeTx(kind, txs, index) ==
  [field \in DOMAIN Position(kind) |->
     LET end  == index * TX_LEN(kind) + Position(kind)[field]
         word == WordBefore(txs, end, LengthOf(field))
     IN  IF IsAmount(field) THEN (word % Pow2[MantissaBits]) * Pow10[word \div Pow2[MantissaBits]]
         ELSE word]

\* encodeDecimal: a bounded loop of its own.
encodeDecimal(n) ==
  LET strip[i \in 0 .. exponentMax] ==
        IF i = 0 THEN [x |-> n, exponent |-> 0]
        ELSE LET s == strip[i - 1]
             IN  IF s.x # 0 /\ s.x % 10 = 0 /\ s.exponent = i - 1
                 THEN [x |-> s.x \div 10, exponent |-> i] ELSE s
  IN  strip[exponentMax].exponent * Pow2[MantissaBits] + strip[exponentMax].x

(***************************************************************************)
(* transferMessageOf and its siblings: the message a signature is checked  *)
(* against, from the decoded transaction and what the proof says of it.    *)
(***************************************************************************)
messageOf(kind, tx, nonce, pubkeyHash, spokeID) ==
  CASE kind = "Transfer"        -> <<1, tx.from, tx.to, nonce, tx.amount, tx.fee>>
    [] kind = "Create2Transfer" -> <<3, tx.from, pubkeyHash, nonce, tx.amount, tx.fee>>
    [] kind = "MassMigration"   -> <<5, tx.from, tx.amount, tx.fee, nonce, spokeID>>

(***************************************************************************)
(* What the encodings are for, without their algorithms.                   *)
(***************************************************************************)
Representable == {m * Pow10[e] : m \in 0 .. mantissaMax, e \in 0 .. exponentMax}
=============================================================================
