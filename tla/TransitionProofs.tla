--------------------------- MODULE TransitionProofs ---------------------------
(***************************************************************************)
(* What a transaction does to the balances of a token, to the nonces and   *)
(* to the owners of leaves; by induction along the replay, what the        *)
(* transactions of a commitment do; and from that the types, the           *)
(* conservation of tokens, the nonces that signatures must be for, and     *)
(* that the node's replay, the client's tree and the contract agree.       *)
(***************************************************************************)
EXTENDS StateTree, SumTheorems

StateMaps == UNION {[ids -> State] : ids \in SUBSET StateIDs}

NonceOf(someStates, id) ==
  IF id \in DOMAIN someStates THEN someStates[id].nonce ELSE 0
BalanceOf(someStates, id) ==
  IF id \in DOMAIN someStates THEN someStates[id].balance ELSE 0

\* Leaves that are in use stay with their owner and token.
Kept(before, after) ==
  \A id \in DOMAIN before :
    /\ id \in DOMAIN after
    /\ after[id].pubkeyID = before[id].pubkeyID
    /\ after[id].tokenID = before[id].tokenID

(***************************************************************************)
(* One leaf.                                                               *)
(***************************************************************************)
LEMMA StateMapType ==
  ASSUME NEW s
  PROVE  s \in StateMaps <=> DOMAIN s \subseteq StateIDs /\ s \in [DOMAIN s -> State]
BY DEF StateMaps

LEMMA LeafType ==
  ASSUME NEW s \in StateMaps, NEW id \in DOMAIN s
  PROVE  /\ id \in StateIDs /\ s[id] \in State
         /\ s[id].tokenID \in TokenIDs /\ s[id].balance \in Nat /\ s[id].nonce \in Nat
<1>1. id \in StateIDs /\ s[id] \in State
  BY StateMapType
<1> QED
  BY <1>1 DEF State

LEMMA KeptTwice ==
  ASSUME NEW a, NEW b, NEW c, Kept(a, b), Kept(b, c)
  PROVE  Kept(a, c)
BY DEF Kept

LEMMA BalancesType ==
  ASSUME NEW s \in StateMaps, NEW tokenID
  PROVE  Balances(s, tokenID) \in Int
<1> DEFINE S == {id \in DOMAIN s : s[id].tokenID = tokenID}
           f == [id \in DOMAIN s |-> s[id].balance]
<1>1. IsFiniteSet(S)
  <2>1. S \subseteq StateIDs
    BY LeafType
  <2> QED
    BY <2>1, TransitionAssumption, FS_Subset
<1>2. \A id \in S : f[id] \in Int
  BY LeafType
<1>3. Balances(s, tokenID) = SumFunctionOnSet(f, S)
  BY DEF Balances
<1> HIDE DEF S, f
<1>4. Summable(f, S)
  BY <1>1, <1>2 DEF Summable
<1> QED
  BY <1>3, <1>4, SumInt

\* The balances change by what one leaf gains or loses.
LEMMA LeafChanges ==
  ASSUME NEW before \in StateMaps, NEW after \in StateMaps, NEW id \in StateIDs,
         DOMAIN after = DOMAIN before \cup {id},
         \A j \in DOMAIN before \ {id} : after[j] = before[j],
         id \in DOMAIN before => after[id].tokenID = before[id].tokenID,
         NEW tokenID
  PROVE  Balances(after, tokenID)
           = Balances(before, tokenID)
               + (IF after[id].tokenID = tokenID
                  THEN after[id].balance - BalanceOf(before, id) ELSE 0)
<1> DEFINE S == {j \in DOMAIN before : before[j].tokenID = tokenID}
           R == {j \in DOMAIN after : after[j].tokenID = tokenID}
           f == [j \in DOMAIN before |-> before[j].balance]
           g == [j \in DOMAIN after |-> after[j].balance]
<1>1. IsFiniteSet(S)
  <2>1. S \subseteq StateIDs
    BY LeafType
  <2> QED
    BY <2>1, TransitionAssumption, FS_Subset
<1>2. \A j \in S : f[j] \in Int
  BY LeafType
<1>3. /\ Balances(before, tokenID) = SumFunctionOnSet(f, S)
      /\ Balances(after, tokenID) = SumFunctionOnSet(g, R)
  BY DEF Balances
<1>4. R \ {id} = S \ {id}
  OBVIOUS
<1>5. \A j \in S \ {id} : g[j] = f[j]
  OBVIOUS
<1>6. id \in R => g[id] \in Int
  BY LeafType
<1>7. /\ id \in R <=> after[id].tokenID = tokenID
      /\ id \in S => id \in R
      /\ id \in R => g[id] = after[id].balance /\ g[id] \in Int
      /\ id \in S => f[id] = before[id].balance /\ id \in DOMAIN before /\ f[id] \in Int
      /\ id \in R /\ id \in DOMAIN before => id \in S
  BY LeafType
<1> HIDE DEF S, R, f, g
<1>8. Summable(f, S)
  BY <1>1, <1>2 DEF Summable
<1>9. SumFunctionOnSet(g, R)
        = SumFunctionOnSet(f, S) - (IF id \in S THEN f[id] ELSE 0)
            + (IF id \in R THEN g[id] ELSE 0)
  BY <1>4, <1>5, <1>6, <1>8, SumReplace
<1>10. SumFunctionOnSet(f, S) \in Int
  BY <1>8, SumInt
<1> QED
  BY <1>3, <1>7, <1>9, <1>10 DEF BalanceOf

\* What a step that changes one leaf does to the whole: the balance changes by
\* gain, the nonce by spent, and an empty leaf may be filled.
Changes(before, after, id, tokenID, gain, spent) ==
  /\ after \in StateMaps
  /\ Kept(before, after)
  /\ DOMAIN after = DOMAIN before \cup {id}
  /\ tokenID \in TokenIDs
  /\ \A t \in TokenIDs :
       Balances(after, t) = Balances(before, t) + (IF t = tokenID THEN gain ELSE 0)
  /\ \A j \in StateIDs :
       NonceOf(after, j) = NonceOf(before, j) + (IF j = id THEN spent ELSE 0)

LEMMA ReplaceLeaf ==
  ASSUME NEW before \in StateMaps, NEW id \in DOMAIN before, NEW new \in State,
         new.pubkeyID = before[id].pubkeyID, new.tokenID = before[id].tokenID
  PROVE  Changes(before, [before EXCEPT ![id] = new], id, before[id].tokenID,
                 new.balance - before[id].balance, new.nonce - before[id].nonce)
<1> DEFINE after == [before EXCEPT ![id] = new]
<1>1. /\ DOMAIN after = DOMAIN before /\ after[id] = new
      /\ \A j \in DOMAIN before \ {id} : after[j] = before[j]
  OBVIOUS
<1>2. DOMAIN after = DOMAIN before \cup {id} /\ id \in StateIDs
  BY <1>1, LeafType
<1>3. after \in StateMaps
  BY StateMapType
<1>4. before[id].tokenID \in TokenIDs
  BY LeafType
<1> HIDE DEF after
<1>5. \A t \in TokenIDs :
        Balances(after, t) = Balances(before, t)
          + (IF t = before[id].tokenID THEN new.balance - before[id].balance ELSE 0)
  <2> TAKE t \in TokenIDs
  <2>1. Balances(after, t) = Balances(before, t)
          + (IF after[id].tokenID = t THEN after[id].balance - BalanceOf(before, id) ELSE 0)
    BY <1>1, <1>2, <1>3, LeafChanges
  <2> QED
    BY <1>1, <2>1 DEF BalanceOf
<1>6. Kept(before, after)
  BY <1>1 DEF Kept
<1>7. \A j \in StateIDs :
        NonceOf(after, j) = NonceOf(before, j)
          + (IF j = id THEN new.nonce - before[id].nonce ELSE 0)
  <2> TAKE j \in StateIDs
  <2>1. new.nonce \in Nat /\ before[id].nonce \in Nat
    BY LeafType DEF State
  <2>2. NonceOf(before, j) \in Nat
    BY LeafType DEF NonceOf
  <2>3. CASE j = id
    BY <1>1, <2>1, <2>3 DEF NonceOf
  <2>4. CASE j # id
    BY <1>1, <2>2, <2>4 DEF NonceOf
  <2> QED
    BY <2>3, <2>4
<1> QED
  BY <1>2, <1>3, <1>4, <1>5, <1>6, <1>7 DEF Changes, after

LEMMA FillLeaf ==
  ASSUME NEW before \in StateMaps, NEW id \in StateIDs \ DOMAIN before, NEW new \in State
  PROVE  Changes(before, [j \in DOMAIN before \cup {id} |-> IF j = id THEN new ELSE before[j]],
                 id, new.tokenID, new.balance, new.nonce)
<1> DEFINE after == [j \in DOMAIN before \cup {id} |-> IF j = id THEN new ELSE before[j]]
<1>1. /\ DOMAIN after = DOMAIN before \cup {id} /\ after[id] = new
      /\ \A j \in DOMAIN before \ {id} : after[j] = before[j]
      /\ \A j \in DOMAIN before : after[j] = before[j]
  OBVIOUS
<1>2. after \in StateMaps
  <2>1. DOMAIN after \subseteq StateIDs
    BY StateMapType
  <2>2. after \in [DOMAIN after -> State]
    BY LeafType
  <2> QED
    BY <2>1, <2>2, StateMapType
<1>3. new.tokenID \in TokenIDs /\ new.balance \in Nat /\ new.nonce \in Nat
  BY DEF State
<1> HIDE DEF after
<1>4. \A t \in TokenIDs :
        Balances(after, t) = Balances(before, t)
          + (IF t = new.tokenID THEN new.balance ELSE 0)
  <2> TAKE t \in TokenIDs
  <2>1. Balances(after, t) = Balances(before, t)
          + (IF after[id].tokenID = t THEN after[id].balance - BalanceOf(before, id) ELSE 0)
    BY <1>1, <1>2, LeafChanges
  <2>2. BalanceOf(before, id) = 0
    BY DEF BalanceOf
  <2> QED
    BY <1>1, <1>3, <2>1, <2>2
<1>5. Kept(before, after)
  BY <1>1 DEF Kept
<1>6. \A j \in StateIDs :
        NonceOf(after, j) = NonceOf(before, j) + (IF j = id THEN new.nonce ELSE 0)
  <2> TAKE j \in StateIDs
  <2>1. NonceOf(before, j) \in Nat
    BY LeafType DEF NonceOf
  <2>2. CASE j = id
    BY <1>1, <1>3, <2>2 DEF NonceOf
  <2>3. CASE j # id
    BY <1>1, <2>1, <2>3 DEF NonceOf
  <2> QED
    BY <2>2, <2>3
<1> QED
  BY <1>1, <1>2, <1>3, <1>4, <1>5, <1>6 DEF Changes, after

(***************************************************************************)
(* One transaction.                                                        *)
(***************************************************************************)
LEMMA SenderPays ==
  ASSUME NEW before \in StateMaps, NEW id, NEW tokenID, NEW amount \in Nat, NEW fee \in Nat,
         id \in DOMAIN before, before[id].balance >= amount + fee,
         before[id].tokenID = tokenID
  PROVE  Changes(before, [before EXCEPT ![id] = ApplySender(@, amount, fee)],
                 id, tokenID, -(amount + fee), 1)
<1> DEFINE old == before[id]
           new == ApplySender(old, amount, fee)
<1>1. old \in State /\ old.balance >= amount + fee
  BY LeafType
<1>2. /\ new \in State /\ new.pubkeyID = old.pubkeyID /\ new.tokenID = old.tokenID
      /\ new.balance - old.balance = -(amount + fee) /\ new.nonce - old.nonce = 1
  <2> HIDE DEF old
  <2>1. old.balance \in Nat /\ old.nonce \in Nat
    BY <1>1 DEF State
  <2>2. /\ new.balance = old.balance - (amount + fee) /\ new.nonce = old.nonce + 1
        /\ new.pubkeyID = old.pubkeyID /\ new.tokenID = old.tokenID
    BY <1>1 DEF State, ApplySender
  <2>3. new \in State
    <3> DEFINE left == old.balance - (amount + fee)
               next == old.nonce + 1
    <3>1. left \in Nat /\ next \in Nat
      BY <1>1, <2>1
    <3>2. new = [old EXCEPT !.balance = left, !.nonce = next]
      BY DEF ApplySender
    <3> HIDE DEF left, next, new
    <3> QED
      BY <1>1, <3>1, <3>2 DEF State
  <2> QED
    BY <2>1, <2>2, <2>3
<1> HIDE DEF new
<1>3. Changes(before, [before EXCEPT ![id] = new], id, before[id].tokenID,
              new.balance - before[id].balance, new.nonce - before[id].nonce)
  BY <1>2, ReplaceLeaf
<1>4. [before EXCEPT ![id] = ApplySender(@, amount, fee)] = [before EXCEPT ![id] = new]
  BY DEF new
<1> QED
  BY <1>2, <1>3, <1>4

LEMMA ReceiverGets ==
  ASSUME NEW before \in StateMaps, NEW id, NEW tokenID, NEW amount \in Nat,
         id \in DOMAIN before, before[id].tokenID = tokenID
  PROVE  Changes(before, [before EXCEPT ![id] = ApplyReceiver(@, amount)],
                 id, tokenID, amount, 0)
<1> DEFINE old == before[id]
           new == ApplyReceiver(old, amount)
<1>1. old \in State
  BY LeafType
<1>2. /\ new \in State /\ new.pubkeyID = old.pubkeyID /\ new.tokenID = old.tokenID
      /\ new.balance - old.balance = amount /\ new.nonce - old.nonce = 0
  BY <1>1 DEF State, ApplyReceiver
<1> HIDE DEF new
<1>3. Changes(before, [before EXCEPT ![id] = new], id, before[id].tokenID,
              new.balance - before[id].balance, new.nonce - before[id].nonce)
  BY <1>2, ReplaceLeaf
<1>4. [before EXCEPT ![id] = ApplyReceiver(@, amount)] = [before EXCEPT ![id] = new]
  BY DEF new
<1> QED
  BY <1>2, <1>3, <1>4

LEMMA SenderOk ==
  ASSUME NEW before \in StateMaps, NEW id, NEW tokenID, NEW amount \in Nat, NEW fee \in Nat,
         NEW outcome, outcome = processSender(before, id, tokenID, amount, fee),
         outcome.result = "Ok"
  PROVE  /\ id \in DOMAIN before /\ amount # 0 /\ before[id].tokenID = tokenID
         /\ before[id].balance >= amount + fee
         /\ outcome.states = [before EXCEPT ![id] = ApplySender(@, amount, fee)]
         /\ Changes(before, outcome.states, id, tokenID, -(amount + fee), 1)
<1>1. id \in DOMAIN before
  BY DEF processSender, Outcome
<1>2. before[id].balance \in Nat
  BY <1>1, LeafType
<1>3. /\ amount # 0 /\ before[id].tokenID = tokenID /\ before[id].balance >= amount + fee
      /\ outcome.states = [before EXCEPT ![id] = ApplySender(@, amount, fee)]
  BY <1>1, <1>2 DEF processSender, Then, Outcome, validateSender
<1> QED
  BY <1>1, <1>3, SenderPays

LEMMA ReceiverOk ==
  ASSUME NEW before \in StateMaps, NEW id, NEW tokenID, NEW amount \in Nat,
         NEW outcome, outcome = processReceiver(before, id, tokenID, amount),
         outcome.result = "Ok"
  PROVE  /\ id \in DOMAIN before /\ before[id].tokenID = tokenID
         /\ outcome.states = [before EXCEPT ![id] = ApplyReceiver(@, amount)]
         /\ Changes(before, outcome.states, id, tokenID, amount, 0)
<1>1. id \in DOMAIN before
  BY DEF processReceiver, Outcome
<1>2. /\ before[id].tokenID = tokenID
      /\ outcome.states = [before EXCEPT ![id] = ApplyReceiver(@, amount)]
  BY <1>1 DEF processReceiver, Then, Outcome, validateReceiver
<1> QED
  BY <1>1, <1>2, ReceiverGets

LEMMA CreateOk ==
  ASSUME NEW before \in StateMaps, NEW tx \in Tx, NEW tokenID \in TokenIDs,
         NEW outcome, outcome = processCreate2TransferReceiver(before, tx, tokenID),
         outcome.result = "Ok"
  PROVE  Changes(before, outcome.states, tx.to, tokenID, tx.amount, 0)
<1> DEFINE new == createState(tx.toPubkeyID, tokenID, tx.amount)
<1>1. /\ new \in State /\ new.tokenID = tokenID /\ new.balance = tx.amount /\ new.nonce = 0
  BY DEF createState, State, Tx
<1>2. tx.to \in StateIDs \ DOMAIN before
  BY DEF processCreate2TransferReceiver, EmptyLeaf, Outcome
<1>3. outcome.states = [j \in DOMAIN before \cup {tx.to} |->
                          IF j = tx.to THEN new ELSE before[j]]
  BY <1>2 DEF processCreate2TransferReceiver, EmptyLeaf, Outcome
<1> HIDE DEF new
<1> QED
  BY <1>1, <1>2, <1>3, FillLeaf

Kinds == {"Transfer", "Create2Transfer", "MassMigration"}

\* What leaves the balances of a token with a transaction.
Taken(kind, tx) == tx.fee + (IF kind = "MassMigration" THEN tx.amount ELSE 0)

TxChanges(before, after, from, tokenID, taken) ==
  /\ after \in StateMaps
  /\ Kept(before, after)
  /\ from \in DOMAIN before
  /\ tokenID \in TokenIDs
  /\ \A t \in TokenIDs :
       Balances(after, t) = Balances(before, t) - (IF t = tokenID THEN taken ELSE 0)
  /\ \A j \in StateIDs :
       NonceOf(after, j) = NonceOf(before, j) + (IF j = from THEN 1 ELSE 0)

LEMMA PayThenGet ==
  ASSUME NEW before \in StateMaps, NEW between, NEW after, NEW tokenID,
         NEW amount \in Nat, NEW fee \in Nat, NEW from \in DOMAIN before, NEW to,
         Changes(before, between, from, tokenID, -(amount + fee), 1),
         Changes(between, after, to, tokenID, amount, 0)
  PROVE  TxChanges(before, after, from, tokenID, fee)
<1>1. between \in StateMaps /\ after \in StateMaps /\ tokenID \in TokenIDs /\ Kept(before, after)
  BY KeptTwice DEF Changes
<1>2. ASSUME NEW t \in TokenIDs
      PROVE  Balances(after, t) = Balances(before, t) - (IF t = tokenID THEN fee ELSE 0)
  <2>1. Balances(before, t) \in Int
    BY BalancesType
  <2>2. Balances(between, t) = Balances(before, t) + (IF t = tokenID THEN -(amount + fee) ELSE 0)
    BY DEF Changes
  <2>3. Balances(after, t) = Balances(between, t) + (IF t = tokenID THEN amount ELSE 0)
    BY DEF Changes
  <2> QED
    BY <2>1, <2>2, <2>3
<1>3. ASSUME NEW j \in StateIDs
      PROVE  NonceOf(after, j) = NonceOf(before, j) + (IF j = from THEN 1 ELSE 0)
  <2>1. NonceOf(before, j) \in Nat
    BY LeafType DEF NonceOf
  <2>2. NonceOf(between, j) = NonceOf(before, j) + (IF j = from THEN 1 ELSE 0)
    BY DEF Changes
  <2>3. NonceOf(after, j) = NonceOf(between, j) + (IF j = to THEN 0 ELSE 0)
    BY DEF Changes
  <2> QED
    BY <2>1, <2>2, <2>3
<1> QED
  BY <1>1, <1>2, <1>3 DEF TxChanges

\* A transaction that replays takes its fee, and a mass migration its amount,
\* out of the balances of its token, and spends one nonce, of its sender.
LEMMA TxOk ==
  ASSUME NEW kind \in Kinds, NEW before \in StateMaps, NEW tx \in Tx, NEW tokenID,
         NEW outcome, outcome = processTx(kind, before, tx, tokenID),
         outcome.result = "Ok"
  PROVE  TxChanges(before, outcome.states, tx.from, tokenID, Taken(kind, tx))
<1> DEFINE sender == processSender(before, tx.from, tokenID, tx.amount, tx.fee)
           between == sender.states
<1>1. tx.amount \in Nat /\ tx.fee \in Nat
  BY DEF Tx
<1>2. sender.result = "Ok"
  BY DEF processTx, Then
<1>3. /\ kind = "Transfer" =>
           outcome = processReceiver(between, tx.to, tokenID, tx.amount)
      /\ kind = "Create2Transfer" =>
           outcome = processCreate2TransferReceiver(between, tx, tokenID)
      /\ kind = "MassMigration" => outcome.states = between
  BY <1>2 DEF processTx, Then, Outcome, Kinds
<1>4. /\ tx.from \in DOMAIN before
      /\ Changes(before, between, tx.from, tokenID, -(tx.amount + tx.fee), 1)
  <2>1. sender = processSender(before, tx.from, tokenID, tx.amount, tx.fee)
    OBVIOUS
  <2> HIDE DEF sender
  <2>2. tx.from \in DOMAIN before
    BY <1>2, <2>1 DEF processSender, Outcome
  <2>3. Changes(before, sender.states, tx.from, tokenID, -(tx.amount + tx.fee), 1)
    BY <1>1, <1>2, <2>1, SenderOk
  <2> QED
    BY <2>2, <2>3
<1> HIDE DEF sender, between
<1>5. between \in StateMaps /\ tokenID \in TokenIDs
  BY <1>4 DEF Changes
<1>6. CASE kind = "MassMigration"
  <2>1. Taken(kind, tx) = tx.amount + tx.fee
    BY <1>1, <1>6 DEF Taken
  <2>2. ASSUME NEW t \in TokenIDs
        PROVE  Balances(between, t)
                 = Balances(before, t) - (IF t = tokenID THEN tx.amount + tx.fee ELSE 0)
    BY <1>1, <1>4, BalancesType DEF Changes
  <2> QED
    BY <1>3, <1>4, <1>6, <2>1, <2>2 DEF Changes, TxChanges
<1>7. CASE kind = "Transfer"
  <2>1. Changes(between, outcome.states, tx.to, tokenID, tx.amount, 0)
    BY <1>1, <1>3, <1>5, <1>7, ReceiverOk
  <2>2. TxChanges(before, outcome.states, tx.from, tokenID, tx.fee)
    BY <1>1, <1>4, <2>1, PayThenGet
  <2> QED
    BY <1>1, <1>7, <2>2 DEF Taken
<1>8. CASE kind = "Create2Transfer"
  <2>1. Changes(between, outcome.states, tx.to, tokenID, tx.amount, 0)
    BY <1>3, <1>5, <1>8, CreateOk
  <2>2. TxChanges(before, outcome.states, tx.from, tokenID, tx.fee)
    BY <1>1, <1>4, <2>1, PayThenGet
  <2> QED
    BY <1>1, <1>8, <2>2 DEF Taken
<1> QED
  BY <1>6, <1>7, <1>8 DEF Kinds

(***************************************************************************)
(* The transactions of a commitment.                                       *)
(***************************************************************************)
Results == {"Ok", "Revert", "InvalidTokenAmount", "NotEnoughTokenBalance",
            "BadFromTokenID", "BadToTokenID", "Thrown"}
Outcomes == [result : Results, states : StateMaps]

LEMMA OutcomeType ==
  ASSUME NEW result \in Results, NEW s \in StateMaps
  PROVE  /\ Outcome(result, s) \in Outcomes
         /\ Outcome(result, s).result = result /\ Outcome(result, s).states = s
BY DEF Outcome, Outcomes

LEMMA SenderType ==
  ASSUME NEW before \in StateMaps, NEW id, NEW tokenID, NEW amount \in Nat, NEW fee \in Nat
  PROVE  processSender(before, id, tokenID, amount, fee) \in Outcomes
<1>1. PICK outcome : outcome = processSender(before, id, tokenID, amount, fee)
  OBVIOUS
<1>2. CASE outcome.result = "Ok"
  <2>1. outcome.states \in StateMaps
    BY <1>1, <1>2, SenderOk DEF Changes
  <2>2. outcome = Outcome("Ok", outcome.states)
    BY <1>1, <1>2 DEF processSender, Then, Outcome
  <2> QED
    BY <1>1, <2>1, <2>2, OutcomeType DEF Results
<1>3. CASE outcome.result # "Ok"
  <2>1. \E result \in Results : outcome = Outcome(result, before)
    BY <1>1, <1>3 DEF processSender, Then, Outcome, validateSender, Results
  <2> QED
    BY <1>1, <2>1, OutcomeType
<1> QED
  BY <1>2, <1>3

LEMMA ReceiverType ==
  ASSUME NEW before \in StateMaps, NEW id, NEW tokenID, NEW amount \in Nat
  PROVE  processReceiver(before, id, tokenID, amount) \in Outcomes
<1>1. PICK outcome : outcome = processReceiver(before, id, tokenID, amount)
  OBVIOUS
<1>2. CASE outcome.result = "Ok"
  <2>1. outcome.states \in StateMaps
    BY <1>1, <1>2, ReceiverOk DEF Changes
  <2>2. outcome = Outcome("Ok", outcome.states)
    BY <1>1, <1>2 DEF processReceiver, Then, Outcome
  <2> QED
    BY <1>1, <2>1, <2>2, OutcomeType DEF Results
<1>3. CASE outcome.result # "Ok"
  <2>1. \E result \in Results : outcome = Outcome(result, before)
    BY <1>1, <1>3 DEF processReceiver, Then, Outcome, validateReceiver, Results
  <2> QED
    BY <1>1, <2>1, OutcomeType
<1> QED
  BY <1>2, <1>3

LEMMA CreateType ==
  ASSUME NEW before \in StateMaps, NEW tx \in Tx, NEW tokenID \in TokenIDs
  PROVE  processCreate2TransferReceiver(before, tx, tokenID) \in Outcomes
<1>1. PICK outcome : outcome = processCreate2TransferReceiver(before, tx, tokenID)
  OBVIOUS
<1>2. CASE outcome.result = "Ok"
  <2>1. outcome.states \in StateMaps
    BY <1>1, <1>2, CreateOk DEF Changes
  <2>2. outcome = Outcome("Ok", outcome.states)
    BY <1>1, <1>2 DEF processCreate2TransferReceiver, Outcome
  <2> QED
    BY <1>1, <2>1, <2>2, OutcomeType DEF Results
<1>3. CASE outcome.result # "Ok"
  <2>1. outcome = Outcome("Revert", before)
    BY <1>1, <1>3 DEF processCreate2TransferReceiver, Outcome
  <2> QED
    BY <1>1, <2>1, OutcomeType DEF Results
<1> QED
  BY <1>2, <1>3

LEMMA TxType ==
  ASSUME NEW kind \in Kinds, NEW before \in StateMaps, NEW tx \in Tx, NEW tokenID
  PROVE  processTx(kind, before, tx, tokenID) \in Outcomes
<1>1. tx.amount \in Nat /\ tx.fee \in Nat
  BY DEF Tx
<1>2. PICK sender : sender = processSender(before, tx.from, tokenID, tx.amount, tx.fee)
  OBVIOUS
<1>3. sender \in Outcomes
  BY <1>1, <1>2, SenderType
<1>4. CASE sender.result # "Ok"
  BY <1>2, <1>3, <1>4 DEF processTx, Then
<1>5. CASE sender.result = "Ok"
  <2>1. sender.states \in StateMaps
    BY <1>3 DEF Outcomes
  <2>2. tokenID \in TokenIDs
    <3>1. Changes(before, sender.states, tx.from, tokenID, -(tx.amount + tx.fee), 1)
      BY <1>1, <1>2, <1>5, SenderOk
    <3> QED
      BY <3>1 DEF Changes
  <2>3. processTx(kind, before, tx, tokenID) \in
          {processReceiver(sender.states, tx.to, tokenID, tx.amount),
           processCreate2TransferReceiver(sender.states, tx, tokenID),
           Outcome("Ok", sender.states)}
    BY <1>2, <1>5 DEF processTx, Then, Kinds
  <2>4. Outcome("Ok", sender.states) \in Outcomes
    BY <2>1, OutcomeType DEF Results
  <2>5. processReceiver(sender.states, tx.to, tokenID, tx.amount) \in Outcomes
    BY <1>1, <2>1, ReceiverType
  <2>6. processCreate2TransferReceiver(sender.states, tx, tokenID) \in Outcomes
    BY <2>1, <2>2, CreateType
  <2> QED
    BY <2>3, <2>4, <2>5, <2>6
<1> QED
  BY <1>4, <1>5

IsReplay(run, kind, before, n, txs, tokenID) ==
  /\ run[0] = Outcome("Ok", before)
  /\ \A k \in 1 .. n :
       run[k] = IF run[k - 1].result = "Ok"
                THEN processTx(kind, run[k - 1].states, txs[k], tokenID)
                ELSE run[k - 1]

\* The replay of a commitment is the last of the outcomes after each transaction.
LEMMA ReplayRuns ==
  ASSUME NEW kind \in Kinds, NEW before \in StateMaps, NEW tokenID, NEW n \in Nat,
         NEW txs \in [1 .. n -> Tx]
  PROVE  \E run : /\ IsReplay(run, kind, before, n, txs, tokenID)
                  /\ Replay(kind, before, txs, tokenID) = run[n]
<1> DEFINE S == 1 .. n
           replays(iter) == iter = [s \in SUBSET S |->
             IF s = {} THEN Outcome("Ok", before)
             ELSE IF iter[s \ {Max(s)}].result = "Ok"
                  THEN processTx(kind, iter[s \ {Max(s)}].states, txs[Max(s)], tokenID)
                  ELSE iter[s \ {Max(s)}]]
           replay == CHOOSE iter : replays(iter)
<1>1. \A s \in SUBSET S : s # {} => Max(s) \in s
  BY LastChooses
<1>2. \E iter : replays(iter)
  <2> DEFINE base == Outcome("Ok", before)
             step == [i \in S |-> [o \in Outcomes |->
                        IF o.result = "Ok" THEN processTx(kind, o.states, txs[i], tokenID)
                        ELSE o]]
  <2>1. \A i \in 1 .. n, o \in Outcomes :
          /\ step[i][o] = IF o.result = "Ok" THEN processTx(kind, o.states, txs[i], tokenID)
                          ELSE o
          /\ step[i][o] \in Outcomes
    <3> TAKE i \in 1 .. n, o \in Outcomes
    <3>1. step[i][o] = IF o.result = "Ok" THEN processTx(kind, o.states, txs[i], tokenID)
                       ELSE o
      OBVIOUS
    <3>2. processTx(kind, o.states, txs[i], tokenID) \in Outcomes
      <4>1. o.states \in StateMaps /\ txs[i] \in Tx
        BY DEF Outcomes
      <4> QED
        BY <4>1, TxType
    <3> HIDE DEF step
    <3> QED
      BY <3>1, <3>2
  <2> HIDE DEF step
  <2>2. base \in Outcomes
    BY OutcomeType DEF Results
  <2> HIDE DEF base
  <2>3. PICK iter : /\ IsSequenceFold(iter, n, base, step)
                    /\ \A s \in SUBSET (1 .. n) : iter[s] \in Outcomes
    <3>1. \A i \in 1 .. n, o \in Outcomes : step[i][o] \in Outcomes
      BY <2>1
    <3> QED
      BY <2>2, <3>1, SequenceFold
  <2>4. ASSUME NEW s \in SUBSET S
        PROVE  iter[s] = IF s = {} THEN base
                         ELSE IF iter[s \ {Max(s)}].result = "Ok"
                              THEN processTx(kind, iter[s \ {Max(s)}].states, txs[Max(s)], tokenID)
                              ELSE iter[s \ {Max(s)}]
    <3>1. iter[s] = IF s = {} THEN base ELSE step[Max(s)][iter[s \ {Max(s)}]]
      BY <2>3 DEF IsSequenceFold
    <3>2. s # {} => Max(s) \in 1 .. n /\ iter[s \ {Max(s)}] \in Outcomes
      BY <1>1, <2>3
    <3> QED
      BY <2>1, <3>1, <3>2
  <2>5. iter = [s \in SUBSET S |-> iter[s]]
    BY <2>3 DEF IsSequenceFold
  <2> HIDE DEF S
  <2>6. replays(iter)
    BY <2>4, <2>5 DEF base
  <2> QED
    BY <2>6
<1>3. replays(replay)
  <2> HIDE DEF replays
  <2> QED
    BY <1>2
<1>4. Replay(kind, before, txs, tokenID) = replay[S]
  BY DEF Replay, Then, FoldLeft, MapThenFoldSet, Max
<1> HIDE DEF replay
<1> DEFINE run == [k \in 0 .. n |-> replay[1 .. k]]
<1>5. IsReplay(run, kind, before, n, txs, tokenID)
  <2>1. run[0] = Outcome("Ok", before)
    BY <1>3, RangesFromOne
  <2>2. ASSUME NEW k \in 1 .. n
        PROVE  run[k] = IF run[k - 1].result = "Ok"
                        THEN processTx(kind, run[k - 1].states, txs[k], tokenID)
                        ELSE run[k - 1]
    <3>1. /\ 1 .. k \in SUBSET S /\ 1 .. k # {} /\ k - 1 \in 0 .. n /\ k \in 0 .. n
          /\ (1 .. k) \ {Max(1 .. k)} = 1 .. k - 1 /\ Max(1 .. k) = k
      BY RangesFromOne
    <3>2. run[k] = replay[1 .. k] /\ run[k - 1] = replay[1 .. k - 1]
      BY <3>1
    <3>3. replay[1 .. k] = IF replay[1 .. k - 1].result = "Ok"
                           THEN processTx(kind, replay[1 .. k - 1].states, txs[k], tokenID)
                           ELSE replay[1 .. k - 1]
      BY <1>3, <3>1
    <3> QED
      BY <3>2, <3>3
  <2> HIDE DEF run
  <2> QED
    BY <2>1, <2>2 DEF IsReplay
<1>6. run[n] = replay[S]
  OBVIOUS
<1> HIDE DEF run
<1> QED
  BY <1>4, <1>5, <1>6

SentBy(txs, n, id) == {k \in 1 .. n : txs[k].from = id}

\* What the first n transactions of a commitment do.
TxsChange(before, after, txs, n, tokenID, taken) ==
  /\ after \in StateMaps
  /\ Kept(before, after)
  /\ n # 0 => tokenID \in TokenIDs
  /\ \A k \in 1 .. n : txs[k].from \in DOMAIN after
  /\ \A t \in TokenIDs :
       Balances(after, t)
         = Balances(before, t)
             - (IF t = tokenID THEN SumFunctionOnSet(taken, 1 .. n) ELSE 0)
  /\ \A id \in StateIDs :
       NonceOf(after, id) = NonceOf(before, id) + Cardinality(SentBy(txs, n, id))

LEMMA SentByOneMore ==
  ASSUME NEW txs, NEW n \in Nat, NEW id
  PROVE  /\ Cardinality(SentBy(txs, n, id)) \in Nat
         /\ Cardinality(SentBy(txs, n + 1, id))
              = Cardinality(SentBy(txs, n, id)) + (IF txs[n + 1].from = id THEN 1 ELSE 0)
<1>1. IsFiniteSet(SentBy(txs, n, id))
  <2>1. IsFiniteSet(1 .. n)
    BY FS_Interval
  <2>2. SentBy(txs, n, id) \subseteq 1 .. n
    BY DEF SentBy
  <2> QED
    BY <2>1, <2>2, FS_Subset
<1>2. Cardinality(SentBy(txs, n, id)) \in Nat
  BY <1>1, FS_CardinalityType
<1>3. CASE txs[n + 1].from = id
  <2>1. SentBy(txs, n + 1, id) = SentBy(txs, n, id) \cup {n + 1}
    BY <1>3 DEF SentBy
  <2>2. n + 1 \notin SentBy(txs, n, id)
    BY DEF SentBy
  <2> QED
    BY <1>1, <1>2, <1>3, <2>1, <2>2, FS_AddElement
<1>4. CASE txs[n + 1].from # id
  <2>1. SentBy(txs, n + 1, id) = SentBy(txs, n, id)
    BY <1>4 DEF SentBy
  <2> QED
    BY <1>2, <1>4, <2>1
<1> QED
  BY <1>2, <1>3, <1>4

LEMMA OneMoreTx ==
  ASSUME NEW before \in StateMaps, NEW between, NEW after, NEW tokenID,
         NEW n \in Nat, NEW txs \in [1 .. n -> Tx], NEW k \in 0 .. n - 1,
         NEW taken, \A i \in 1 .. n : taken[i] \in Int,
         TxsChange(before, between, txs, k, tokenID, taken),
         TxChanges(between, after, txs[k + 1].from, tokenID, taken[k + 1])
  PROVE  TxsChange(before, after, txs, k + 1, tokenID, taken)
<1>1. k + 1 \in 1 .. n /\ k \in Nat /\ 1 .. k \in SUBSET (1 .. k + 1)
      /\ (1 .. k + 1) \ {k + 1} = 1 .. k /\ k + 1 \in 1 .. k + 1
  OBVIOUS
<1>2. /\ after \in StateMaps /\ Kept(before, after) /\ tokenID \in TokenIDs
      /\ between \in StateMaps
  BY KeptTwice DEF TxsChange, TxChanges
<1>3. ASSUME NEW i \in 1 .. k + 1 PROVE txs[i].from \in DOMAIN after
  <2>1. Kept(between, after) /\ txs[k + 1].from \in DOMAIN between
    BY DEF TxChanges
  <2>2. i # k + 1 => i \in 1 .. k
    BY <1>1
  <2>3. txs[i].from \in DOMAIN between
    BY <2>1, <2>2 DEF TxsChange
  <2> QED
    BY <2>1, <2>3 DEF Kept
<1>4. ASSUME NEW t \in TokenIDs
      PROVE  Balances(after, t)
               = Balances(before, t)
                   - (IF t = tokenID THEN SumFunctionOnSet(taken, 1 .. k + 1) ELSE 0)
  <2>1. IsFiniteSet(1 .. k + 1)
    BY <1>1, FS_Interval
  <2>2. Summable(taken, 1 .. k + 1)
    BY <1>1, <2>1 DEF Summable
  <2>3. Summable(taken, 1 .. k)
    BY <1>1, <2>2, SummableSubset
  <2>4. SumFunctionOnSet(taken, 1 .. k + 1) = taken[k + 1] + SumFunctionOnSet(taken, 1 .. k)
    BY <1>1, <2>2, SumTakeOut
  <2>5. SumFunctionOnSet(taken, 1 .. k) \in Int /\ taken[k + 1] \in Int
    BY <1>1, <2>3, SumInt
  <2>6. Balances(before, t) \in Int /\ Balances(between, t) \in Int
    BY <1>2, BalancesType
  <2>7. Balances(between, t)
          = Balances(before, t) - (IF t = tokenID THEN SumFunctionOnSet(taken, 1 .. k) ELSE 0)
    BY DEF TxsChange
  <2>8. Balances(after, t) = Balances(between, t) - (IF t = tokenID THEN taken[k + 1] ELSE 0)
    BY DEF TxChanges
  <2> QED
    BY <2>4, <2>5, <2>6, <2>7, <2>8
<1>5. ASSUME NEW id \in StateIDs
      PROVE  NonceOf(after, id)
               = NonceOf(before, id) + Cardinality(SentBy(txs, k + 1, id))
  <2>1. NonceOf(before, id) \in Nat
    BY LeafType DEF NonceOf
  <2>2. NonceOf(between, id) = NonceOf(before, id) + Cardinality(SentBy(txs, k, id))
    BY DEF TxsChange
  <2>3. NonceOf(after, id)
          = NonceOf(between, id) + (IF id = txs[k + 1].from THEN 1 ELSE 0)
    BY DEF TxChanges
  <2>4. /\ Cardinality(SentBy(txs, k, id)) \in Nat
        /\ Cardinality(SentBy(txs, k + 1, id))
             = Cardinality(SentBy(txs, k, id)) + (IF txs[k + 1].from = id THEN 1 ELSE 0)
    BY <1>1, SentByOneMore
  <2> QED
    BY <2>1, <2>2, <2>3, <2>4
<1> QED
  BY <1>2, <1>3, <1>4, <1>5 DEF TxsChange

LEMMA NoTxs ==
  ASSUME NEW before \in StateMaps, NEW txs, NEW tokenID, NEW taken
  PROVE  TxsChange(before, before, txs, 0, tokenID, taken)
<1>1. 1 .. 0 = {}
  OBVIOUS
<1>2. SumFunctionOnSet(taken, 1 .. 0) = 0
  BY <1>1, SumOfNone
<1>3. \A id \in StateIDs : Cardinality(SentBy(txs, 0, id)) = 0 /\ NonceOf(before, id) \in Nat
  <2> TAKE id \in StateIDs
  <2>1. SentBy(txs, 0, id) = {}
    BY <1>1 DEF SentBy
  <2>2. NonceOf(before, id) \in Nat
    BY LeafType DEF NonceOf
  <2> QED
    BY <2>1, <2>2, FS_EmptySet
<1>4. \A t \in TokenIDs : Balances(before, t) \in Int
  BY BalancesType
<1>5. Kept(before, before)
  BY DEF Kept
<1> QED
  BY <1>1, <1>2, <1>3, <1>4, <1>5 DEF TxsChange

\* By induction along the replay.
LEMMA ReplayOk ==
  ASSUME NEW kind \in Kinds, NEW before \in StateMaps, NEW tokenID, NEW n \in Nat,
         NEW txs \in [1 .. n -> Tx], NEW outcome,
         outcome = Replay(kind, before, txs, tokenID), outcome.result = "Ok",
         NEW taken, \A k \in 1 .. n : taken[k] = Taken(kind, txs[k])
  PROVE  TxsChange(before, outcome.states, txs, n, tokenID, taken)
<1>1. PICK run : /\ IsReplay(run, kind, before, n, txs, tokenID)
                 /\ Replay(kind, before, txs, tokenID) = run[n]
  BY ReplayRuns
<1>2. ASSUME NEW k \in 1 .. n PROVE taken[k] \in Int
  <2>1. txs[k] \in Tx
    OBVIOUS
  <2>2. txs[k].amount \in Nat /\ txs[k].fee \in Nat
    BY <2>1 DEF Tx
  <2> QED
    BY <2>2 DEF Taken
<1> DEFINE good == {k \in 0 .. n : run[k].result = "Ok" =>
                      TxsChange(before, run[k].states, txs, k, tokenID, taken)}
<1>3. 0 \in good
  <2>1. run[0].states = before
    BY <1>1 DEF IsReplay, Outcome
  <2> QED
    BY <2>1, NoTxs
<1>4. ASSUME NEW k \in good \cap 0 .. n - 1 PROVE k + 1 \in good
  <2>1. k + 1 \in 1 .. n /\ k + 1 \in 0 .. n /\ (k + 1) - 1 = k /\ txs[k + 1] \in Tx
    OBVIOUS
  <2> SUFFICES ASSUME run[k + 1].result = "Ok"
               PROVE  TxsChange(before, run[k + 1].states, txs, k + 1, tokenID, taken)
    BY <2>1
  <2>2. run[k + 1] = IF run[k].result = "Ok"
                     THEN processTx(kind, run[k].states, txs[k + 1], tokenID) ELSE run[k]
    BY <1>1, <2>1 DEF IsReplay
  <2>3. run[k].result = "Ok" /\ run[k + 1] = processTx(kind, run[k].states, txs[k + 1], tokenID)
    BY <2>2
  <2>4. TxsChange(before, run[k].states, txs, k, tokenID, taken)
    BY <2>3
  <2>5. run[k].states \in StateMaps
    BY <2>4 DEF TxsChange
  <2> HIDE DEF good
  <2>6. TxChanges(run[k].states, run[k + 1].states, txs[k + 1].from, tokenID,
                  Taken(kind, txs[k + 1]))
    BY <2>1, <2>3, <2>5, TxOk
  <2>7. TxChanges(run[k].states, run[k + 1].states, txs[k + 1].from, tokenID, taken[k + 1])
    BY <2>1, <2>6
  <2> QED
    BY <1>2, <2>4, <2>7, OneMoreTx
<1>5. n \in good
  <2> HIDE DEF good
  <2>1. 0 .. n \subseteq good
    BY <1>3, <1>4, NumbersUpTo
  <2> QED
    BY <2>1
<1> QED
  BY <1>1, <1>5

(***************************************************************************)
(* A commitment.                                                           *)
(***************************************************************************)
IsCommit(commit, n) ==
  /\ commit.kind \in Kinds
  /\ commit.txs \in [1 .. n -> Tx]
  /\ commit.feeReceiver \in StateIDs
  /\ commit.kind = "MassMigration" => commit.tokenID \in TokenIDs

LEMMA TxListsType ==
  ASSUME NEW kindTxs, kindTxs \subseteq Tx, NEW txs \in TxLists(kindTxs)
  PROVE  \E n \in Nat : txs \in [1 .. n -> Tx]
<1>1. paramMaxTxsPerCommit \in Nat
  BY TransitionAssumption
<1>2. PICK n \in 0 .. paramMaxTxsPerCommit + 1 : txs \in [1 .. n -> kindTxs]
  BY DEF TxLists
<1>3. txs \in [1 .. n -> Tx]
  BY <1>2
<1>4. n \in Nat
  BY <1>1
<1> QED
  BY <1>3, <1>4

LEMMA CommitType ==
  ASSUME NEW commit \in Commits
  PROVE  \E n \in Nat : IsCommit(commit, n)
<1>1. Transfers \subseteq Tx /\ Create2Transfers \subseteq Tx /\ MassMigrations \subseteq Tx
  BY TransitionAssumption
<1>2. CASE commit \in TransferCommits("Transfer", Transfers)
  <2>1. /\ commit.kind = "Transfer" /\ commit.txs \in TxLists(Transfers)
        /\ commit.feeReceiver \in StateIDs
    BY <1>2 DEF TransferCommits
  <2> QED
    BY <1>1, <2>1, TxListsType DEF IsCommit, Kinds
<1>3. CASE commit \in TransferCommits("Create2Transfer", Create2Transfers)
  <2>1. /\ commit.kind = "Create2Transfer" /\ commit.txs \in TxLists(Create2Transfers)
        /\ commit.feeReceiver \in StateIDs
    BY <1>3 DEF TransferCommits
  <2> QED
    BY <1>1, <2>1, TxListsType DEF IsCommit, Kinds
<1>4. CASE commit \in MigrationCommits
  <2> DEFINE total(txs) == Total([i \in DOMAIN txs |-> txs[i].amount])
             roots(txs, tokenID) ==
               (IF \A i \in DOMAIN txs : txs[i].from \in DOMAIN states
                THEN {WithdrawLeaves(states, txs, tokenID)} ELSE {}) \cup {<<>>}
             claims(txs, tokenID) ==
               [kind : {"MassMigration"}, txs : {txs}, feeReceiver : StateIDs,
                tokenID : {tokenID}, amount : {total(txs), total(txs) + 1},
                withdrawRoot : roots(txs, tokenID)]
  <2>1. MigrationCommits
          = UNION {claims(txs, tokenID) :
                     txs \in TxLists(MassMigrations), tokenID \in TokenIDs}
    BY DEF MigrationCommits
  <2> HIDE DEF total, roots, claims
  <2>2. PICK txs \in TxLists(MassMigrations), tokenID \in TokenIDs :
          commit \in claims(txs, tokenID)
    BY <1>4, <2>1
  <2>3. /\ commit.kind = "MassMigration" /\ commit.txs = txs
        /\ commit.feeReceiver \in StateIDs /\ commit.tokenID = tokenID
    BY <2>2 DEF claims
  <2> QED
    BY <1>1, <2>3, TxListsType DEF IsCommit, Kinds
<1> QED
  BY <1>2, <1>3, <1>4 DEF Commits

Fees(txs) == [k \in DOMAIN txs |-> txs[k].fee]
Amounts(txs) == [k \in DOMAIN txs |-> txs[k].amount]

LEMMA TotalsOfTxs ==
  ASSUME NEW kind, NEW n \in Nat, NEW txs \in [1 .. n -> Tx],
         NEW taken, \A k \in 1 .. n : taken[k] = Taken(kind, txs[k])
  PROVE  /\ Total(Fees(txs)) \in Nat /\ Total(Amounts(txs)) \in Nat
         /\ SumFunctionOnSet(taken, 1 .. n)
              = Total(Fees(txs)) + (IF kind = "MassMigration" THEN Total(Amounts(txs)) ELSE 0)
<1> DEFINE f == Fees(txs)
           g == Amounts(txs)
<1>1. /\ DOMAIN f = 1 .. n /\ DOMAIN g = 1 .. n
      /\ \A k \in 1 .. n : /\ f[k] = txs[k].fee /\ g[k] = txs[k].amount
                           /\ f[k] \in Nat /\ g[k] \in Nat
  <2>1. \A k \in 1 .. n : txs[k].fee \in Nat /\ txs[k].amount \in Nat
    BY DEF Tx
  <2> QED
    BY <2>1 DEF Fees, Amounts
<1>2. \A k \in 1 .. n : taken[k] = f[k] + (IF kind = "MassMigration" THEN g[k] ELSE 0)
  BY <1>1 DEF Taken
<1> HIDE DEF f, g
<1>3. IsFiniteSet(1 .. n)
  BY FS_Interval
<1>4. Summable(f, 1 .. n) /\ Summable(g, 1 .. n)
  BY <1>1, <1>3 DEF Summable
<1>5. \A k \in 1 .. n : f[k] \in Int /\ g[k] \in Int
  BY <1>1
<1>6. Total(f) = SumFunctionOnSet(f, 1 .. n)
  BY <1>1, <1>5, TotalIsSum DEF Total
<1>7. Total(g) = SumFunctionOnSet(g, 1 .. n)
  BY <1>1, <1>5, TotalIsSum DEF Total
<1>8. \A k \in 1 .. n : f[k] \in Nat
  BY <1>1
<1>9. \A k \in 1 .. n : g[k] \in Nat
  BY <1>1
<1>10. SumFunctionOnSet(f, 1 .. n) \in Nat
  BY <1>3, <1>8, SumNat
<1>11. SumFunctionOnSet(g, 1 .. n) \in Nat
  BY <1>3, <1>9, SumNat
<1>12. CASE kind = "MassMigration"
  <2>1. \A k \in 1 .. n : taken[k] = f[k] + g[k]
    BY <1>2, <1>12
  <2>2. SumFunctionOnSet(taken, 1 .. n)
          = SumFunctionOnSet(f, 1 .. n) + SumFunctionOnSet(g, 1 .. n)
    BY <1>4, <2>1, SumPlus
  <2> QED
    BY <1>6, <1>7, <1>10, <1>11, <1>12, <2>2 DEF f, g
<1>13. CASE kind # "MassMigration"
  <2>1. \A k \in 1 .. n : taken[k] = f[k]
    BY <1>1, <1>2, <1>13
  <2>2. SumFunctionOnSet(taken, 1 .. n) = SumFunctionOnSet(f, 1 .. n)
    BY <1>4, <2>1, SumsEqual
  <2> QED
    BY <1>6, <1>7, <1>10, <1>11, <1>13, <2>2 DEF f, g
<1> QED
  BY <1>12, <1>13

CommitChanges(before, after, commit, n) ==
  /\ after \in StateMaps
  /\ Kept(before, after)
  /\ \A k \in 1 .. n : commit.txs[k].from \in DOMAIN after
  /\ commit.kind = "MassMigration" => commit.amount \in Nat
  /\ \A t \in TokenIDs :
       Balances(after, t)
         = Balances(before, t)
             - (IF commit.kind = "MassMigration" /\ t = commit.tokenID
                THEN commit.amount ELSE 0)
  /\ \A id \in StateIDs :
       NonceOf(after, id) = NonceOf(before, id) + Cardinality(SentBy(commit.txs, n, id))

\* A commitment that replays gives its fees to the receiver and takes no more
\* out of the balances than the amount that a mass migration claims.
LEMMA CommitOk ==
  ASSUME NEW before \in StateMaps, NEW n \in Nat, NEW commit, IsCommit(commit, n),
         NEW outcome, outcome = processCommit(before, commit), outcome.result = "Ok"
  PROVE  CommitChanges(before, outcome.states, commit, n)
<1>1. PICK kind, txs, tokenID :
        kind = commit.kind /\ txs = commit.txs /\ tokenID = CommitToken(before, commit)
  OBVIOUS
<1>2. kind \in Kinds /\ txs \in [1 .. n -> Tx]
  BY <1>1 DEF IsCommit
<1>3. PICK replay, taken :
        /\ replay = Replay(kind, before, txs, tokenID)
        /\ taken = [k \in 1 .. n |-> Taken(kind, txs[k])]
  OBVIOUS
<1>4. PICK received :
        received = processReceiver(replay.states, commit.feeReceiver, tokenID, Total(Fees(txs)))
  OBVIOUS
<1>5. PICK checked : checked = CheckMigration(before, received.states, commit)
  OBVIOUS
<1>6. /\ replay.result = "Ok" /\ received.result = "Ok"
      /\ checked.result = "Ok" /\ outcome = checked
  BY <1>1, <1>3, <1>4, <1>5 DEF processCommit, Then, Fees, Outcome
<1>7. outcome.states = received.states
  BY <1>5, <1>6 DEF CheckMigration, Outcome
<1>8. commit.kind = "MassMigration" =>
        commit.amount = Total(Amounts(txs)) /\ tokenID = commit.tokenID
  BY <1>1, <1>5, <1>6 DEF CheckMigration, Outcome, Amounts, CommitToken
<1>9. TxsChange(before, replay.states, txs, n, tokenID, taken)
  <2>1. \A k \in 1 .. n : taken[k] = Taken(kind, txs[k])
    BY <1>3
  <2> QED
    BY <1>2, <1>3, <1>6, <2>1, ReplayOk
<1>10. /\ Total(Fees(txs)) \in Nat /\ Total(Amounts(txs)) \in Nat
       /\ SumFunctionOnSet(taken, 1 .. n)
            = Total(Fees(txs)) + (IF kind = "MassMigration" THEN Total(Amounts(txs)) ELSE 0)
  <2>1. \A k \in 1 .. n : taken[k] = Taken(kind, txs[k])
    BY <1>3
  <2>2. txs \in [1 .. n -> Tx]
    BY <1>2
  <2> QED
    BY <2>1, <2>2, TotalsOfTxs, ZenonT(30)
<1>11. replay.states \in StateMaps
  BY <1>9 DEF TxsChange
<1>12. Changes(replay.states, received.states, commit.feeReceiver, tokenID,
               Total(Fees(txs)), 0)
  BY <1>4, <1>6, <1>10, <1>11, ReceiverOk
<1>13. /\ outcome.states \in StateMaps /\ Kept(before, outcome.states)
       /\ tokenID \in TokenIDs
  BY <1>7, <1>9, <1>12, KeptTwice DEF Changes, TxsChange
<1>14. ASSUME NEW k \in 1 .. n PROVE commit.txs[k].from \in DOMAIN outcome.states
  <2>1. txs[k].from \in DOMAIN replay.states
    BY <1>9 DEF TxsChange
  <2>2. DOMAIN received.states = DOMAIN replay.states \cup {commit.feeReceiver}
    BY <1>12 DEF Changes
  <2> QED
    BY <1>1, <1>7, <2>1, <2>2
<1>15. ASSUME NEW t \in TokenIDs
       PROVE  Balances(outcome.states, t)
                = Balances(before, t)
                    - (IF commit.kind = "MassMigration" /\ t = commit.tokenID
                       THEN commit.amount ELSE 0)
  <2>1. Balances(before, t) \in Int
    BY BalancesType
  <2>2. Balances(replay.states, t)
          = Balances(before, t) - (IF t = tokenID THEN SumFunctionOnSet(taken, 1 .. n) ELSE 0)
    BY <1>9 DEF TxsChange
  <2>3. Balances(received.states, t)
          = Balances(replay.states, t) + (IF t = tokenID THEN Total(Fees(txs)) ELSE 0)
    BY <1>12 DEF Changes
  <2> QED
    BY <1>1, <1>7, <1>8, <1>10, <2>1, <2>2, <2>3
<1>16. ASSUME NEW id \in StateIDs
       PROVE  NonceOf(outcome.states, id)
                = NonceOf(before, id) + Cardinality(SentBy(commit.txs, n, id))
  <2>1. NonceOf(replay.states, id) \in Nat
    BY <1>11, LeafType DEF NonceOf
  <2>2. NonceOf(replay.states, id) = NonceOf(before, id) + Cardinality(SentBy(txs, n, id))
    BY <1>9 DEF TxsChange
  <2>3. NonceOf(received.states, id)
          = NonceOf(replay.states, id) + (IF id = commit.feeReceiver THEN 0 ELSE 0)
    BY <1>12 DEF Changes
  <2> QED
    BY <1>1, <1>7, <2>1, <2>2, <2>3
<1> QED
  BY <1>8, <1>10, <1>13, <1>14, <1>15, <1>16 DEF CommitChanges

(***************************************************************************)
(* The invariants.                                                         *)
(***************************************************************************)
LEMMA StatesType == TypeOK => states \in StateMaps
BY StateMapType DEF TypeOK

LEMMA DepositStep ==
  ASSUME TypeOK, NEW id \in StateIDs, NEW state \in DepositStates, Deposit(id, state)
  PROVE  Changes(states, states', id, state.tokenID, state.balance, state.nonce)
<1>1. state \in State /\ id \in StateIDs \ DOMAIN states /\ states \in StateMaps
  BY TransitionAssumption, StatesType DEF Deposit
<1>2. states' = [i \in DOMAIN states \cup {id} |-> IF i = id THEN state ELSE states[i]]
  BY DEF Deposit
<1> QED
  BY <1>1, <1>2, FillLeaf

LEMMA CommitStep ==
  ASSUME TypeOK, NEW commit \in Commits, Commit(commit)
  PROVE  \E n \in Nat : IsCommit(commit, n) /\ CommitChanges(states, states', commit, n)
<1>1. PICK n \in Nat : IsCommit(commit, n)
  BY CommitType
<1>2. PICK outcome : outcome = processCommit(states, commit)
  OBVIOUS
<1>3. outcome.result = "Ok" /\ states' = outcome.states
  BY <1>2 DEF Commit
<1>4. CommitChanges(states, outcome.states, commit, n)
  BY <1>1, <1>2, <1>3, StatesType, CommitOk
<1> QED
  BY <1>1, <1>3, <1>4

LEMMA InitTypeOK == Init => TypeOK
BY DEF Init, TypeOK

LEMMA NextTypeOK ==
  ASSUME TypeOK, [Next]_vars
  PROVE  TypeOK'
<1>1. ASSUME NEW id \in StateIDs, NEW state \in DepositStates, Deposit(id, state)
      PROVE  TypeOK'
  <2>1. states' \in StateMaps
    BY <1>1, DepositStep DEF Changes
  <2>2. DOMAIN states' \subseteq StateIDs /\ states' \in [DOMAIN states' -> State]
    BY <2>1, StateMapType
  <2>3. state.tokenID \in TokenIDs /\ state.balance \in Nat
    BY TransitionAssumption DEF State
  <2>4. deposited' \in [TokenIDs -> Nat]
    BY <1>1, <2>3 DEF Deposit, TypeOK
  <2>5. migrated' \in [TokenIDs -> Nat]
    BY <1>1 DEF Deposit, TypeOK
  <2> QED
    BY <2>2, <2>4, <2>5 DEF TypeOK
<1>2. ASSUME NEW commit \in Commits, Commit(commit)
      PROVE  TypeOK'
  <2>1. PICK n \in Nat : IsCommit(commit, n) /\ CommitChanges(states, states', commit, n)
    BY <1>2, CommitStep
  <2>2. states' \in StateMaps
    BY <2>1 DEF CommitChanges
  <2>3. DOMAIN states' \subseteq StateIDs /\ states' \in [DOMAIN states' -> State]
    BY <2>2, StateMapType
  <2>4. deposited' \in [TokenIDs -> Nat]
    BY <1>2 DEF Commit, TypeOK
  <2>5. migrated' \in [TokenIDs -> Nat]
    <3>1. commit.kind = "MassMigration" => commit.tokenID \in TokenIDs /\ commit.amount \in Nat
      BY <2>1 DEF IsCommit, CommitChanges
    <3> QED
      BY <1>2, <3>1 DEF Commit, TypeOK
  <2> QED
    BY <2>3, <2>4, <2>5 DEF TypeOK
<1>3. CASE UNCHANGED vars
  BY <1>3 DEF vars, TypeOK
<1> QED
  BY <1>1, <1>2, <1>3 DEF Next

\* No replay of a commitment that ends in Ok leaves a balance below zero, or a
\* leaf that is not a state (Transition.sol: validateAndApplySender).
THEOREM TypesHold == Spec => []TypeOK
BY InitTypeOK, NextTypeOK, PTL DEF Spec

\* No commitment empties a leaf or gives it to another owner or token.
THEOREM OwnersKept == Spec => StatesKeepOwners
<1> DEFINE keep == \A id \in DOMAIN states :
                     /\ id \in DOMAIN states'
                     /\ states'[id].pubkeyID = states[id].pubkeyID
                     /\ states'[id].tokenID = states[id].tokenID
<1>1. ASSUME TypeOK, [Next]_vars PROVE [keep]_vars
  <2>1. ASSUME NEW id \in StateIDs, NEW state \in DepositStates, Deposit(id, state)
        PROVE  Kept(states, states')
    BY <1>1, <2>1, DepositStep DEF Changes
  <2>2. ASSUME NEW commit \in Commits, Commit(commit)
        PROVE  Kept(states, states')
    BY <1>1, <2>2, CommitStep DEF CommitChanges
  <2> QED
    BY <1>1, <2>1, <2>2 DEF Next, Kept
<1> QED
  BY <1>1, TypesHold, PTL DEF Spec, StatesKeepOwners

LEMMA InitConserved == Init => TokensConserved
<1> SUFFICES ASSUME Init, NEW tokenID \in TokenIDs
             PROVE  Balances(states, tokenID) + migrated[tokenID] = deposited[tokenID]
  BY DEF TokensConserved
<1>1. DOMAIN states = {}
  BY DEF Init
<1>2. {id \in DOMAIN states : states[id].tokenID = tokenID} = {}
  BY <1>1
<1>3. Balances(states, tokenID) = 0
  BY <1>2, SumOfNone DEF Balances
<1> QED
  BY <1>3 DEF Init

LEMMA NextConserved ==
  ASSUME TypeOK, TokensConserved, [Next]_vars
  PROVE  TokensConserved'
<1> SUFFICES ASSUME NEW tokenID \in TokenIDs
             PROVE  Balances(states', tokenID) + migrated'[tokenID] = deposited'[tokenID]
  BY DEF TokensConserved, Balances
<1>1. /\ Balances(states, tokenID) + migrated[tokenID] = deposited[tokenID]
      /\ Balances(states, tokenID) \in Int
      /\ migrated[tokenID] \in Nat /\ deposited[tokenID] \in Nat
  BY StatesType, BalancesType DEF TokensConserved, TypeOK
<1>2. ASSUME NEW id \in StateIDs, NEW state \in DepositStates, Deposit(id, state)
      PROVE  Balances(states', tokenID) + migrated'[tokenID] = deposited'[tokenID]
  <2>1. Changes(states, states', id, state.tokenID, state.balance, state.nonce)
    BY <1>2, DepositStep
  <2>2. Balances(states', tokenID)
          = Balances(states, tokenID) + (IF tokenID = state.tokenID THEN state.balance ELSE 0)
    BY <2>1 DEF Changes
  <2>3. state.balance \in Nat
    BY TransitionAssumption DEF State
  <2>4. /\ migrated'[tokenID] = migrated[tokenID]
        /\ deposited'[tokenID]
             = deposited[tokenID] + (IF tokenID = state.tokenID THEN state.balance ELSE 0)
    BY <1>1, <1>2 DEF Deposit, TypeOK
  <2> QED
    BY <1>1, <2>2, <2>3, <2>4
<1>3. ASSUME NEW commit \in Commits, Commit(commit)
      PROVE  Balances(states', tokenID) + migrated'[tokenID] = deposited'[tokenID]
  <2>1. PICK n \in Nat : IsCommit(commit, n) /\ CommitChanges(states, states', commit, n)
    BY <1>3, CommitStep
  <2>2. /\ Balances(states', tokenID)
             = Balances(states, tokenID)
                 - (IF commit.kind = "MassMigration" /\ tokenID = commit.tokenID
                    THEN commit.amount ELSE 0)
        /\ commit.kind = "MassMigration" => commit.amount \in Nat
    BY <2>1 DEF CommitChanges
  <2>3. /\ deposited'[tokenID] = deposited[tokenID]
        /\ migrated'[tokenID]
             = migrated[tokenID]
                 + (IF commit.kind = "MassMigration" /\ tokenID = commit.tokenID
                    THEN commit.amount ELSE 0)
    BY <1>1, <1>3 DEF Commit, TypeOK
  <2> QED
    BY <1>1, <2>2, <2>3
<1>4. CASE UNCHANGED vars
  BY <1>1, <1>4 DEF vars
<1> QED
  BY <1>2, <1>3, <1>4 DEF Next

\* Whatever commitments are applied, in whatever order, what was deposited of a
\* token is in balances or was taken out by mass migrations: fees are moved and
\* not lost, and a sender pays before a receiver gets.
THEOREM NoTokensMade == Spec => []TokensConserved
BY InitConserved, NextConserved, TypesHold, PTL DEF Spec

(***************************************************************************)
(* Nonces.                                                                 *)
(***************************************************************************)
\* A sender's transactions are those before one of them, that one, and the rest.
LEMMA SentBeforeAndAfter ==
  ASSUME NEW n \in Nat, NEW txs \in [1 .. n -> Tx], NEW i \in 1 .. n
  PROVE  LET before == {k \in 1 .. i - 1 : txs[k].from = txs[i].from}
             after == {k \in DOMAIN txs : k > i /\ txs[k].from = txs[i].from}
         IN  /\ Cardinality(before) \in Nat /\ Cardinality(after) \in Nat
             /\ Cardinality(SentBy(txs, n, txs[i].from))
                  = Cardinality(before) + 1 + Cardinality(after)
<1> DEFINE before == {k \in 1 .. i - 1 : txs[k].from = txs[i].from}
           after == {k \in DOMAIN txs : k > i /\ txs[k].from = txs[i].from}
           all == SentBy(txs, n, txs[i].from)
<1>1. IsFiniteSet(1 .. n)
  BY FS_Interval
<1>2. before \subseteq 1 .. n /\ after \subseteq 1 .. n
  OBVIOUS
<1>3. all = (before \cup {i}) \cup after
  BY DEF SentBy
<1>4. i \notin before /\ (before \cup {i}) \cap after = {}
  OBVIOUS
<1> HIDE DEF before, after, all
<1>5. IsFiniteSet(before) /\ IsFiniteSet(after)
  BY <1>1, <1>2, FS_Subset
<1>6. /\ IsFiniteSet(before \cup {i})
      /\ Cardinality(before \cup {i}) = Cardinality(before) + 1
  BY <1>4, <1>5, FS_AddElement
<1>7. Cardinality((before \cup {i}) \cup after)
        = Cardinality(before \cup {i}) + Cardinality(after)
            - Cardinality((before \cup {i}) \cap after)
  BY <1>5, <1>6, FS_Union
<1>8. Cardinality({}) = 0
  BY FS_EmptySet
<1>9. Cardinality(before) \in Nat /\ Cardinality(after) \in Nat
  BY <1>5, FS_CardinalityType
<1>10. Cardinality(all) = Cardinality(before) + 1 + Cardinality(after)
  <2>1. Cardinality((before \cup {i}) \cap after) = 0
    BY <1>4, <1>8
  <2>2. Cardinality((before \cup {i}) \cup after)
          = Cardinality(before) + 1 + Cardinality(after) - 0
    BY <1>6, <1>7, <2>1
  <2> QED
    BY <1>3, <1>9, <2>2
<1> QED
  BY <1>9, <1>10 DEF before, after, all

LEMMA TypeGivesNonces == TypeOK => NoncesAreSpentInOrder
<1> SUFFICES ASSUME TypeOK, NEW commit \in Commits, NEW outcome,
                    outcome = processCommit(states, commit), outcome.result = "Ok",
                    NEW i \in DOMAIN commit.txs
             PROVE  SignedNonce(outcome.states, commit.txs, i)
                      = NonceOf(states, commit.txs[i].from)
                          + Cardinality({k \in 1 .. i - 1 :
                                           commit.txs[k].from = commit.txs[i].from})
  BY DEF NoncesAreSpentInOrder, NonceOf
<1>1. PICK n \in Nat : IsCommit(commit, n)
  BY CommitType
<1>2. CommitChanges(states, outcome.states, commit, n)
  BY <1>1, StatesType, CommitOk
<1>3. PICK txs, from, after :
        txs = commit.txs /\ from = commit.txs[i].from /\ after = outcome.states
  OBVIOUS
<1>4. txs \in [1 .. n -> Tx] /\ i \in 1 .. n
  BY <1>1, <1>3 DEF IsCommit
<1>5. from \in StateIDs
  BY <1>3, <1>4 DEF Tx
<1>6. after[from].nonce = NonceOf(states, from) + Cardinality(SentBy(txs, n, from))
  BY <1>2, <1>3, <1>4, <1>5 DEF CommitChanges, NonceOf
<1>7. NonceOf(states, from) \in Nat
  BY StatesType, LeafType DEF NonceOf
<1> DEFINE earlier == {k \in 1 .. i - 1 : txs[k].from = txs[i].from}
           later == {k \in DOMAIN txs : k > i /\ txs[k].from = txs[i].from}
<1>8. /\ Cardinality(earlier) \in Nat /\ Cardinality(later) \in Nat
      /\ Cardinality(SentBy(txs, n, txs[i].from))
           = Cardinality(earlier) + 1 + Cardinality(later)
  BY <1>4, SentBeforeAndAfter
<1>9. SignedNonce(after, txs, i) = after[from].nonce - 1 - Cardinality(later)
  BY <1>3 DEF SignedNonce
<1> HIDE DEF later
<1>10. SignedNonce(after, txs, i) = NonceOf(states, from) + Cardinality(earlier)
  BY <1>3, <1>6, <1>7, <1>8, <1>9
<1> QED
  BY <1>3, <1>10

\* The nonce that a signature of an applied transaction must be for is the one
\* its sender had: no transaction can be applied twice (Authenticity.sol).
THEOREM NoncesInOrder == Spec => []NoncesAreSpentInOrder
BY TypesHold, TypeGivesNonces, PTL

(***************************************************************************)
(* The node's replay of a transfer commitment.                             *)
(***************************************************************************)
LEMMA ClientSenderType ==
  ASSUME NEW before \in StateMaps, NEW id, NEW tokenID, NEW amount \in Nat, NEW fee \in Nat
  PROVE  clientSender(before, id, tokenID, amount, fee) \in Outcomes
<1>1. CASE clientSender(before, id, tokenID, amount, fee) = Thrown(before)
  BY <1>1, OutcomeType DEF Thrown, Results
<1>2. CASE clientSender(before, id, tokenID, amount, fee) # Thrown(before)
  <2>1. /\ id \in DOMAIN before /\ ~(before[id].balance < amount + fee)
        /\ before[id].tokenID = tokenID
        /\ clientSender(before, id, tokenID, amount, fee)
             = Outcome("Ok", [before EXCEPT ![id] = ApplySender(@, amount, fee)])
    BY <1>2 DEF clientSender
  <2>2. before[id].balance >= amount + fee
    BY <2>1, LeafType
  <2>3. [before EXCEPT ![id] = ApplySender(@, amount, fee)] \in StateMaps
    BY <2>1, <2>2, SenderPays DEF Changes
  <2> QED
    BY <2>1, <2>3, OutcomeType DEF Results
<1> QED
  BY <1>1, <1>2

LEMMA ClientReceiverType ==
  ASSUME NEW before \in StateMaps, NEW id, NEW tokenID, NEW amount \in Nat
  PROVE  clientReceiver(before, id, tokenID, amount) \in Outcomes
<1>1. CASE clientReceiver(before, id, tokenID, amount) = Thrown(before)
  BY <1>1, OutcomeType DEF Thrown, Results
<1>2. CASE clientReceiver(before, id, tokenID, amount) # Thrown(before)
  <2>1. /\ id \in DOMAIN before /\ before[id].tokenID = tokenID
        /\ clientReceiver(before, id, tokenID, amount)
             = Outcome("Ok", [before EXCEPT ![id] = ApplyReceiver(@, amount)])
    BY <1>2 DEF clientReceiver
  <2>2. [before EXCEPT ![id] = ApplyReceiver(@, amount)] \in StateMaps
    BY <2>1, ReceiverGets DEF Changes
  <2> QED
    BY <2>1, <2>2, OutcomeType DEF Results
<1> QED
  BY <1>1, <1>2

\* One transaction of the node's replay.
clientPaid(outcome, tx, tokenID) ==
  IF outcome.result = "Ok"
  THEN clientSender(outcome.states, tx.from, tokenID, tx.amount, tx.fee) ELSE outcome
clientTx(outcome, tx, tokenID) ==
  IF clientPaid(outcome, tx, tokenID).result = "Ok"
  THEN clientReceiver(clientPaid(outcome, tx, tokenID).states, tx.to, tokenID, tx.amount)
  ELSE clientPaid(outcome, tx, tokenID)

LEMMA ClientTxType ==
  ASSUME NEW outcome \in Outcomes, NEW tx \in Tx, NEW tokenID
  PROVE  clientTx(outcome, tx, tokenID) \in Outcomes
<1>1. tx.amount \in Nat /\ tx.fee \in Nat
  BY DEF Tx
<1>2. PICK paid : paid = clientPaid(outcome, tx, tokenID)
  OBVIOUS
<1>3. outcome.states \in StateMaps
  BY DEF Outcomes
<1>4. clientSender(outcome.states, tx.from, tokenID, tx.amount, tx.fee) \in Outcomes
  BY <1>1, <1>3, ClientSenderType
<1>5. paid \in Outcomes
  BY <1>2, <1>4 DEF clientPaid
<1>6. paid.states \in StateMaps
  BY <1>5 DEF Outcomes
<1>7. clientReceiver(paid.states, tx.to, tokenID, tx.amount) \in Outcomes
  BY <1>1, <1>6, ClientReceiverType
<1> QED
  BY <1>2, <1>5, <1>7 DEF clientTx

IsClientReplay(run, before, n, txs, tokenID) ==
  /\ run[0] = Outcome("Ok", before)
  /\ \A k \in 1 .. n : run[k] = clientTx(run[k - 1], txs[k], tokenID)

LEMMA ClientReplayRuns ==
  ASSUME NEW before \in StateMaps, NEW tokenID, NEW n \in Nat, NEW txs \in [1 .. n -> Tx]
  PROVE  \E run : /\ IsClientReplay(run, before, n, txs, tokenID)
                  /\ clientReplay(before, txs, tokenID) = run[n]
<1> DEFINE S == 1 .. n
           replays(iter) == iter = [s \in SUBSET S |->
             IF s = {} THEN Outcome("Ok", before)
             ELSE clientTx(iter[s \ {Max(s)}], txs[Max(s)], tokenID)]
           replay == CHOOSE iter : replays(iter)
<1>1. \A s \in SUBSET S : s # {} => Max(s) \in s
  BY LastChooses
<1>2. \E iter : replays(iter)
  <2> DEFINE base == Outcome("Ok", before)
             step == [i \in S |-> [o \in Outcomes |-> clientTx(o, txs[i], tokenID)]]
  <2>1. \A i \in 1 .. n, o \in Outcomes :
          /\ step[i][o] = clientTx(o, txs[i], tokenID)
          /\ step[i][o] \in Outcomes
    <3> TAKE i \in 1 .. n, o \in Outcomes
    <3>1. step[i][o] = clientTx(o, txs[i], tokenID)
      OBVIOUS
    <3>2. txs[i] \in Tx
      OBVIOUS
    <3> HIDE DEF step
    <3> QED
      BY <3>1, <3>2, ClientTxType
  <2> HIDE DEF step
  <2>2. base \in Outcomes
    BY OutcomeType DEF Results
  <2> HIDE DEF base
  <2>3. PICK iter : /\ IsSequenceFold(iter, n, base, step)
                    /\ \A s \in SUBSET (1 .. n) : iter[s] \in Outcomes
    <3>1. \A i \in 1 .. n, o \in Outcomes : step[i][o] \in Outcomes
      BY <2>1
    <3> QED
      BY <2>2, <3>1, SequenceFold
  <2>4. ASSUME NEW s \in SUBSET S
        PROVE  iter[s] = IF s = {} THEN base
                         ELSE clientTx(iter[s \ {Max(s)}], txs[Max(s)], tokenID)
    <3>1. iter[s] = IF s = {} THEN base ELSE step[Max(s)][iter[s \ {Max(s)}]]
      BY <2>3 DEF IsSequenceFold
    <3>2. s # {} => Max(s) \in 1 .. n /\ iter[s \ {Max(s)}] \in Outcomes
      BY <1>1, <2>3
    <3> QED
      BY <2>1, <3>1, <3>2
  <2>5. iter = [s \in SUBSET S |-> iter[s]]
    BY <2>3 DEF IsSequenceFold
  <2> HIDE DEF S
  <2>6. replays(iter)
    BY <2>4, <2>5 DEF base
  <2> QED
    BY <2>6
<1>3. replays(replay)
  <2> HIDE DEF replays
  <2> QED
    BY <1>2
<1>4. clientReplay(before, txs, tokenID) = replay[S]
  BY DEF clientReplay, clientTx, clientPaid, Then, FoldLeft, MapThenFoldSet, Max
<1> HIDE DEF replay
<1> DEFINE run == [k \in 0 .. n |-> replay[1 .. k]]
<1>5. IsClientReplay(run, before, n, txs, tokenID)
  <2>1. run[0] = Outcome("Ok", before)
    BY <1>3, RangesFromOne
  <2>2. ASSUME NEW k \in 1 .. n
        PROVE  run[k] = clientTx(run[k - 1], txs[k], tokenID)
    <3>1. /\ 1 .. k \in SUBSET S /\ 1 .. k # {} /\ k - 1 \in 0 .. n /\ k \in 0 .. n
          /\ (1 .. k) \ {Max(1 .. k)} = 1 .. k - 1 /\ Max(1 .. k) = k
      BY RangesFromOne
    <3>2. run[k] = replay[1 .. k] /\ run[k - 1] = replay[1 .. k - 1]
      BY <3>1
    <3>3. replay[1 .. k] = clientTx(replay[1 .. k - 1], txs[k], tokenID)
      BY <1>3, <3>1
    <3> QED
      BY <3>2, <3>3
  <2> HIDE DEF run
  <2> QED
    BY <2>1, <2>2 DEF IsClientReplay
<1>6. run[n] = replay[S]
  OBVIOUS
<1> HIDE DEF run
<1> QED
  BY <1>4, <1>5, <1>6

\* Two outcomes are the same for whoever only asks whether all was well.
SameOutcome(contract, node) ==
  /\ contract.result = "Ok" <=> node.result = "Ok"
  /\ contract.result = "Ok" => contract.states = node.states

LEMMA SameSender ==
  ASSUME NEW before, NEW id, NEW tokenID, NEW amount, NEW fee
  PROVE  SameOutcome(processSender(before, id, tokenID, amount, fee),
                     clientSender(before, id, tokenID, amount, fee))
BY DEF SameOutcome, processSender, clientSender, validateSender, Then, Outcome, Thrown

LEMMA SameReceiver ==
  ASSUME NEW before, NEW id, NEW tokenID, NEW amount
  PROVE  SameOutcome(processReceiver(before, id, tokenID, amount),
                     clientReceiver(before, id, tokenID, amount))
BY DEF SameOutcome, processReceiver, clientReceiver, validateReceiver, Then, Outcome, Thrown

LEMMA SameTx ==
  ASSUME NEW contract, NEW node, SameOutcome(contract, node), NEW tx, NEW tokenID
  PROVE  SameOutcome(IF contract.result = "Ok"
                     THEN processTx("Transfer", contract.states, tx, tokenID) ELSE contract,
                     clientTx(node, tx, tokenID))
<1>1. CASE contract.result # "Ok"
  BY <1>1 DEF SameOutcome, clientTx, clientPaid
<1>2. CASE contract.result = "Ok"
  <2>1. node.result = "Ok" /\ node.states = contract.states
    BY <1>2 DEF SameOutcome
  <2>2. PICK sender, paid :
          /\ sender = processSender(contract.states, tx.from, tokenID, tx.amount, tx.fee)
          /\ paid = clientSender(contract.states, tx.from, tokenID, tx.amount, tx.fee)
    OBVIOUS
  <2>3. SameOutcome(sender, paid)
    BY <2>2, SameSender
  <2>4. processTx("Transfer", contract.states, tx, tokenID)
          = IF sender.result = "Ok"
            THEN processReceiver(sender.states, tx.to, tokenID, tx.amount) ELSE sender
    BY <2>2 DEF processTx, Then
  <2>5. clientTx(node, tx, tokenID)
          = IF paid.result = "Ok"
            THEN clientReceiver(paid.states, tx.to, tokenID, tx.amount) ELSE paid
    BY <2>1, <2>2 DEF clientTx, clientPaid
  <2>6. SameOutcome(processReceiver(sender.states, tx.to, tokenID, tx.amount),
                    clientReceiver(sender.states, tx.to, tokenID, tx.amount))
    BY SameReceiver
  <2> QED
    BY <1>2, <2>3, <2>4, <2>5, <2>6 DEF SameOutcome
<1> QED
  BY <1>1, <1>2

LEMMA SameReplay ==
  ASSUME NEW before \in StateMaps, NEW tokenID, NEW n \in Nat, NEW txs \in [1 .. n -> Tx]
  PROVE  SameOutcome(Replay("Transfer", before, txs, tokenID),
                     clientReplay(before, txs, tokenID))
<1>1. PICK contract : /\ IsReplay(contract, "Transfer", before, n, txs, tokenID)
                      /\ Replay("Transfer", before, txs, tokenID) = contract[n]
  BY ReplayRuns DEF Kinds
<1>2. PICK node : /\ IsClientReplay(node, before, n, txs, tokenID)
                  /\ clientReplay(before, txs, tokenID) = node[n]
  BY ClientReplayRuns
<1> DEFINE same == {k \in 0 .. n : SameOutcome(contract[k], node[k])}
<1>3. 0 \in same
  BY <1>1, <1>2 DEF IsReplay, IsClientReplay, SameOutcome
<1>4. ASSUME NEW k \in same \cap 0 .. n - 1 PROVE k + 1 \in same
  <2>1. k + 1 \in 1 .. n /\ k + 1 \in 0 .. n /\ (k + 1) - 1 = k
    OBVIOUS
  <2>2. contract[k + 1] = IF contract[k].result = "Ok"
                          THEN processTx("Transfer", contract[k].states, txs[k + 1], tokenID)
                          ELSE contract[k]
    BY <1>1, <2>1 DEF IsReplay
  <2>3. node[k + 1] = clientTx(node[k], txs[k + 1], tokenID)
    BY <1>2, <2>1 DEF IsClientReplay
  <2>4. SameOutcome(contract[k + 1], node[k + 1])
    BY <2>2, <2>3, SameTx
  <2> QED
    BY <2>1, <2>4
<1>5. n \in same
  <2> HIDE DEF same
  <2>1. 0 .. n \subseteq same
    BY <1>3, <1>4, NumbersUpTo
  <2> QED
    BY <2>1
<1> QED
  BY <1>1, <1>2, <1>5

\* Where the first sender does not exist, nothing replays.
LEMMA FirstSender ==
  ASSUME NEW before \in StateMaps, NEW tokenID, NEW n \in Nat \ {0},
         NEW txs \in [1 .. n -> Tx],
         Replay("Transfer", before, txs, tokenID).result = "Ok"
  PROVE  txs[1].from \in DOMAIN before
<1>1. PICK run : /\ IsReplay(run, "Transfer", before, n, txs, tokenID)
                 /\ Replay("Transfer", before, txs, tokenID) = run[n]
  BY ReplayRuns DEF Kinds
<1> DEFINE good == {k \in 0 .. n :
                      k # 0 /\ run[k].result = "Ok" => txs[1].from \in DOMAIN before}
<1>2. 0 \in good
  OBVIOUS
<1>3. ASSUME NEW k \in good \cap 0 .. n - 1 PROVE k + 1 \in good
  <2>1. k + 1 \in 1 .. n /\ k + 1 \in 0 .. n /\ (k + 1) - 1 = k
    OBVIOUS
  <2>2. run[k + 1] = IF run[k].result = "Ok"
                     THEN processTx("Transfer", run[k].states, txs[k + 1], tokenID)
                     ELSE run[k]
    BY <1>1, <2>1 DEF IsReplay
  <2>3. CASE k = 0
    <3>1. run[k] = Outcome("Ok", before)
      BY <1>1, <2>3 DEF IsReplay
    <3>2. run[k + 1] = processTx("Transfer", before, txs[1], tokenID)
      BY <2>2, <2>3, <3>1 DEF Outcome
    <3>3. run[k + 1].result = "Ok" => txs[1].from \in DOMAIN before
      BY <3>2 DEF processTx, processSender, Then, Outcome
    <3> QED
      BY <2>1, <3>3
  <2>4. CASE k # 0
    <3>1. run[k + 1].result = "Ok" => run[k].result = "Ok"
      BY <2>2
    <3> QED
      BY <2>1, <2>4, <3>1
  <2> QED
    BY <2>3, <2>4
<1>4. n \in good
  <2> HIDE DEF good
  <2>1. 0 .. n \subseteq good
    BY <1>2, <1>3, NumbersUpTo
  <2> QED
    BY <2>1
<1> QED
  BY <1>1, <1>4

LEMMA SameCommit ==
  ASSUME NEW before \in StateMaps, NEW n \in Nat \ {0}, NEW commit, IsCommit(commit, n),
         commit.kind = "Transfer"
  PROVE  SameOutcome(processCommit(before, commit), clientProcess(before, commit))
<1>1. PICK txs, tokenID : txs = commit.txs /\ tokenID = CommitToken(before, commit)
  OBVIOUS
<1>2. txs \in [1 .. n -> Tx] /\ 1 \in 1 .. n
  BY <1>1 DEF IsCommit
<1>3. Len(txs) = n /\ txs # <<>>
  BY <1>2
<1>4. PICK replay, replayed :
        /\ replay = Replay("Transfer", before, txs, tokenID)
        /\ replayed = clientReplay(before, txs, tokenID)
  OBVIOUS
<1>5. SameOutcome(replay, replayed)
  BY <1>2, <1>4, SameReplay
<1>6. PICK received, got :
        /\ received = processReceiver(replay.states, commit.feeReceiver, tokenID, Total(Fees(txs)))
        /\ got = clientReceiver(replay.states, commit.feeReceiver, tokenID, Total(Fees(txs)))
  OBVIOUS
<1>7. SameOutcome(received, got)
  BY <1>6, SameReceiver
<1>8. CASE n > paramMaxTxsPerCommit
  <2>1. processCommit(before, commit).result = "TooManyTx"
    BY <1>1, <1>3, <1>8 DEF processCommit, Outcome
  <2>2. clientProcess(before, commit).result = "Thrown"
    BY <1>1, <1>3, <1>8, TransitionAssumption DEF clientProcess, Thrown, Outcome
  <2> QED
    BY <2>1, <2>2 DEF SameOutcome
<1>9. CASE ~(n > paramMaxTxsPerCommit)
  <2>1. Len(txs) \in 1 .. paramMaxTxsPerCommit /\ ~(Len(txs) > paramMaxTxsPerCommit)
    BY <1>3, <1>9, TransitionAssumption
  <2>2. /\ replay.result # "Ok" => processCommit(before, commit) = replay
        /\ replay.result = "Ok" /\ received.result # "Ok" =>
             processCommit(before, commit) = received
        /\ replay.result = "Ok" /\ received.result = "Ok" =>
             processCommit(before, commit) = Outcome("Ok", received.states)
    BY <1>1, <1>4, <1>6, <2>1 DEF processCommit, Then, Fees, CheckMigration
  <2>3. CASE txs[1].from \notin DOMAIN before
    <3>1. replay.result # "Ok"
      BY <1>2, <1>4, <2>3, FirstSender
    <3>2. clientProcess(before, commit).result = "Thrown"
      BY <1>1, <2>3 DEF clientProcess, Thrown, Outcome
    <3> QED
      BY <2>2, <3>1, <3>2 DEF SameOutcome
  <2>4. CASE txs[1].from \in DOMAIN before
    <3>1. tokenID = before[txs[1].from].tokenID
      BY <1>1, <1>3, <2>4 DEF CommitToken
    <3>2. clientProcess(before, commit)
            = IF replayed.result = "Ok"
              THEN clientReceiver(replayed.states, commit.feeReceiver, tokenID, Total(Fees(txs)))
              ELSE replayed
      BY <1>1, <1>4, <2>1, <2>4, <3>1 DEF clientProcess, Then, Fees
    <3>3. replay.result = "Ok" => clientProcess(before, commit) = got
      BY <1>5, <1>6, <3>2 DEF SameOutcome
    <3>4. replay.result # "Ok" => clientProcess(before, commit).result # "Ok"
      BY <1>5, <3>2 DEF SameOutcome
    <3> QED
      BY <1>7, <2>2, <3>3, <3>4 DEF SameOutcome, Outcome
  <2> QED
    BY <2>3, <2>4
<1> QED
  BY <1>8, <1>9

LEMMA TypeGivesAgreement == TypeOK => NodeAgrees
<1> SUFFICES ASSUME TypeOK, NEW commit \in TransferCommits("Transfer", Transfers),
                    commit.txs # <<>>
             PROVE  SameOutcome(processCommit(states, commit), clientProcess(states, commit))
  BY DEF NodeAgrees, SameOutcome
<1>1. commit \in Commits /\ commit.kind = "Transfer"
  BY DEF Commits, TransferCommits
<1>2. PICK n \in Nat : IsCommit(commit, n)
  BY <1>1, CommitType
<1>3. n # 0
  <2> SUFFICES ASSUME n = 0 PROVE FALSE
    OBVIOUS
  <2>1. commit.txs \in [1 .. 0 -> Tx]
    BY <1>2 DEF IsCommit
  <2>2. 1 .. 0 = {}
    OBVIOUS
  <2>3. commit.txs = <<>>
    BY <2>1, <2>2
  <2> QED
    BY <2>3
<1> QED
  BY <1>1, <1>2, <1>3, StatesType, SameCommit

\* The node accepts a transfer commitment with transactions exactly when it
\* cannot be disputed, and computes the same states (features/transfer.ts).
THEOREM NodeAgreesWithL1 == Spec => []NodeAgrees
BY TypesHold, TypeGivesAgreement, PTL

(***************************************************************************)
(* The client's tree: step by step it does what the contract does with the *)
(* proofs it has made.                                                     *)
(***************************************************************************)
ProofRecords == [id : StateIDs, state : State \cup {ZERO_STATE}]
ClientTrees == [states : StateMaps, proofs : Seq(ProofRecords), safe : BOOLEAN]

\* The leaves that proofs are for.
Ids(proofs) == [i \in DOMAIN proofs |-> proofs[i].id]

LEMMA UpdateType ==
  ASSUME NEW before \in StateMaps, NEW id \in StateIDs, NEW state \in State
  PROVE  /\ updateState(before, id, state) \in StateMaps
         /\ id \in DOMAIN before =>
              updateState(before, id, state) = [before EXCEPT ![id] = state]
<1> DEFINE after == [i \in DOMAIN before \cup {id} |-> IF i = id THEN state ELSE before[i]]
<1>1. DOMAIN after \subseteq StateIDs
  BY StateMapType
<1>2. after \in [DOMAIN after -> State]
  BY LeafType
<1>3. id \in DOMAIN before => after = [before EXCEPT ![id] = state]
  <2>1. before = [i \in DOMAIN before |-> before[i]]
    BY StateMapType
  <2> QED
    BY <2>1
<1> HIDE DEF after
<1>4. after \in StateMaps
  BY <1>1, <1>2, StateMapType
<1> QED
  BY <1>3, <1>4 DEF updateState, after

LEMMA ProofType ==
  ASSUME NEW before \in StateMaps, NEW id \in StateIDs
  PROVE  /\ getState(before, id) \in ProofRecords
         /\ getState(before, id).id = id
BY LeafType DEF getState, ProofRecords

\* What a step leaves: the new state, and a proof of the old one.
IsUpdated(done, tree, id, state) ==
  /\ done \in ClientTrees
  /\ done.states = updateState(tree.states, id, state)
  /\ done.proofs = Append(tree.proofs, getState(tree.states, id))
  /\ done.safe = tree.safe

LEMMA ProofThenUpdate ==
  ASSUME NEW tree \in ClientTrees, NEW id \in StateIDs, NEW state \in State, NEW done,
         done = getProofAndUpdate(tree, id, state)
  PROVE  IsUpdated(done, tree, id, state)
<1>1. /\ tree.states \in StateMaps /\ tree.proofs \in Seq(ProofRecords)
      /\ tree.safe \in BOOLEAN
  BY DEF ClientTrees
<1>2. PICK new, proof : /\ new = updateState(tree.states, id, state)
                        /\ proof = getState(tree.states, id)
  OBVIOUS
<1>3. new \in StateMaps
  BY <1>1, <1>2, UpdateType
<1>4. proof \in ProofRecords
  BY <1>1, <1>2, ProofType
<1>5. Append(tree.proofs, proof) \in Seq(ProofRecords)
  BY <1>1, <1>4
<1>6. done = [tree EXCEPT !.states = new, !.proofs = Append(tree.proofs, proof)]
  BY <1>2 DEF getProofAndUpdate
<1>7. /\ done.states = new /\ done.proofs = Append(tree.proofs, proof)
      /\ done.safe = tree.safe /\ done \in ClientTrees
  BY <1>3, <1>5, <1>6 DEF ClientTrees
<1> QED
  BY <1>2, <1>7 DEF IsUpdated

LEMMA RaisedType ==
  ASSUME NEW tree \in ClientTrees
  PROVE  Raised(tree) \in ClientTrees /\ ~Raised(tree).safe
BY DEF Raised, ClientTrees

\* A step of the tree ends well when the contract's does, with its states, and
\* proves the state of the leaf before it.
Follows(done, tree, contract, id) ==
  /\ done \in ClientTrees
  /\ done.safe <=> contract.result = "Ok"
  /\ done.safe => /\ done.states = contract.states
                  /\ done.proofs = Append(tree.proofs, getState(tree.states, id))

LEMMA SenderFollows ==
  ASSUME NEW tree \in ClientTrees, tree.safe, NEW id, NEW tokenID,
         NEW amount \in Nat, NEW fee \in Nat
  PROVE  Follows(treeSender(tree, id, tokenID, amount, fee), tree,
                 processSender(tree.states, id, tokenID, amount, fee), id)
<1> DEFINE before == tree.states
           done == treeSender(tree, id, tokenID, amount, fee)
           contract == processSender(before, id, tokenID, amount, fee)
           refused == \/ id \notin DOMAIN before \/ amount = 0
                      \/ before[id].balance < amount + fee \/ before[id].tokenID # tokenID
<1>1. before \in StateMaps
  BY DEF ClientTrees
<1>2. CASE refused
  <2>1. done = Raised(tree)
    BY <1>2 DEF treeSender
  <2>2. contract.result # "Ok"
    BY <1>2 DEF processSender, Then, Outcome, validateSender
  <2> QED
    BY <2>1, <2>2, RaisedType DEF Follows
<1>3. CASE ~refused
  <2> DEFINE new == ApplySender(before[id], amount, fee)
  <2>1. /\ contract.result = "Ok"
        /\ contract.states = [before EXCEPT ![id] = ApplySender(@, amount, fee)]
    BY <1>3 DEF processSender, Then, Outcome, validateSender
  <2>2. done = getProofAndUpdate(tree, id, new)
    BY <1>3 DEF treeSender
  <2>3. id \in StateIDs /\ before[id] \in State /\ before[id].balance \in Nat
    BY <1>1, <1>3, LeafType
  <2>4. contract.states \in StateMaps
    <3>1. before[id].balance >= amount + fee
      BY <1>3, <2>3
    <3>2. Changes(before, [before EXCEPT ![id] = ApplySender(@, amount, fee)],
                  id, tokenID, -(amount + fee), 1)
      BY <1>1, <1>3, <3>1, SenderPays
    <3> HIDE DEF contract
    <3> QED
      BY <2>1, <3>2 DEF Changes
  <2>5. new \in State
    <3>1. contract.states[id] = new /\ id \in DOMAIN contract.states
      BY <1>3, <2>1
    <3> QED
      BY <2>4, <3>1, LeafType
  <2>6. [before EXCEPT ![id] = ApplySender(@, amount, fee)] = [before EXCEPT ![id] = new]
    OBVIOUS
  <2> HIDE DEF new, done, contract
  <2>7. /\ done \in ClientTrees
        /\ done.states = updateState(before, id, new)
        /\ done.proofs = Append(tree.proofs, getState(before, id)) /\ done.safe = tree.safe
    <3>1. IsUpdated(done, tree, id, new)
      BY <2>2, <2>3, <2>5, ProofThenUpdate
    <3> QED
      BY <3>1 DEF IsUpdated
  <2>8. done.states = contract.states
    <3>1. updateState(before, id, new) = [before EXCEPT ![id] = new]
      BY <1>1, <1>3, <2>3, <2>5, UpdateType
    <3> QED
      BY <2>1, <2>6, <2>7, <3>1 DEF new
  <2>9. done.safe
    BY <2>7
  <2>10. Follows(done, tree, contract, id)
    BY <2>1, <2>7, <2>8, <2>9 DEF Follows
  <2> QED
    BY <2>10 DEF done, contract
<1> QED
  BY <1>2, <1>3

LEMMA ReceiverFollows ==
  ASSUME NEW tree \in ClientTrees, tree.safe, NEW id, NEW tokenID, NEW amount \in Nat
  PROVE  Follows(treeReceiver(tree, id, amount, tokenID), tree,
                 processReceiver(tree.states, id, tokenID, amount), id)
<1> DEFINE before == tree.states
           done == treeReceiver(tree, id, amount, tokenID)
           contract == processReceiver(before, id, tokenID, amount)
           refused == id \notin DOMAIN before \/ before[id].tokenID # tokenID
<1>1. before \in StateMaps
  BY DEF ClientTrees
<1>2. CASE refused
  <2>1. done = Raised(tree)
    BY <1>2 DEF treeReceiver
  <2>2. contract.result # "Ok"
    BY <1>2 DEF processReceiver, Then, Outcome, validateReceiver
  <2> QED
    BY <2>1, <2>2, RaisedType DEF Follows
<1>3. CASE ~refused
  <2> DEFINE new == ApplyReceiver(before[id], amount)
  <2>1. /\ contract.result = "Ok"
        /\ contract.states = [before EXCEPT ![id] = ApplyReceiver(@, amount)]
    BY <1>3 DEF processReceiver, Then, Outcome, validateReceiver
  <2>2. done = getProofAndUpdate(tree, id, new)
    BY <1>3 DEF treeReceiver
  <2>3. id \in StateIDs /\ before[id] \in State
    BY <1>1, <1>3, LeafType
  <2>4. contract.states \in StateMaps
    <3>1. Changes(before, [before EXCEPT ![id] = ApplyReceiver(@, amount)],
                  id, tokenID, amount, 0)
      BY <1>1, <1>3, ReceiverGets
    <3> HIDE DEF contract
    <3> QED
      BY <2>1, <3>1 DEF Changes
  <2>5. new \in State
    <3>1. contract.states[id] = new /\ id \in DOMAIN contract.states
      BY <1>3, <2>1
    <3> QED
      BY <2>4, <3>1, LeafType
  <2>6. [before EXCEPT ![id] = ApplyReceiver(@, amount)] = [before EXCEPT ![id] = new]
    OBVIOUS
  <2> HIDE DEF new, done, contract
  <2>7. /\ done \in ClientTrees
        /\ done.states = updateState(before, id, new)
        /\ done.proofs = Append(tree.proofs, getState(before, id)) /\ done.safe = tree.safe
    <3>1. IsUpdated(done, tree, id, new)
      BY <2>2, <2>3, <2>5, ProofThenUpdate
    <3> QED
      BY <3>1 DEF IsUpdated
  <2>8. done.states = contract.states
    <3>1. updateState(before, id, new) = [before EXCEPT ![id] = new]
      BY <1>1, <1>3, <2>3, <2>5, UpdateType
    <3> QED
      BY <2>1, <2>6, <2>7, <3>1 DEF new
  <2>9. done.safe
    BY <2>7
  <2>10. Follows(done, tree, contract, id)
    BY <2>1, <2>7, <2>8, <2>9 DEF Follows
  <2> QED
    BY <2>10 DEF done, contract
<1> QED
  BY <1>2, <1>3

LEMMA CreateFollows ==
  ASSUME NEW tree \in ClientTrees, tree.safe, NEW tx \in Tx, NEW tokenID \in TokenIDs
  PROVE  Follows(treeCreate(tree, tx.to, tx.toPubkeyID, tx.amount, tokenID), tree,
                 processCreate2TransferReceiver(tree.states, tx, tokenID), tx.to)
<1> DEFINE before == tree.states
           done == treeCreate(tree, tx.to, tx.toPubkeyID, tx.amount, tokenID)
           contract == processCreate2TransferReceiver(before, tx, tokenID)
           new == createState(tx.toPubkeyID, tokenID, tx.amount)
<1>1. tx.to \in StateIDs /\ new \in State
  BY DEF Tx, createState, State
<1>2. CASE tx.to \in DOMAIN before
  <2>1. done = Raised(tree)
    BY <1>2 DEF treeCreate
  <2>2. contract.result # "Ok"
    BY <1>2 DEF processCreate2TransferReceiver, EmptyLeaf, Outcome
  <2> QED
    BY <2>1, <2>2, RaisedType DEF Follows
<1>3. CASE tx.to \notin DOMAIN before
  <2>1. contract.result = "Ok" /\ contract.states = updateState(before, tx.to, new)
    BY <1>1, <1>3 DEF processCreate2TransferReceiver, EmptyLeaf, Outcome, updateState
  <2>2. PICK to : to = tx.to
    OBVIOUS
  <2>3. done = getProofAndUpdate(tree, to, new)
    BY <1>3, <2>2 DEF treeCreate
  <2> HIDE DEF new, done, contract
  <2>4. to \in StateIDs
    BY <1>1, <2>2
  <2>5. /\ done \in ClientTrees
        /\ done.states = updateState(before, to, new)
        /\ done.proofs = Append(tree.proofs, getState(before, to)) /\ done.safe = tree.safe
    <3>1. IsUpdated(done, tree, to, new)
      BY <1>1, <2>3, <2>4, ProofThenUpdate
    <3> QED
      BY <3>1 DEF IsUpdated
  <2>6. Follows(done, tree, contract, tx.to)
    BY <2>1, <2>2, <2>5 DEF Follows
  <2> QED
    BY <2>6 DEF done, contract
<1> QED
  BY <1>2, <1>3

\* A transaction has a proof for each leaf it reads.
PerTx(kind) == IF kind = "MassMigration" THEN 1 ELSE 2
LeavesOf(kind, tx) == IF kind = "MassMigration" THEN <<tx.from>> ELSE <<tx.from, tx.to>>

LEMMA IdsAppend ==
  ASSUME NEW proofs \in Seq(ProofRecords), NEW proof \in ProofRecords
  PROVE  /\ Ids(proofs) \in Seq(StateIDs) /\ Len(Ids(proofs)) = Len(proofs)
         /\ Ids(Append(proofs, proof)) = Append(Ids(proofs), proof.id)
         /\ Append(proofs, proof) \in Seq(ProofRecords)
         /\ Len(Append(proofs, proof)) = Len(proofs) + 1
         /\ Append(proofs, proof)[Len(proofs) + 1] = proof
         /\ \A i \in 1 .. Len(proofs) : Append(proofs, proof)[i] = proofs[i]
<1>1. PICK n \in Nat : n = Len(proofs)
  OBVIOUS
<1>2. DOMAIN proofs = 1 .. n /\ \A i \in 1 .. n : proofs[i] \in ProofRecords
  BY <1>1
<1>3. \A p \in ProofRecords : p.id \in StateIDs
  BY DEF ProofRecords
<1>4. PICK new : new = Append(proofs, proof)
  OBVIOUS
<1>5. /\ new \in Seq(ProofRecords) /\ Len(new) = n + 1 /\ new[n + 1] = proof
      /\ \A i \in 1 .. n : new[i] = proofs[i]
      /\ DOMAIN new = 1 .. n + 1
  BY <1>1, <1>4
<1>6. Ids(proofs) = [i \in 1 .. n |-> proofs[i].id]
  BY <1>2 DEF Ids
<1>7. Ids(proofs) \in Seq(StateIDs) /\ Len(Ids(proofs)) = n
  BY <1>2, <1>3, <1>6
<1>8. Ids(new) = [i \in 1 .. n + 1 |-> new[i].id]
  BY <1>5 DEF Ids
<1>9. Append(Ids(proofs), proof.id) = [i \in 1 .. n + 1 |-> new[i].id]
  <2>1. PICK old, appended : old = Ids(proofs) /\ appended = Append(old, proof.id)
    OBVIOUS
  <2>2. /\ old \in Seq(StateIDs) /\ Len(old) = n /\ proof.id \in StateIDs
        /\ \A i \in 1 .. n : old[i] = proofs[i].id
    BY <1>3, <1>6, <1>7, <2>1
  <2>3. /\ appended \in Seq(StateIDs) /\ Len(appended) = n + 1
        /\ appended[n + 1] = proof.id
        /\ \A i \in 1 .. n : appended[i] = old[i]
    BY <2>1, <2>2
  <2>4. appended = [i \in 1 .. n + 1 |-> appended[i]]
    BY <2>3
  <2>5. \A i \in 1 .. n + 1 : appended[i] = new[i].id
    <3> TAKE i \in 1 .. n + 1
    <3>1. i = n + 1 \/ i \in 1 .. n
      OBVIOUS
    <3> QED
      BY <1>5, <2>2, <2>3, <3>1
  <2>6. [i \in 1 .. n + 1 |-> appended[i]] = [i \in 1 .. n + 1 |-> new[i].id]
    BY <2>5
  <2> QED
    BY <2>1, <2>4, <2>6
<1> QED
  BY <1>1, <1>4, <1>5, <1>7, <1>8, <1>9

\* The proofs of a transaction: of the leaves it reads, the sender first.
Proves(done, tree, kind, tx) ==
  /\ Len(done.proofs) = Len(tree.proofs) + PerTx(kind)
  /\ Ids(done.proofs) = Ids(tree.proofs) \o LeavesOf(kind, tx)
  /\ \A i \in 1 .. Len(tree.proofs) : done.proofs[i] = tree.proofs[i]
  /\ done.proofs[Len(tree.proofs) + 1] = getState(tree.states, tx.from)
Proved(done, tree, id) == done.proofs = Append(tree.proofs, getState(tree.states, id))

\* A transaction of the tree ends well when the contract's does, with its
\* states, and proves the leaves it reads.
TxFollows(done, tree, contract, kind, tx) ==
  /\ done \in ClientTrees
  /\ done.safe <=> contract.result = "Ok"
  /\ done.safe => done.states = contract.states /\ Proves(done, tree, kind, tx)

LEMMA OneProof ==
  ASSUME NEW kind, kind = "MassMigration", NEW tree \in ClientTrees, NEW tx \in Tx,
         NEW done \in ClientTrees, Proved(done, tree, tx.from)
  PROVE  Proves(done, tree, kind, tx)
<1>1. PICK proofs, proof, ids, from :
        /\ proofs = tree.proofs /\ proof = getState(tree.states, tx.from)
        /\ ids = Ids(tree.proofs) /\ from = tx.from
  OBVIOUS
<1>2. proofs \in Seq(ProofRecords) /\ tree.states \in StateMaps /\ from \in StateIDs
  BY <1>1 DEF ClientTrees, Tx
<1>3. proof \in ProofRecords /\ proof.id = from
  BY <1>1, <1>2, ProofType
<1>4. /\ ids \in Seq(StateIDs) /\ Ids(done.proofs) = Append(ids, from)
      /\ Len(done.proofs) = Len(proofs) + 1
      /\ done.proofs[Len(proofs) + 1] = proof
      /\ \A i \in 1 .. Len(proofs) : done.proofs[i] = proofs[i]
  BY <1>1, <1>2, <1>3, IdsAppend DEF Proved
<1>5. Append(ids, from) = ids \o <<from>>
  BY <1>2, <1>4
<1> QED
  BY <1>1, <1>4, <1>5 DEF PerTx, LeavesOf, Proves

LEMMA TwoProofs ==
  ASSUME NEW kind, kind # "MassMigration", NEW tree \in ClientTrees, NEW tx \in Tx,
         NEW sent \in ClientTrees, NEW done \in ClientTrees,
         Proved(sent, tree, tx.from), Proved(done, sent, tx.to)
  PROVE  Proves(done, tree, kind, tx)
<1>1. PICK proofs, first, second, ids, from, to :
        /\ proofs = tree.proofs /\ first = getState(tree.states, tx.from)
        /\ second = getState(sent.states, tx.to)
        /\ ids = Ids(tree.proofs) /\ from = tx.from /\ to = tx.to
  OBVIOUS
<1>2. /\ proofs \in Seq(ProofRecords) /\ tree.states \in StateMaps
      /\ sent.states \in StateMaps /\ from \in StateIDs /\ to \in StateIDs
  BY <1>1 DEF ClientTrees, Tx
<1>3. first \in ProofRecords /\ first.id = from
  BY <1>1, <1>2, ProofType
<1>4. second \in ProofRecords /\ second.id = to
  BY <1>1, <1>2, ProofType
<1>5. PICK between : between = Append(proofs, first)
  OBVIOUS
<1>6. /\ ids \in Seq(StateIDs) /\ Ids(between) = Append(ids, from)
      /\ between \in Seq(ProofRecords) /\ Len(between) = Len(proofs) + 1
      /\ between[Len(proofs) + 1] = first
      /\ \A i \in 1 .. Len(proofs) : between[i] = proofs[i]
  BY <1>1, <1>2, <1>3, <1>5, IdsAppend
<1>7. done.proofs = Append(between, second)
  BY <1>1, <1>5 DEF Proved
<1>8. /\ Ids(done.proofs) = Append(Ids(between), to)
      /\ Len(done.proofs) = Len(between) + 1
      /\ \A i \in 1 .. Len(between) : done.proofs[i] = between[i]
  BY <1>4, <1>6, <1>7, IdsAppend
<1>9. Append(Append(ids, from), to) = ids \o <<from, to>>
  BY <1>2, <1>6
<1>10. Len(proofs) \in Nat
  BY <1>2
<1>11. Len(done.proofs) = Len(proofs) + 2
  BY <1>6, <1>8, <1>10
<1>12. /\ \A i \in 1 .. Len(proofs) : done.proofs[i] = proofs[i]
       /\ done.proofs[Len(proofs) + 1] = first
  BY <1>6, <1>8, <1>10
<1> QED
  BY <1>1, <1>6, <1>8, <1>9, <1>11, <1>12 DEF PerTx, LeavesOf, Proves

LEMMA TreeTxFollows ==
  ASSUME NEW kind \in Kinds, NEW tree \in ClientTrees, tree.safe,
         NEW tx \in Tx, NEW tokenID \in TokenIDs
  PROVE  TxFollows(treeTx(kind, tree, tx, tokenID), tree,
                   processTx(kind, tree.states, tx, tokenID), kind, tx)
<1>1. tx.amount \in Nat /\ tx.fee \in Nat
  BY DEF Tx
<1>2. PICK sent, paid, end, contract :
        /\ sent = treeSender(tree, tx.from, tokenID, tx.amount, tx.fee)
        /\ paid = processSender(tree.states, tx.from, tokenID, tx.amount, tx.fee)
        /\ end = treeTx(kind, tree, tx, tokenID)
        /\ contract = processTx(kind, tree.states, tx, tokenID)
  OBVIOUS
<1>3. Follows(sent, tree, paid, tx.from)
  BY <1>1, <1>2, SenderFollows
<1>4. sent \in ClientTrees /\ (sent.safe <=> paid.result = "Ok")
  BY <1>3 DEF Follows
<1>5. tree.proofs \in Seq(ProofRecords)
  BY DEF ClientTrees
<1>6. ASSUME NEW done \in ClientTrees, ~done.safe, contract.result # "Ok",
             end = IF done.safe THEN done ELSE [done EXCEPT !.proofs = tree.proofs]
      PROVE  TxFollows(end, tree, contract, kind, tx)
  <2>1. end = [done EXCEPT !.proofs = tree.proofs]
    BY <1>6
  <2>2. end \in ClientTrees /\ ~end.safe
    BY <1>5, <1>6, <2>1 DEF ClientTrees
  <2> QED
    BY <1>6, <2>2 DEF TxFollows
<1>7. CASE ~sent.safe
  <2>1. contract = paid
    BY <1>2, <1>4, <1>7 DEF processTx, Then
  <2>2. end = IF sent.safe THEN sent ELSE [sent EXCEPT !.proofs = tree.proofs]
    BY <1>2, <1>7 DEF treeTx
  <2>3. TxFollows(end, tree, contract, kind, tx)
    BY <1>4, <1>6, <1>7, <2>1, <2>2
  <2> QED
    BY <1>2, <2>3
<1>8. CASE sent.safe
  <2>1. paid.result = "Ok" /\ sent.states = paid.states /\ Proved(sent, tree, tx.from)
    BY <1>3, <1>8 DEF Follows, Proved
  <2>2. CASE kind = "MassMigration"
    <3>1. contract = Outcome("Ok", sent.states)
      BY <1>2, <2>1, <2>2 DEF processTx, Then
    <3>2. end = sent
      BY <1>2, <1>8, <2>2 DEF treeTx
    <3>3. TxFollows(sent, tree, contract, kind, tx)
      BY <1>4, <1>8, <2>1, <2>2, <3>1, OneProof DEF TxFollows, Outcome
    <3> QED
      BY <1>2, <3>2, <3>3
  <2>3. ASSUME NEW done, Follows(done, sent, contract, tx.to), kind # "MassMigration",
               end = IF done.safe THEN done ELSE [done EXCEPT !.proofs = tree.proofs]
        PROVE  TxFollows(end, tree, contract, kind, tx)
    <3>1. done \in ClientTrees /\ (done.safe <=> contract.result = "Ok")
      BY <2>3 DEF Follows
    <3>2. CASE ~done.safe
      BY <1>6, <2>3, <3>1, <3>2
    <3>3. CASE done.safe
      <4>1. done.states = contract.states /\ Proved(done, sent, tx.to)
        BY <2>3, <3>3 DEF Follows, Proved
      <4>2. end = done
        BY <2>3, <3>3
      <4>3. Proves(done, tree, kind, tx)
        BY <1>4, <2>1, <2>3, <3>1, <4>1, TwoProofs
      <4> QED
        BY <3>1, <4>1, <4>2, <4>3 DEF TxFollows
    <3> QED
      BY <3>2, <3>3
  <2>4. CASE kind = "Transfer"
    <3>1. PICK done : done = treeReceiver(sent, tx.to, tx.amount, tokenID)
      OBVIOUS
    <3>2. contract = processReceiver(sent.states, tx.to, tokenID, tx.amount)
      BY <1>2, <2>1, <2>4 DEF processTx, Then
    <3>3. end = IF done.safe THEN done ELSE [done EXCEPT !.proofs = tree.proofs]
      BY <1>2, <1>8, <2>4, <3>1 DEF treeTx
    <3>4. Follows(done, sent, contract, tx.to)
      BY <1>1, <1>4, <1>8, <3>1, <3>2, ReceiverFollows
    <3>5. TxFollows(end, tree, contract, kind, tx)
      BY <2>3, <2>4, <3>3, <3>4
    <3> QED
      BY <1>2, <3>5
  <2>5. CASE kind = "Create2Transfer"
    <3>1. PICK done : done = treeCreate(sent, tx.to, tx.toPubkeyID, tx.amount, tokenID)
      OBVIOUS
    <3>2. contract = processCreate2TransferReceiver(sent.states, tx, tokenID)
      BY <1>2, <2>1, <2>5 DEF processTx, Then
    <3>3. end = IF done.safe THEN done ELSE [done EXCEPT !.proofs = tree.proofs]
      BY <1>2, <1>8, <2>5, <3>1 DEF treeTx
    <3>4. Follows(done, sent, contract, tx.to)
      BY <1>4, <1>8, <3>1, <3>2, CreateFollows
    <3>5. TxFollows(end, tree, contract, kind, tx)
      BY <2>3, <2>5, <3>3, <3>4
    <3> QED
      BY <1>2, <3>5
  <2> QED
    BY <2>2, <2>4, <2>5 DEF Kinds
<1> QED
  BY <1>7, <1>8

(***************************************************************************)
(* The transactions of a commitment, applied to the client's tree.         *)
(***************************************************************************)
Untouched(before) == Tree(before, <<>>, TRUE)
appliedTx(kind, tree, tx, tokenID) ==
  IF tree.safe THEN treeTx(kind, tree, tx, tokenID) ELSE tree
applied(kind, before, txs, tokenID) ==
  FoldLeft(LAMBDA tree, tx : appliedTx(kind, tree, tx, tokenID), Untouched(before), txs)

IsApplied(run, kind, before, n, txs, tokenID) ==
  /\ run[0] = Untouched(before)
  /\ \A k \in 1 .. n :
       run[k] = appliedTx(kind, run[k - 1], txs[k], tokenID)
  /\ \A k \in 0 .. n : run[k] \in ClientTrees

LEMMA UntouchedIs ==
  ASSUME NEW before \in StateMaps
  PROVE  /\ Untouched(before) \in ClientTrees
         /\ Untouched(before).states = before /\ Untouched(before).safe
         /\ Untouched(before).proofs = <<>>
BY DEF Untouched, Tree, ClientTrees

LEMMA AppliedType ==
  ASSUME NEW kind \in Kinds, NEW tree \in ClientTrees, NEW tx \in Tx,
         NEW tokenID \in TokenIDs
  PROVE  appliedTx(kind, tree, tx, tokenID) \in ClientTrees
BY TreeTxFollows DEF appliedTx, TxFollows

LEMMA AppliedRuns ==
  ASSUME NEW kind \in Kinds, NEW before \in StateMaps, NEW tokenID \in TokenIDs,
         NEW n \in Nat, NEW txs \in [1 .. n -> Tx]
  PROVE  \E run : /\ IsApplied(run, kind, before, n, txs, tokenID)
                  /\ applied(kind, before, txs, tokenID) = run[n]
<1> DEFINE S == 1 .. n
           applies(iter) == iter = [s \in SUBSET S |->
             IF s = {} THEN Untouched(before)
             ELSE appliedTx(kind, iter[s \ {Max(s)}], txs[Max(s)], tokenID)]
           apply == CHOOSE iter : applies(iter)
<1>1. \A s \in SUBSET S : s # {} => Max(s) \in s
  BY LastChooses
<1>2. \E iter : applies(iter)
  <2> DEFINE base == Untouched(before)
             step == [i \in S |-> [t \in ClientTrees |->
                        appliedTx(kind, t, txs[i], tokenID)]]
  <2>1. \A i \in 1 .. n, t \in ClientTrees :
          /\ step[i][t] = appliedTx(kind, t, txs[i], tokenID)
          /\ step[i][t] \in ClientTrees
    <3> TAKE i \in 1 .. n, t \in ClientTrees
    <3>1. step[i][t] = appliedTx(kind, t, txs[i], tokenID)
      OBVIOUS
    <3>2. appliedTx(kind, t, txs[i], tokenID) \in ClientTrees
      <4>1. txs[i] \in Tx
        OBVIOUS
      <4> QED
        BY <4>1, AppliedType
    <3> HIDE DEF step
    <3> QED
      BY <3>1, <3>2
  <2> HIDE DEF step
  <2>2. base \in ClientTrees
    BY UntouchedIs
  <2> HIDE DEF base
  <2>3. PICK iter : /\ IsSequenceFold(iter, n, base, step)
                    /\ \A s \in SUBSET (1 .. n) : iter[s] \in ClientTrees
    <3>1. \A i \in 1 .. n, t \in ClientTrees : step[i][t] \in ClientTrees
      BY <2>1
    <3> QED
      BY <2>2, <3>1, SequenceFold
  <2>4. ASSUME NEW s \in SUBSET S
        PROVE  iter[s] = IF s = {} THEN base
                         ELSE appliedTx(kind, iter[s \ {Max(s)}], txs[Max(s)], tokenID)
    <3>1. iter[s] = IF s = {} THEN base ELSE step[Max(s)][iter[s \ {Max(s)}]]
      BY <2>3 DEF IsSequenceFold
    <3>2. s # {} => Max(s) \in 1 .. n /\ iter[s \ {Max(s)}] \in ClientTrees
      BY <1>1, <2>3
    <3> QED
      BY <2>1, <3>1, <3>2
  <2>5. iter = [s \in SUBSET S |-> iter[s]]
    BY <2>3 DEF IsSequenceFold
  <2> HIDE DEF S
  <2>6. applies(iter)
    BY <2>4, <2>5 DEF base
  <2> QED
    BY <2>6
<1>3. applies(apply)
  <2> HIDE DEF applies
  <2> QED
    BY <1>2
<1>4. applied(kind, before, txs, tokenID) = apply[S]
  BY DEF applied, FoldLeft, MapThenFoldSet, Max
<1> HIDE DEF apply
<1> DEFINE run == [k \in 0 .. n |-> apply[1 .. k]]
<1>5. run[0] = Untouched(before)
  BY <1>3, RangesFromOne
<1>6. ASSUME NEW k \in 1 .. n
      PROVE  run[k] = appliedTx(kind, run[k - 1], txs[k], tokenID)
  <2>1. /\ 1 .. k \in SUBSET S /\ 1 .. k # {} /\ k - 1 \in 0 .. n /\ k \in 0 .. n
        /\ (1 .. k) \ {Max(1 .. k)} = 1 .. k - 1 /\ Max(1 .. k) = k
    BY RangesFromOne
  <2>2. run[k] = apply[1 .. k] /\ run[k - 1] = apply[1 .. k - 1]
    BY <2>1
  <2>3. apply[1 .. k] = appliedTx(kind, apply[1 .. k - 1], txs[k], tokenID)
    BY <1>3, <2>1
  <2> QED
    BY <2>2, <2>3
<1>7. run[n] = apply[S]
  OBVIOUS
<1> HIDE DEF run
<1>8. \A k \in 0 .. n : run[k] \in ClientTrees
  <2> DEFINE typed == {k \in 0 .. n : run[k] \in ClientTrees}
  <2>1. 0 \in typed
    BY <1>5, UntouchedIs
  <2>2. ASSUME NEW k \in typed \cap 0 .. n - 1 PROVE k + 1 \in typed
    <3>1. k + 1 \in 1 .. n /\ k + 1 \in 0 .. n /\ (k + 1) - 1 = k /\ txs[k + 1] \in Tx
      OBVIOUS
    <3>2. run[k + 1] = appliedTx(kind, run[k], txs[k + 1], tokenID)
      BY <1>6, <3>1
    <3> QED
      BY <3>1, <3>2, AppliedType
  <2> HIDE DEF typed
  <2>3. 0 .. n \subseteq typed
    BY <2>1, <2>2, NumbersUpTo
  <2> QED
    BY <2>3 DEF typed
<1>9. IsApplied(run, kind, before, n, txs, tokenID)
  BY <1>5, <1>6, <1>8 DEF IsApplied
<1> QED
  BY <1>4, <1>7, <1>9

\* The leaves that a commitment reads, transaction by transaction.
leavesRead(kind, txs) == FlattenSeq([i \in DOMAIN txs |-> LeavesOf(kind, txs[i])])

IsRead(run, kind, n, txs) ==
  /\ run[0] = <<>>
  /\ \A k \in 1 .. n : run[k] = run[k - 1] \o LeavesOf(kind, txs[k])

LEMMA LeavesRun ==
  ASSUME NEW kind, NEW n \in Nat \ {0}, NEW txs \in [1 .. n -> Tx]
  PROVE  \E run : IsRead(run, kind, n, txs) /\ leavesRead(kind, txs) = run[n]
<1> DEFINE S == 1 .. n
           seqs == [i \in S |-> LeavesOf(kind, txs[i])]
           flattens(f) == f = [i \in S |-> IF i = 1 THEN seqs[i] ELSE f[i - 1] \o seqs[i]]
           flatten == CHOOSE f : flattens(f)
<1>1. \A i \in 1 .. n : seqs[i] = LeavesOf(kind, txs[i]) /\ seqs[i] \in Seq(StateIDs)
  <2> TAKE i \in 1 .. n
  <2>1. txs[i].from \in StateIDs /\ txs[i].to \in StateIDs
    BY DEF Tx
  <2>2. LeavesOf(kind, txs[i]) \in Seq(StateIDs)
    BY <2>1 DEF LeavesOf
  <2> QED
    BY <2>2
<1>2. DOMAIN seqs = S /\ Len(seqs) = n
  OBVIOUS
<1>3. leavesRead(kind, txs) = flatten[n]
  BY <1>2 DEF leavesRead, FlattenSeq
<1> HIDE DEF seqs
<1>4. \E f : flattens(f)
  <2> DEFINE step == [i \in S |-> [a \in Seq(StateIDs) |-> a \o seqs[i]]]
  <2>1. \A i \in 1 .. n, a \in Seq(StateIDs) :
          step[i][a] = a \o seqs[i] /\ step[i][a] \in Seq(StateIDs)
    BY <1>1
  <2> HIDE DEF step
  <2>2. PICK iter : /\ IsSequenceFold(iter, n, <<>>, step)
                    /\ \A s \in SUBSET (1 .. n) : iter[s] \in Seq(StateIDs)
    <3>1. \A i \in 1 .. n, a \in Seq(StateIDs) : step[i][a] \in Seq(StateIDs)
      BY <2>1
    <3>2. <<>> \in Seq(StateIDs)
      OBVIOUS
    <3> QED
      BY <3>1, <3>2, SequenceFold
  <2> DEFINE f == [i \in S |-> iter[1 .. i]]
  <2>3. ASSUME NEW i \in S
        PROVE  f[i] = IF i = 1 THEN seqs[i] ELSE f[i - 1] \o seqs[i]
    <3>1. /\ 1 .. i \in SUBSET (1 .. n) /\ 1 .. i # {}
          /\ (1 .. i) \ {Max(1 .. i)} = 1 .. i - 1 /\ Max(1 .. i) = i
          /\ 1 .. i - 1 \in SUBSET (1 .. n)
      BY RangesFromOne
    <3>2. iter[1 .. i] = iter[1 .. i - 1] \o seqs[i]
      <4>1. iter[1 .. i] = step[i][iter[1 .. i - 1]]
        BY <2>2, <3>1 DEF IsSequenceFold
      <4>2. iter[1 .. i - 1] \in Seq(StateIDs)
        BY <2>2, <3>1
      <4> QED
        BY <2>1, <4>1, <4>2
    <3>3. CASE i = 1
      <4>1. 1 .. i - 1 = {}
        BY <3>3
      <4>2. iter[1 .. i - 1] = <<>>
        BY <2>2, <4>1 DEF IsSequenceFold
      <4>3. <<>> \o seqs[i] = seqs[i]
        BY <1>1
      <4> QED
        BY <3>2, <3>3, <4>2, <4>3
    <3>4. CASE i # 1
      <4>1. i - 1 \in S
        BY <3>4
      <4> QED
        BY <3>2, <3>4, <4>1
    <3> QED
      BY <3>3, <3>4
  <2>4. f = [i \in S |-> f[i]]
    OBVIOUS
  <2> HIDE DEF f
  <2>5. flattens(f)
    BY <2>3, <2>4
  <2> QED
    BY <2>5
<1>5. flattens(flatten)
  <2> HIDE DEF flattens
  <2> QED
    BY <1>4
<1> HIDE DEF flatten
<1> DEFINE run == [k \in 0 .. n |-> IF k = 0 THEN <<>> ELSE flatten[k]]
<1>6. ASSUME NEW k \in 1 .. n PROVE run[k] = run[k - 1] \o LeavesOf(kind, txs[k])
  <2>1. run[k] = flatten[k] /\ k - 1 \in 0 .. n
    OBVIOUS
  <2>2. flatten[k] = IF k = 1 THEN seqs[k] ELSE flatten[k - 1] \o seqs[k]
    BY <1>5
  <2>3. seqs[k] = LeavesOf(kind, txs[k]) /\ <<>> \o seqs[k] = seqs[k]
    BY <1>1
  <2>4. run[k - 1] = IF k = 1 THEN <<>> ELSE flatten[k - 1]
    BY <2>1
  <2> QED
    BY <2>1, <2>2, <2>3, <2>4
<1>7. run[0] = <<>> /\ run[n] = flatten[n]
  OBVIOUS
<1> HIDE DEF run
<1>8. IsRead(run, kind, n, txs)
  BY <1>6, <1>7 DEF IsRead
<1> QED
  BY <1>3, <1>7, <1>8

\* The place of the proof of the i-th transaction's sender.
PlaceOf(kind, i) == PerTx(kind) * (i - 1) + 1

LEMMA Places ==
  ASSUME NEW kind, NEW k \in Nat
  PROVE  /\ PerTx(kind) * k \in Nat
         /\ PerTx(kind) * (k + 1) = PerTx(kind) * k + PerTx(kind)
         /\ PlaceOf(kind, k + 1) = PerTx(kind) * k + 1
         /\ \A i \in 1 .. k : PlaceOf(kind, i) \in 1 .. PerTx(kind) * k
<1>1. CASE kind = "MassMigration"
  BY <1>1 DEF PerTx, PlaceOf
<1>2. CASE kind # "MassMigration"
  BY <1>2 DEF PerTx, PlaceOf
<1> QED
  BY <1>1, <1>2

\* The tree and the contract after k transactions.
Together(tree, contract, kind, k, read) ==
  /\ tree \in ClientTrees
  /\ tree.safe <=> contract.result = "Ok"
  /\ tree.safe => /\ tree.states = contract.states
                  /\ Len(tree.proofs) = PerTx(kind) * k
                  /\ Ids(tree.proofs) = read
\* The senders of the first k were proved in the states before them.
SendersProved(tree, run, kind, txs, k) ==
  tree.safe => \A i \in 1 .. k :
                 tree.proofs[PlaceOf(kind, i)] = getState(run[i - 1].states, txs[i].from)

LEMMA OneMoreTogether ==
  ASSUME NEW kind \in Kinds, NEW tokenID \in TokenIDs, NEW k \in Nat, NEW n \in Nat, k < n,
         NEW txs \in [1 .. n -> Tx], NEW tree, NEW run, NEW read,
         Together(tree, run[k], kind, k, read), SendersProved(tree, run, kind, txs, k),
         run[k + 1] = IF run[k].result = "Ok"
                      THEN processTx(kind, run[k].states, txs[k + 1], tokenID) ELSE run[k],
         NEW next, next = appliedTx(kind, tree, txs[k + 1], tokenID)
  PROVE  /\ Together(next, run[k + 1], kind, k + 1, read \o LeavesOf(kind, txs[k + 1]))
         /\ SendersProved(next, run, kind, txs, k + 1)
<1>1. tree \in ClientTrees /\ (tree.safe <=> run[k].result = "Ok")
  BY DEF Together
<1>2. CASE ~tree.safe
  <2>1. next = tree /\ run[k + 1] = run[k]
    BY <1>1, <1>2 DEF appliedTx
  <2> QED
    BY <1>1, <1>2, <2>1 DEF Together, SendersProved
<1>3. CASE tree.safe
  <2>1. PICK tx \in Tx : tx = txs[k + 1]
    OBVIOUS
  <2>2. /\ tree.states = run[k].states /\ Len(tree.proofs) = PerTx(kind) * k
        /\ Ids(tree.proofs) = read
    BY <1>3 DEF Together
  <2>3. next = treeTx(kind, tree, tx, tokenID)
    BY <1>3, <2>1 DEF appliedTx
  <2>4. run[k + 1] = processTx(kind, tree.states, tx, tokenID)
    BY <1>1, <1>3, <2>1, <2>2
  <2>5. TxFollows(next, tree, run[k + 1], kind, tx)
    BY <1>1, <1>3, <2>3, <2>4, TreeTxFollows
  <2>6. next \in ClientTrees /\ (next.safe <=> run[k + 1].result = "Ok")
    BY <2>5 DEF TxFollows
  <2>7. CASE ~next.safe
    BY <2>6, <2>7 DEF Together, SendersProved
  <2>8. CASE next.safe
    <3>1. next.states = run[k + 1].states /\ Proves(next, tree, kind, tx)
      BY <2>5, <2>8 DEF TxFollows
    <3>2. Len(next.proofs) = PerTx(kind) * (k + 1)
      BY <2>2, <3>1, Places DEF Proves
    <3>3. Ids(next.proofs) = read \o LeavesOf(kind, tx)
      BY <2>2, <3>1 DEF Proves
    <3>4. ASSUME NEW i \in 1 .. k + 1
          PROVE  next.proofs[PlaceOf(kind, i)] = getState(run[i - 1].states, txs[i].from)
      <4>1. CASE i = k + 1
        <5>1. PlaceOf(kind, i) = Len(tree.proofs) + 1 /\ i - 1 = k
          BY <2>2, <4>1, Places
        <5>2. next.proofs[Len(tree.proofs) + 1] = getState(tree.states, tx.from)
          BY <3>1 DEF Proves
        <5> QED
          BY <2>1, <2>2, <4>1, <5>1, <5>2
      <4>2. CASE i # k + 1
        <5>1. i \in 1 .. k
          BY <4>2
        <5>2. PlaceOf(kind, i) \in 1 .. Len(tree.proofs)
          BY <2>2, <5>1, Places
        <5>3. next.proofs[PlaceOf(kind, i)] = tree.proofs[PlaceOf(kind, i)]
          BY <3>1, <5>2 DEF Proves
        <5>4. tree.proofs[PlaceOf(kind, i)] = getState(run[i - 1].states, txs[i].from)
          BY <1>3, <5>1 DEF SendersProved
        <5> QED
          BY <5>3, <5>4
      <4> QED
        BY <4>1, <4>2
    <3>5. SendersProved(next, run, kind, txs, k + 1)
      BY <3>4 DEF SendersProved
    <3>6. Together(next, run[k + 1], kind, k + 1, read \o LeavesOf(kind, tx))
      BY <2>6, <3>1, <3>2, <3>3 DEF Together
    <3> QED
      BY <2>1, <3>5, <3>6
  <2> QED
    BY <2>7, <2>8
<1> QED
  BY <1>2, <1>3

\* By induction along the transactions.
LEMMA TreeTogether ==
  ASSUME NEW kind \in Kinds, NEW before \in StateMaps, NEW tokenID \in TokenIDs,
         NEW n \in Nat \ {0}, NEW txs \in [1 .. n -> Tx],
         NEW run, IsReplay(run, kind, before, n, txs, tokenID)
  PROVE  LET tree == applied(kind, before, txs, tokenID)
         IN  /\ Together(tree, run[n], kind, n, leavesRead(kind, txs))
             /\ SendersProved(tree, run, kind, txs, n)
<1>1. PICK trees : /\ IsApplied(trees, kind, before, n, txs, tokenID)
                   /\ applied(kind, before, txs, tokenID) = trees[n]
  BY AppliedRuns
<1>2. PICK read : IsRead(read, kind, n, txs) /\ leavesRead(kind, txs) = read[n]
  BY LeavesRun
<1> DEFINE good == {k \in 0 .. n : /\ Together(trees[k], run[k], kind, k, read[k])
                                   /\ SendersProved(trees[k], run, kind, txs, k)}
<1>3. 0 \in good
  <2>1. /\ trees[0] = Untouched(before) /\ run[0] = Outcome("Ok", before) /\ read[0] = <<>>
    BY <1>1, <1>2 DEF IsApplied, IsReplay, IsRead
  <2>2. PICK tree : tree = Untouched(before)
    OBVIOUS
  <2>3. tree \in ClientTrees /\ tree.states = before /\ tree.safe /\ tree.proofs = <<>>
    BY <2>2, UntouchedIs
  <2>4. run[0].result = "Ok" /\ run[0].states = before
    BY <2>1 DEF Outcome
  <2>5. Ids(<<>>) = <<>> /\ Len(<<>>) = 0 /\ PerTx(kind) * 0 = 0
    BY DEF Ids, PerTx
  <2>6. Together(tree, run[0], kind, 0, <<>>)
    BY <2>3, <2>4, <2>5 DEF Together
  <2>7. SendersProved(tree, run, kind, txs, 0)
    BY DEF SendersProved
  <2> QED
    BY <2>1, <2>2, <2>6, <2>7
<1>4. ASSUME NEW k \in good \cap 0 .. n - 1 PROVE k + 1 \in good
  <2>1. k \in Nat /\ k < n /\ k + 1 \in 1 .. n /\ k + 1 \in 0 .. n /\ (k + 1) - 1 = k
    OBVIOUS
  <2>2. run[k + 1] = IF run[k].result = "Ok"
                     THEN processTx(kind, run[k].states, txs[k + 1], tokenID) ELSE run[k]
    BY <2>1 DEF IsReplay
  <2>3. trees[k + 1] = appliedTx(kind, trees[k], txs[k + 1], tokenID)
    BY <1>1, <2>1 DEF IsApplied
  <2>4. read[k + 1] = read[k] \o LeavesOf(kind, txs[k + 1])
    BY <1>2, <2>1 DEF IsRead
  <2>5. /\ Together(trees[k], run[k], kind, k, read[k])
        /\ SendersProved(trees[k], run, kind, txs, k)
    OBVIOUS
  <2> HIDE DEF good
  <2>6. /\ Together(trees[k + 1], run[k + 1], kind, k + 1,
                    read[k] \o LeavesOf(kind, txs[k + 1]))
        /\ SendersProved(trees[k + 1], run, kind, txs, k + 1)
    BY <2>1, <2>2, <2>3, <2>5, OneMoreTogether
  <2> QED
    BY <2>1, <2>4, <2>6 DEF good
<1>5. n \in good
  <2> HIDE DEF good
  <2>1. 0 .. n \subseteq good
    BY <1>3, <1>4, NumbersUpTo
  <2> QED
    BY <2>1
<1> QED
  BY <1>1, <1>2, <1>5

\* The states after the first transactions are those of the replay.
IsReplayOf(run, commit, before, n, tokenID) ==
  /\ commit.kind \in Kinds /\ commit.txs \in [1 .. n -> Tx]
  /\ IsReplay(run, commit.kind, before, n, commit.txs, tokenID)

LEMMA StatesAreOfReplay ==
  ASSUME NEW before \in StateMaps, NEW tokenID, NEW n \in Nat, NEW commit,
         NEW run, IsReplayOf(run, commit, before, n, tokenID), NEW k \in 0 .. n
  PROVE  StatesAfter(before, commit, tokenID, k) = run[k].states
<1>1. PICK kind, txs, first : kind = commit.kind /\ txs = commit.txs /\ first = SubSeq(txs, 1, k)
  OBVIOUS
<1>2. kind \in Kinds /\ txs \in [1 .. n -> Tx] /\ IsReplay(run, kind, before, n, txs, tokenID)
  BY <1>1 DEF IsReplayOf
<1>3. first \in [1 .. k -> Tx] /\ \A i \in 1 .. k : first[i] = txs[i]
  <2>1. txs \in Seq(Tx) /\ Len(txs) = n
    BY <1>2
  <2>2. first \in Seq(Tx) /\ Len(first) = k /\ \A i \in 1 .. k : first[i] = txs[i]
    BY <1>1, <2>1
  <2> QED
    BY <2>2
<1>4. StatesAfter(before, commit, tokenID, k) = Replay(kind, before, first, tokenID).states
  BY <1>1 DEF StatesAfter, Replay
<1>5. PICK part : /\ IsReplay(part, kind, before, k, first, tokenID)
                  /\ Replay(kind, before, first, tokenID) = part[k]
  BY <1>2, <1>3, ReplayRuns
<1> DEFINE same == {i \in 0 .. k : part[i] = run[i]}
<1>6. 0 \in same
  BY <1>2, <1>5 DEF IsReplay
<1>7. ASSUME NEW i \in same \cap 0 .. k - 1 PROVE i + 1 \in same
  <2>1. i + 1 \in 1 .. k /\ i + 1 \in 1 .. n /\ (i + 1) - 1 = i
    OBVIOUS
  <2>2. part[i + 1] = IF part[i].result = "Ok"
                      THEN processTx(kind, part[i].states, first[i + 1], tokenID) ELSE part[i]
    BY <1>5, <2>1 DEF IsReplay
  <2>3. run[i + 1] = IF run[i].result = "Ok"
                     THEN processTx(kind, run[i].states, txs[i + 1], tokenID) ELSE run[i]
    BY <1>2, <2>1 DEF IsReplay
  <2>4. first[i + 1] = txs[i + 1] /\ part[i] = run[i]
    BY <1>3, <2>1
  <2> QED
    BY <2>1, <2>2, <2>3, <2>4
<1>8. k \in same
  <2> HIDE DEF same
  <2>1. 0 .. k \subseteq same
    BY <1>6, <1>7, NumbersUpTo
  <2> QED
    BY <2>1
<1> QED
  BY <1>4, <1>5, <1>8

(***************************************************************************)
(* A commitment made from the client's tree.                               *)
(***************************************************************************)
\* The senders of a mass migration that replays were there before it, with its
\* token.
SendersThere(before, after, txs, k, tokenID) ==
  /\ after \in StateMaps /\ Kept(before, after) /\ DOMAIN after = DOMAIN before
  /\ \A i \in 1 .. k : txs[i].from \in DOMAIN before /\ before[txs[i].from].tokenID = tokenID

LEMMA MigrationSenders ==
  ASSUME NEW before \in StateMaps, NEW tokenID, NEW n \in Nat, NEW txs \in [1 .. n -> Tx],
         NEW outcome, outcome = Replay("MassMigration", before, txs, tokenID),
         outcome.result = "Ok"
  PROVE  SendersThere(before, outcome.states, txs, n, tokenID)
<1>1. PICK run : /\ IsReplay(run, "MassMigration", before, n, txs, tokenID)
                 /\ Replay("MassMigration", before, txs, tokenID) = run[n]
  BY ReplayRuns DEF Kinds
<1> DEFINE good == {k \in 0 .. n : run[k].result = "Ok" =>
                      SendersThere(before, run[k].states, txs, k, tokenID)}
<1>2. 0 \in good
  <2>1. run[0].states = before
    BY <1>1 DEF IsReplay, Outcome
  <2> QED
    BY <2>1 DEF SendersThere, Kept
<1>3. ASSUME NEW k \in good \cap 0 .. n - 1 PROVE k + 1 \in good
  <2>1. k + 1 \in 1 .. n /\ k + 1 \in 0 .. n /\ (k + 1) - 1 = k /\ txs[k + 1] \in Tx
    OBVIOUS
  <2> SUFFICES ASSUME run[k + 1].result = "Ok"
               PROVE  SendersThere(before, run[k + 1].states, txs, k + 1, tokenID)
    BY <2>1
  <2>2. run[k + 1] = IF run[k].result = "Ok"
                     THEN processTx("MassMigration", run[k].states, txs[k + 1], tokenID)
                     ELSE run[k]
    BY <1>1, <2>1 DEF IsReplay
  <2>3. /\ run[k].result = "Ok"
        /\ run[k + 1] = processTx("MassMigration", run[k].states, txs[k + 1], tokenID)
    BY <2>2
  <2>4. SendersThere(before, run[k].states, txs, k, tokenID)
    BY <2>3
  <2> HIDE DEF good
  <2>5. PICK old, new, tx : old = run[k].states /\ new = run[k + 1].states /\ tx = txs[k + 1]
    OBVIOUS
  <2>6. tx \in Tx /\ tx.amount \in Nat /\ tx.fee \in Nat
    BY <2>1, <2>5 DEF Tx
  <2>7. /\ old \in StateMaps /\ Kept(before, old) /\ DOMAIN old = DOMAIN before
    BY <2>4, <2>5 DEF SendersThere
  <2>8. PICK sender : sender = processSender(old, tx.from, tokenID, tx.amount, tx.fee)
    OBVIOUS
  <2>9. sender.result = "Ok" /\ sender.states = new
    BY <2>3, <2>5, <2>8 DEF processTx, Then, Outcome
  <2>10. /\ tx.from \in DOMAIN old /\ old[tx.from].tokenID = tokenID
         /\ Changes(old, new, tx.from, tokenID, -(tx.amount + tx.fee), 1)
    <3>1. PICK from, amount, fee : from = tx.from /\ amount = tx.amount /\ fee = tx.fee
      OBVIOUS
    <3>2. amount \in Nat /\ fee \in Nat
      BY <2>6, <3>1
    <3>3. sender = processSender(old, from, tokenID, amount, fee)
      BY <2>8, <3>1
    <3>4. from \in DOMAIN old /\ old[from].tokenID = tokenID
      BY <2>9, <3>3 DEF processSender, Then, Outcome, validateSender
    <3>5. Changes(old, sender.states, from, tokenID, -(amount + fee), 1)
      BY <2>7, <2>9, <3>2, <3>3, SenderOk
    <3> QED
      BY <2>9, <3>1, <3>4, <3>5
  <2>11. new \in StateMaps /\ Kept(old, new) /\ DOMAIN new = DOMAIN old
    BY <2>10 DEF Changes
  <2>12. Kept(before, new)
    BY <2>7, <2>11, KeptTwice
  <2>13. tx.from \in DOMAIN before /\ before[tx.from].tokenID = tokenID
    BY <2>7, <2>10 DEF Kept
  <2>14. ASSUME NEW i \in 1 .. k + 1
         PROVE  txs[i].from \in DOMAIN before /\ before[txs[i].from].tokenID = tokenID
    <3>1. i = k + 1 \/ i \in 1 .. k
      OBVIOUS
    <3> QED
      BY <2>4, <2>5, <2>13, <3>1 DEF SendersThere
  <2> QED
    BY <2>5, <2>7, <2>11, <2>12, <2>14 DEF SendersThere
<1>4. n \in good
  <2> HIDE DEF good
  <2>1. 0 .. n \subseteq good
    BY <1>2, <1>3, NumbersUpTo
  <2> QED
    BY <2>1
<1> QED
  BY <1>1, <1>4

\* The replay, and the fees.
received(before, commit, tokenID) ==
  Then(Replay(commit.kind, before, commit.txs, tokenID),
       LAMBDA s : processReceiver(s, commit.feeReceiver, tokenID, Total(Fees(commit.txs))))

\* What the tree gives without an exception.
Generated(tree, contract, before, commit, tokenID) ==
  /\ tree.states = contract.states
  /\ Len(tree.proofs) = ExpectedProofs(commit)
  /\ Ids(tree.proofs) = StepsOf(commit)
  /\ \A i \in DOMAIN commit.txs : SenderProofHolds(before, commit, tokenID, tree.proofs, i)
  /\ FeeProofHolds(before, commit, tokenID, tree.proofs)

LEMMA ReplayedToken ==
  ASSUME NEW before \in StateMaps, NEW n \in Nat \ {0}, NEW commit, IsCommit(commit, n),
         CanGenerate(before, commit.txs)
  PROVE  /\ before[commit.txs[1].from].tokenID \in TokenIDs
         /\ DOMAIN commit.txs = 1 .. n /\ Len(commit.txs) = n /\ 1 \in 1 .. n
         /\ Total(Fees(commit.txs)) \in Nat
<1>1. commit.txs \in [1 .. n -> Tx]
  BY DEF IsCommit
<1>2. Total(Fees(commit.txs)) \in Nat
  <2>1. PICK txs, taken : txs = commit.txs /\ taken = [k \in 1 .. n |-> Taken(commit.kind, txs[k])]
    OBVIOUS
  <2>2. \A k \in 1 .. n : taken[k] = Taken(commit.kind, txs[k])
    BY <2>1
  <2>3. txs \in [1 .. n -> Tx]
    BY <1>1, <2>1
  <2>4. Total(Fees(txs)) \in Nat
    BY <2>2, <2>3, TotalsOfTxs
  <2> QED
    BY <2>1, <2>4
<1>3. commit.txs[1].from \in DOMAIN before
  BY DEF CanGenerate
<1> QED
  BY <1>1, <1>2, <1>3, LeafType

LEMMA GeneratedTree ==
  ASSUME NEW before, NEW commit
  PROVE  LET tokenID == before[commit.txs[1].from].tokenID
             done    == applied(commit.kind, before, commit.txs, tokenID)
         IN  generate(before, commit)
               = IF done.safe
                 THEN treeReceiver(done, commit.feeReceiver, Total(Fees(commit.txs)), tokenID)
                 ELSE done
BY DEF generate, applied, appliedTx, Untouched, Fees

LEMMA TreeGenerates ==
  ASSUME NEW before \in StateMaps, NEW n \in Nat \ {0}, NEW commit, IsCommit(commit, n),
         CanGenerate(before, commit.txs),
         NEW tokenID, tokenID = before[commit.txs[1].from].tokenID,
         NEW tree, tree = generate(before, commit),
         NEW contract, contract = received(before, commit, tokenID)
  PROVE  /\ tree.safe <=> contract.result = "Ok"
         /\ tree.safe => Generated(tree, contract, before, commit, tokenID)
<1>1. PICK kind, txs, fees, to :
        /\ kind = commit.kind /\ txs = commit.txs /\ fees = Total(Fees(txs))
        /\ to = commit.feeReceiver
  OBVIOUS
<1>2. /\ kind \in Kinds /\ txs \in [1 .. n -> Tx] /\ to \in StateIDs /\ tokenID \in TokenIDs
      /\ fees \in Nat /\ DOMAIN txs = 1 .. n /\ Len(txs) = n /\ 1 \in 1 .. n
  BY <1>1, ReplayedToken DEF IsCommit
<1>3. PICK run : /\ IsReplay(run, kind, before, n, txs, tokenID)
                 /\ Replay(kind, before, txs, tokenID) = run[n]
  BY <1>2, ReplayRuns
<1>4. PICK done, read : done = applied(kind, before, txs, tokenID) /\ read = leavesRead(kind, txs)
  OBVIOUS
<1>5. /\ Together(done, run[n], kind, n, read)
      /\ SendersProved(done, run, kind, txs, n)
  BY <1>2, <1>3, <1>4, TreeTogether
<1>6. tree = IF done.safe THEN treeReceiver(done, to, fees, tokenID) ELSE done
  BY <1>1, <1>4, GeneratedTree
<1>7. contract = IF run[n].result = "Ok" THEN processReceiver(run[n].states, to, tokenID, fees)
                 ELSE run[n]
  BY <1>1, <1>3 DEF received, Then
<1>8. done \in ClientTrees /\ (done.safe <=> run[n].result = "Ok")
  BY <1>5 DEF Together
<1>9. CASE ~done.safe
  BY <1>6, <1>7, <1>8, <1>9
<1>10. CASE done.safe
  <2>1. /\ done.states = run[n].states /\ Len(done.proofs) = PerTx(kind) * n
        /\ Ids(done.proofs) = read
    BY <1>5, <1>10 DEF Together
  <2>2. tree = treeReceiver(done, to, fees, tokenID)
    BY <1>6, <1>10
  <2>3. contract = processReceiver(done.states, to, tokenID, fees)
    BY <1>7, <1>8, <1>10, <2>1
  <2>4. Follows(tree, done, contract, to)
    BY <1>2, <1>8, <1>10, <2>2, <2>3, ReceiverFollows
  <2>5. CASE ~tree.safe
    BY <2>4, <2>5 DEF Follows
  <2>6. CASE tree.safe
    <3>1. PICK proofs, proof : proofs = done.proofs /\ proof = getState(done.states, to)
      OBVIOUS
    <3>2. /\ contract.result = "Ok" /\ tree.states = contract.states
          /\ tree.proofs = Append(proofs, proof)
      BY <2>4, <2>6, <3>1 DEF Follows
    <3>3. proofs \in Seq(ProofRecords) /\ done.states \in StateMaps
      BY <1>8, <3>1 DEF ClientTrees
    <3>4. proof \in ProofRecords /\ proof.id = to
      BY <1>2, <3>1, <3>3, ProofType
    <3>5. /\ Ids(proofs) \in Seq(StateIDs)
          /\ Ids(tree.proofs) = Append(Ids(proofs), to)
          /\ Len(tree.proofs) = Len(proofs) + 1
          /\ tree.proofs[Len(proofs) + 1] = proof
          /\ \A i \in 1 .. Len(proofs) : tree.proofs[i] = proofs[i]
      BY <3>2, <3>3, <3>4, IdsAppend
    <3>6. Len(tree.proofs) = ExpectedProofs(commit)
      BY <1>1, <1>2, <2>1, <3>1, <3>5 DEF ExpectedProofs, PerTx
    <3>7. Ids(tree.proofs) = StepsOf(commit)
      <4>1. Append(Ids(proofs), to) = Ids(proofs) \o <<to>>
        BY <1>2, <3>5
      <4>2. StepsOf(commit) = read \o <<to>>
        BY <1>1, <1>4 DEF StepsOf, leavesRead, LeavesOf
      <4> QED
        BY <2>1, <3>1, <3>5, <4>1, <4>2
    <3>8. ASSUME NEW k \in 0 .. n
          PROVE  StatesAfter(before, commit, tokenID, k) = run[k].states
      <4>1. IsReplayOf(run, commit, before, n, tokenID)
        BY <1>1, <1>2, <1>3 DEF IsReplayOf
      <4> QED
        BY <4>1, StatesAreOfReplay
    <3>9. ASSUME NEW i \in 1 .. n
          PROVE  SenderProofHolds(before, commit, tokenID, tree.proofs, i)
      <4>1. PlaceOf(kind, i) \in 1 .. Len(proofs)
        BY <2>1, <3>1, Places
      <4>2. tree.proofs[PlaceOf(kind, i)] = getState(run[i - 1].states, txs[i].from)
        BY <1>5, <1>10, <3>1, <3>5, <4>1 DEF SendersProved
      <4>3. StatesAfter(before, commit, tokenID, i - 1) = run[i - 1].states
        BY <3>8
      <4> QED
        BY <1>1, <4>2, <4>3 DEF SenderProofHolds, PlaceOf, PerTx
    <3>10. FeeProofHolds(before, commit, tokenID, tree.proofs)
      <4>1. tree.proofs[Len(tree.proofs)] = getState(run[n].states, to)
        BY <2>1, <3>1, <3>5
      <4>2. StatesAfter(before, commit, tokenID, n) = run[n].states
        BY <3>8
      <4> QED
        BY <1>1, <1>2, <4>1, <4>2 DEF FeeProofHolds
    <3>11. Generated(tree, contract, before, commit, tokenID)
      BY <1>1, <1>2, <3>2, <3>6, <3>7, <3>9, <3>10 DEF Generated
    <3> QED
      BY <2>6, <3>2, <3>11
  <2> QED
    BY <2>5, <2>6
<1> QED
  BY <1>9, <1>10

\* A commitment the client's tree can start with.
Buildable(before, commit, n) ==
  IsCommit(commit, n) /\ n <= paramMaxTxsPerCommit /\ CanGenerate(before, commit.txs)

\* The token of its senders, and the replay with that token.
ReplaysTo(contract, tokenID, before, commit) ==
  /\ tokenID = before[commit.txs[1].from].tokenID
  /\ contract = received(before, commit, tokenID)

\* What the contract makes of a commitment whose token is that of its senders.
LEMMA ContractIs ==
  ASSUME NEW before, NEW n, NEW commit, NEW tokenID, NEW contract,
         IsCommit(commit, n), n \in Nat, n <= paramMaxTxsPerCommit,
         tokenID = CommitToken(before, commit),
         contract = received(before, commit, tokenID)
  PROVE  processCommit(before, commit)
           = IF contract.result = "Ok" THEN CheckMigration(before, contract.states, commit)
             ELSE contract
<1>1. Len(commit.txs) = n /\ ~(Len(commit.txs) > paramMaxTxsPerCommit)
  BY TransitionAssumption DEF IsCommit
<1> QED
  BY <1>1 DEF processCommit, received, Then, Fees

\* A transfer, or a create2Transfer.
LEMMA OtherAgrees ==
  ASSUME NEW before \in StateMaps, NEW n \in Nat \ {0}, NEW commit, Buildable(before, commit, n),
         commit.kind # "MassMigration",
         NEW tokenID, NEW contract, ReplaysTo(contract, tokenID, before, commit)
  PROVE  /\ processCommit(before, commit).result = "Ok" <=> contract.result = "Ok"
         /\ contract.result = "Ok" => processCommit(before, commit).states = contract.states
<1>1. tokenID = CommitToken(before, commit)
  BY DEF Buildable, ReplaysTo, CommitToken, CanGenerate
<1>2. processCommit(before, commit)
        = IF contract.result = "Ok" THEN CheckMigration(before, contract.states, commit)
          ELSE contract
  BY <1>1, ContractIs DEF Buildable, ReplaysTo
<1> QED
  BY <1>2 DEF CheckMigration, Outcome

\* A mass migration that claims what the tree says it takes out.
LEMMA BuiltAgrees ==
  ASSUME NEW before \in StateMaps, NEW n \in Nat \ {0}, NEW commit, NEW tokenID,
         NEW contract, NEW built, Buildable(before, commit, n),
         commit.kind = "MassMigration", ReplaysTo(contract, tokenID, before, commit),
         contract.result = "Ok", built = fromStateProvider(contract.states, commit)
  PROVE  /\ processCommit(before, built).result = "Ok"
         /\ processCommit(before, built).states = contract.states
<1>1. PICK txs, replay, after :
        /\ txs = commit.txs /\ replay = Replay("MassMigration", before, txs, tokenID)
        /\ after = contract.states
  OBVIOUS
<1>2. /\ txs \in [1 .. n -> Tx] /\ DOMAIN txs = 1 .. n /\ 1 \in 1 .. n
      /\ tokenID \in TokenIDs /\ Total(Fees(txs)) \in Nat /\ txs # <<>>
  <2>1. txs \in [1 .. n -> Tx]
    BY <1>1 DEF Buildable, IsCommit
  <2> QED
    BY <1>1, <2>1, ReplayedToken DEF Buildable, ReplaysTo, CanGenerate
<1>3. /\ replay.result = "Ok"
      /\ contract = processReceiver(replay.states, commit.feeReceiver, tokenID, Total(Fees(txs)))
  BY <1>1 DEF ReplaysTo, received, Then
<1>4. SendersThere(before, replay.states, txs, n, tokenID)
  BY <1>1, <1>2, <1>3, MigrationSenders
<1>5. Kept(before, after)
  <2>1. replay.states \in StateMaps /\ Kept(before, replay.states)
    BY <1>4 DEF SendersThere
  <2>2. PICK fees, to, old : /\ fees = Total(Fees(txs)) /\ to = commit.feeReceiver
                             /\ old = replay.states
    OBVIOUS
  <2>3. contract = processReceiver(old, to, tokenID, fees) /\ fees \in Nat /\ old \in StateMaps
    BY <1>2, <1>3, <2>1, <2>2
  <2>4. Changes(old, contract.states, to, tokenID, fees, 0)
    BY <2>3, ReceiverOk
  <2>5. Kept(old, after)
    BY <1>1, <2>4 DEF Changes
  <2> QED
    BY <2>1, <2>2, <2>5, KeptTwice
<1>6. ASSUME NEW i \in 1 .. n
      PROVE  /\ after[txs[i].from].pubkeyID = before[txs[i].from].pubkeyID
             /\ after[txs[i].from].tokenID = tokenID
  BY <1>4, <1>5 DEF SendersThere, Kept
<1>7. MigrationStates(after, txs) = WithdrawLeaves(before, txs, tokenID)
  BY <1>2, <1>6 DEF MigrationStates, WithdrawLeaves
<1>8. MigrationStates(after, txs)[1].tokenID = tokenID
  BY <1>2, <1>6 DEF MigrationStates, createState
<1>9. /\ built.kind = "MassMigration" /\ built.txs = txs
      /\ built.feeReceiver = commit.feeReceiver /\ built.tokenID = tokenID
      /\ built.amount = Total([i \in DOMAIN txs |-> txs[i].amount])
      /\ built.withdrawRoot = WithdrawLeaves(before, txs, tokenID)
  BY <1>1, <1>7, <1>8 DEF fromStateProvider
<1>10. IsCommit(built, n)
  BY <1>1, <1>2, <1>9 DEF Buildable, IsCommit, Kinds
<1>11. contract = received(before, built, tokenID) /\ tokenID = CommitToken(before, built)
  <2>1. received(before, built, tokenID)
          = IF replay.result = "Ok"
            THEN processReceiver(replay.states, commit.feeReceiver, tokenID, Total(Fees(txs)))
            ELSE replay
    BY <1>1, <1>9 DEF received, Then
  <2>2. CommitToken(before, built) = tokenID
    BY <1>9 DEF CommitToken
  <2> QED
    BY <1>3, <2>1, <2>2
<1>12. processCommit(before, built) = CheckMigration(before, after, built)
  <2>1. processCommit(before, built)
          = IF contract.result = "Ok" THEN CheckMigration(before, contract.states, built)
            ELSE contract
    <3>1. Len(built.txs) = n /\ ~(Len(built.txs) > paramMaxTxsPerCommit)
      BY <1>2, <1>9, TransitionAssumption DEF Buildable
    <3> QED
      BY <1>11, <3>1 DEF processCommit, received, Then, Fees
  <2> QED
    BY <1>1, <2>1
<1>13. built.amount = Total(Amounts(built.txs))
  BY <1>9 DEF Amounts
<1>14. built.withdrawRoot = WithdrawLeaves(before, built.txs, built.tokenID) /\ built.txs # <<>>
  BY <1>2, <1>9
<1>15. CheckMigration(before, after, built) = Outcome("Ok", after)
  BY <1>9, <1>13, <1>14 DEF CheckMigration, Amounts
<1>16. Outcome("Ok", after).result = "Ok" /\ Outcome("Ok", after).states = after
  BY DEF Outcome
<1> QED
  BY <1>1, <1>12, <1>15, <1>16

\* Where the tree raises, the contract does not take the commitment either.
LEMMA RaisedIsRefused ==
  ASSUME NEW before \in StateMaps, NEW n \in Nat \ {0}, NEW commit, IsCommit(commit, n),
         n <= paramMaxTxsPerCommit, commit.kind = "MassMigration",
         processCommit(before, commit).result = "Ok"
  PROVE  received(before, commit, before[commit.txs[1].from].tokenID).result = "Ok"
<1>1. PICK txs, tokenID, contract, replay :
        /\ txs = commit.txs /\ tokenID = CommitToken(before, commit)
        /\ contract = received(before, commit, tokenID)
        /\ replay = Replay("MassMigration", before, txs, tokenID)
  OBVIOUS
<1>2. txs \in [1 .. n -> Tx] /\ 1 \in 1 .. n
  BY <1>1 DEF IsCommit
<1>3. processCommit(before, commit)
        = IF contract.result = "Ok" THEN CheckMigration(before, contract.states, commit)
          ELSE contract
  BY <1>1, ContractIs
<1>4. contract.result = "Ok"
  BY <1>3
<1>5. replay.result = "Ok"
  BY <1>1, <1>4 DEF received, Then
<1>6. SendersThere(before, replay.states, txs, n, tokenID)
  BY <1>1, <1>2, <1>5, MigrationSenders
<1>7. before[txs[1].from].tokenID = tokenID
  BY <1>2, <1>6 DEF SendersThere
<1> QED
  BY <1>1, <1>4, <1>7

LEMMA TypeGivesTrees == TypeOK => TreeAgrees
<1> SUFFICES ASSUME TypeOK, NEW commit \in BuildableCommits
             PROVE  LET tree     == processNoRaise(states, commit)
                        migrates == commit.kind = "MassMigration"
                        built    == IF migrates /\ tree.safe
                                    THEN fromStateProvider(tree.states, commit) ELSE commit
                        contract == processCommit(states, built)
                        tokenID  == states[commit.txs[1].from].tokenID
                    IN  /\ tree.safe <=> contract.result = "Ok"
                        /\ tree.safe =>
                             /\ tree.states = contract.states
                             /\ Len(tree.proofs) = ExpectedProofs(commit)
                             /\ [i \in DOMAIN tree.proofs |-> tree.proofs[i].id]
                                  = StepsOf(commit)
                             /\ \A i \in DOMAIN commit.txs :
                                  SenderProofHolds(states, commit, tokenID, tree.proofs, i)
                             /\ FeeProofHolds(states, commit, tokenID, tree.proofs)
  BY DEF TreeAgrees
<1>1. /\ commit \in Commits /\ CanGenerate(states, commit.txs)
      /\ Len(commit.txs) <= paramMaxTxsPerCommit
  BY DEF BuildableCommits
<1>2. PICK n \in Nat : IsCommit(commit, n)
  BY <1>1, CommitType
<1>3. n # 0 /\ n <= paramMaxTxsPerCommit
  <2>1. commit.txs \in [1 .. n -> Tx]
    BY <1>2 DEF IsCommit
  <2>2. Len(commit.txs) = n
    BY <2>1
  <2>3. CASE n = 0
    <3>1. commit.txs = <<>>
      BY <2>1, <2>3
    <3> QED
      BY <1>1, <3>1 DEF CanGenerate
  <2> QED
    BY <1>1, <2>2, <2>3
<1>4. n \in Nat \ {0}
  BY <1>3
<1>5. states \in StateMaps
  BY StatesType
<1>6. PICK tree, built, contract, tokenID, commitTree :
        /\ tree = processNoRaise(states, commit)
        /\ built = IF commit.kind = "MassMigration" /\ tree.safe
                   THEN fromStateProvider(tree.states, commit) ELSE commit
        /\ tokenID = states[commit.txs[1].from].tokenID
        /\ contract = received(states, commit, tokenID)
        /\ commitTree = generate(states, commit)
  OBVIOUS
<1>7. /\ commitTree.safe <=> contract.result = "Ok"
      /\ commitTree.safe => Generated(commitTree, contract, states, commit, tokenID)
  BY <1>1, <1>2, <1>4, <1>5, <1>6, TreeGenerates
<1>8. (tree.safe <=> commitTree.safe) /\ (commitTree.safe => tree = commitTree)
  BY <1>6 DEF processNoRaise
<1>9. Buildable(states, commit, n)
  BY <1>1, <1>2, <1>3 DEF Buildable
<1>10. CASE ~tree.safe
  <2>1. contract.result # "Ok" /\ built = commit
    BY <1>6, <1>7, <1>8, <1>10
  <2>2. processCommit(states, commit).result # "Ok"
    <3>1. CASE commit.kind = "MassMigration"
      BY <1>2, <1>3, <1>4, <1>5, <1>6, <2>1, <3>1, RaisedIsRefused
    <3>2. CASE commit.kind # "MassMigration"
      BY <1>4, <1>5, <1>6, <1>9, <2>1, <3>2, OtherAgrees DEF ReplaysTo
    <3> QED
      BY <3>1, <3>2
  <2> QED
    BY <1>6, <1>10, <2>1, <2>2
<1>11. CASE tree.safe
  <2>1. contract.result = "Ok" /\ Generated(tree, contract, states, commit, tokenID)
    BY <1>7, <1>8, <1>11
  <2>2. /\ tree.states = contract.states /\ Len(tree.proofs) = ExpectedProofs(commit)
        /\ [i \in DOMAIN tree.proofs |-> tree.proofs[i].id] = StepsOf(commit)
        /\ \A i \in DOMAIN commit.txs :
             SenderProofHolds(states, commit, tokenID, tree.proofs, i)
        /\ FeeProofHolds(states, commit, tokenID, tree.proofs)
    BY <2>1 DEF Generated, Ids
  <2>3. ReplaysTo(contract, tokenID, states, commit)
    BY <1>6 DEF ReplaysTo
  <2>4. /\ processCommit(states, built).result = "Ok"
        /\ processCommit(states, built).states = contract.states
    <3>1. CASE commit.kind = "MassMigration"
      <4>1. built = fromStateProvider(contract.states, commit)
        BY <1>6, <1>11, <2>2, <3>1
      <4> QED
        BY <1>4, <1>5, <1>9, <2>1, <2>3, <3>1, <4>1, BuiltAgrees
    <3>2. CASE commit.kind # "MassMigration"
      <4>1. built = commit
        BY <1>6, <3>2
      <4> QED
        BY <1>4, <1>5, <1>9, <2>1, <2>3, <3>2, <4>1, OtherAgrees
    <3> QED
      BY <3>1, <3>2
  <2> QED
    BY <1>6, <1>11, <2>2, <2>4
<1> QED
  BY <1>10, <1>11

\* Commitments that the client's tree builds without an exception replay to Ok
\* on the contract, with the tree's states and the proofs it made, one for each
\* leaf the replay reads; a mass migration made from the tree claims what its
\* transactions take out; where the tree raises, the replay does not end Ok
\* (stateTree.ts:74-92, 160-374 and commitments.ts:143-174).
THEOREM TreeAgreesWithL1 == Spec => []TreeAgrees
BY TypesHold, TypeGivesTrees, PTL
=============================================================================
