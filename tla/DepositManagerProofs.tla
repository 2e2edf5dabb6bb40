------------------------ MODULE DepositManagerProofs ------------------------
(***************************************************************************)
(* The deposit manager, for subtrees of every depth and every number of    *)
(* deposits.                                                               *)
(*                                                                         *)
(* depositCount is a binary counter whose 1 bits are the baby trees: the   *)
(* loop of insertAndMerge runs once for each bit that counting one up      *)
(* clears, and each time the two nodes it hashes are neighbours of equal   *)
(* depth.  So a node of depth d is always the perfect tree over 2^d        *)
(* consecutive deposits, and the subtrees that reach the rollup are those  *)
(* over all deposits, in order.                                            *)
(***************************************************************************)
EXTENDS DepositManager, SumTheorems

LEMMA DepthType == MaxSubtreeDepth \in Nat
BY DepositAssumption

LEMMA QuotientOfHalf ==
  ASSUME NEW n \in Nat, NEW p \in Nat \ {0}
  PROVE  n \div (2 * p) = (n \div p) \div 2
<1>1. PICK q \in Nat : q = n \div p /\ p * q <= n /\ n < p * q + p
  BY Quotient
<1>2. PICK h \in Nat : h = q \div 2 /\ 2 * h <= q /\ q < 2 * h + 2
  BY <1>1, Quotient
<1>3. PICK ph \in Nat : ph = p * h
  OBVIOUS
<1>4. (2 * p) * h = 2 * ph
  BY <1>3
<1>5. q = 2 * h \/ q = 2 * h + 1
  BY <1>2
<1>6. p * q = 2 * ph \/ p * q = 2 * ph + p
  <2>1. CASE q = 2 * h
    <3>1. p * (2 * h) = 2 * (p * h)
      OBVIOUS
    <3> QED
      BY <1>3, <2>1, <3>1
  <2>2. CASE q = 2 * h + 1
    <3>1. p * (2 * h + 1) = 2 * (p * h) + p
      OBVIOUS
    <3> QED
      BY <1>3, <2>2, <3>1
  <2> QED
    BY <1>5, <2>1, <2>2
<1>7. 2 * ph <= n /\ n < 2 * ph + 2 * p
  BY <1>1, <1>6
<1>8. 2 * p \in Nat \ {0}
  OBVIOUS
<1>9. n \div (2 * p) = h
  BY <1>4, <1>7, <1>8, QuotientIs
<1> QED
  BY <1>1, <1>2, <1>9

(***************************************************************************)
(* Sizes and bits.                                                         *)
(***************************************************************************)
LEMMA SizeDef ==
  Size = [d \in 0 .. MaxSubtreeDepth |-> IF d = 0 THEN 1 ELSE 2 * Size[d - 1]]
<1> DEFINE is(f, n) == f = [d \in 0 .. n |-> IF d = 0 THEN 1 ELSE 2 * f[d - 1]]
           good == {n \in Nat : \E f : is(f, n)}
<1>1. 0 \in good
  <2>1. is([d \in 0 .. 0 |-> 1], 0)
    OBVIOUS
  <2> QED
    BY <2>1
<1>2. ASSUME NEW n \in good PROVE n + 1 \in good
  <2>1. PICK f : is(f, n)
    OBVIOUS
  <2> DEFINE g == [d \in 0 .. n + 1 |-> IF d = 0 THEN 1 ELSE 2 * f[d - 1]]
  <2>2. \A d \in 0 .. n : g[d] = f[d]
    BY <2>1
  <2>3. ASSUME NEW d \in 0 .. n + 1 PROVE g[d] = IF d = 0 THEN 1 ELSE 2 * g[d - 1]
    <3>1. d # 0 => d - 1 \in 0 .. n
      OBVIOUS
    <3>2. g[d] = IF d = 0 THEN 1 ELSE 2 * f[d - 1]
      OBVIOUS
    <3> HIDE DEF g
    <3> QED
      BY <2>2, <3>1, <3>2
  <2>4. g = [d \in 0 .. n + 1 |-> g[d]]
    OBVIOUS
  <2> HIDE DEF g
  <2>5. is(g, n + 1)
    BY <2>3, <2>4
  <2>6. n + 1 \in Nat
    OBVIOUS
  <2> HIDE DEF is
  <2> QED
    BY <2>5, <2>6
<1>3. MaxSubtreeDepth \in good
  <2>1. 0 .. MaxSubtreeDepth \subseteq good
    <3> HIDE DEF good
    <3> QED
      BY <1>1, <1>2, DepthType, NumbersUpTo
  <2> QED
    BY <2>1, DepthType
<1>4. \E f : is(f, MaxSubtreeDepth)
  BY <1>3
<1> QED
  BY <1>4 DEF Size

LEMMA SizeType ==
  /\ Size[0] = 1
  /\ \A d \in 0 .. MaxSubtreeDepth : Size[d] \in Nat \ {0}
  /\ \A d \in 0 .. MaxSubtreeDepth - 1 : Size[d + 1] = 2 * Size[d]
<1>1. /\ Size[0] = 1
      /\ \A d \in 1 .. MaxSubtreeDepth : Size[d] = 2 * Size[d - 1]
  BY SizeDef, DepthType
<1> DEFINE good == {d \in Nat : d <= MaxSubtreeDepth => Size[d] \in Nat \ {0}}
<1>2. 0 \in good
  BY <1>1
<1>3. ASSUME NEW d \in good PROVE d + 1 \in good
  <2>1. d + 1 <= MaxSubtreeDepth => Size[d + 1] = 2 * Size[d]
    BY <1>1, DepthType
  <2> QED
    BY <2>1, DepthType
<1>4. 0 .. MaxSubtreeDepth \subseteq good
  <2> HIDE DEF good
  <2> QED
    BY <1>2, <1>3, DepthType, NumbersUpTo
<1>5. \A d \in 0 .. MaxSubtreeDepth - 1 : Size[d + 1] = 2 * Size[d]
  <2> TAKE d \in 0 .. MaxSubtreeDepth - 1
  <2>1. d + 1 \in 1 .. MaxSubtreeDepth /\ (d + 1) - 1 = d
    BY DepthType
  <2> QED
    BY <1>1, <2>1
<1> QED
  BY <1>1, <1>4, <1>5

\* Shifting one further halves.
LEMMA ShiftedType ==
  ASSUME NEW n \in Nat
  PROVE  /\ Shifted(n, 0) = n
         /\ \A d \in 0 .. MaxSubtreeDepth :
              /\ Shifted(n, d) \in Nat
              /\ Size[d] * Shifted(n, d) <= n /\ n < Size[d] * Shifted(n, d) + Size[d]
         /\ \A d \in 0 .. MaxSubtreeDepth - 1 :
              /\ Shifted(n, d + 1) = Shifted(n, d) \div 2
              /\ Shifted(n, d) = 2 * Shifted(n, d + 1) + (Shifted(n, d) % 2)
              /\ Shifted(n, d) % 2 \in {0, 1}
<1>1. Shifted(n, 0) = n
  BY SizeType DEF Shifted
<1>2. ASSUME NEW d \in 0 .. MaxSubtreeDepth
      PROVE  /\ Shifted(n, d) \in Nat
             /\ Size[d] * Shifted(n, d) <= n /\ n < Size[d] * Shifted(n, d) + Size[d]
  BY SizeType, Quotient DEF Shifted
<1>3. ASSUME NEW d \in 0 .. MaxSubtreeDepth - 1
      PROVE  /\ Shifted(n, d + 1) = Shifted(n, d) \div 2
             /\ Shifted(n, d) = 2 * Shifted(n, d + 1) + (Shifted(n, d) % 2)
             /\ Shifted(n, d) % 2 \in {0, 1}
  <2>1. d \in 0 .. MaxSubtreeDepth
    BY DepthType
  <2>2. Size[d + 1] = 2 * Size[d] /\ Size[d] \in Nat \ {0}
    BY <2>1, SizeType
  <2>3. Shifted(n, d + 1) = Shifted(n, d) \div 2
    BY <2>2, QuotientOfHalf DEF Shifted
  <2>4. PICK q \in Nat : q = Shifted(n, d)
    BY <1>2, <2>1
  <2>5. q = 2 * (q \div 2) + (q % 2) /\ q % 2 \in {0, 1}
    OBVIOUS
  <2> QED
    BY <2>3, <2>4, <2>5
<1> QED
  BY <1>1, <1>2, <1>3

SubtreeSizeType == paramMaxSubtreeSize \in Nat \ {0}

LEMMA SubtreeSize == SubtreeSizeType
BY SizeType, DepthType DEF SubtreeSizeType, paramMaxSubtreeSize

\* The loop runs until the count is odd.
LEMMA MergesType ==
  ASSUME NEW i \in 1 .. paramMaxSubtreeSize
  PROVE  /\ Merges(i) \in 0 .. MaxSubtreeDepth
         /\ Shifted(i, Merges(i)) % 2 = 1
         /\ \A d \in 0 .. Merges(i) - 1 : Shifted(i, d) % 2 = 0
<1> DEFINE odd == {d \in 0 .. MaxSubtreeDepth : Shifted(i, d) % 2 = 1}
<1>1. i \in Nat /\ i > 0 /\ i <= paramMaxSubtreeSize
  BY SubtreeSize DEF SubtreeSizeType
<1>2. odd # {}
  <2> SUFFICES ASSUME odd = {} PROVE FALSE
    OBVIOUS
  <2>1. ASSUME NEW d \in 0 .. MaxSubtreeDepth PROVE Shifted(i, d) % 2 # 1
    OBVIOUS
  <2> DEFINE good == {d \in Nat : d <= MaxSubtreeDepth => Size[d] * Shifted(i, d) = i}
  <2>2. 0 \in good
    BY <1>1, SizeType, ShiftedType
  <2>3. ASSUME NEW d \in good PROVE d + 1 \in good
    <3> SUFFICES ASSUME d + 1 <= MaxSubtreeDepth PROVE Size[d + 1] * Shifted(i, d + 1) = i
      OBVIOUS
    <3>1. d \in 0 .. MaxSubtreeDepth - 1 /\ d \in 0 .. MaxSubtreeDepth /\ d + 1 \in 0 .. MaxSubtreeDepth
      BY DepthType
    <3>2. PICK s, q, h : s = Size[d] /\ q = Shifted(i, d) /\ h = Shifted(i, d + 1)
      OBVIOUS
    <3>3. q = 2 * h + (q % 2) /\ q % 2 \in {0, 1} /\ q \in Nat /\ h \in Nat
      BY <1>1, <3>1, <3>2, ShiftedType
    <3>4. q % 2 # 1
      BY <2>1, <3>1, <3>2
    <3>5. q = 2 * h
      BY <3>3, <3>4
    <3>6. s * q = i /\ Size[d + 1] = 2 * s /\ s \in Nat
      BY <3>1, <3>2, SizeType
    <3>7. (2 * s) * h = s * (2 * h)
      BY <3>3, <3>6
    <3> QED
      BY <3>2, <3>5, <3>6, <3>7
  <2>4. 0 .. MaxSubtreeDepth \subseteq good
    <3> HIDE DEF good
    <3> QED
      BY <2>2, <2>3, DepthType, NumbersUpTo
  <2>5. MaxSubtreeDepth \in 0 .. MaxSubtreeDepth
    BY DepthType
  <2>6. PICK s, q : s = Size[MaxSubtreeDepth] /\ q = Shifted(i, MaxSubtreeDepth)
    OBVIOUS
  <2>7. s * q = i
    BY <2>4, <2>5, <2>6
  <2>8. s \in Nat \ {0} /\ q \in Nat /\ q % 2 # 1 /\ i <= s
    BY <1>1, <2>1, <2>5, <2>6, SizeType, ShiftedType DEF paramMaxSubtreeSize
  <2>9. q # 0 /\ q # 1
    BY <1>1, <2>7, <2>8
  <2>10. PICK r \in Nat : q = 2 + r
    BY <2>8, <2>9
  <2>11. s * (2 + r) = 2 * s + s * r /\ s * r \in Nat
    BY <2>8
  <2> QED
    BY <2>7, <2>8, <2>10, <2>11
<1>3. PICK k \in odd : \A d \in odd : k <= d
  <2>1. odd \subseteq Nat
    OBVIOUS
  <2> HIDE DEF odd
  <2> QED
    BY <1>2, <2>1, LeastNumber
<1>4. Merges(i) \in odd /\ \A d \in odd : Merges(i) <= d
  BY <1>3 DEF Merges, Min
<1>5. ASSUME NEW d \in 0 .. Merges(i) - 1 PROVE Shifted(i, d) % 2 = 0
  <2>1. Merges(i) \in 0 .. MaxSubtreeDepth
    BY <1>4
  <2>2. d \in 0 .. MaxSubtreeDepth - 1 /\ d < Merges(i) /\ d \in 0 .. MaxSubtreeDepth
    BY <2>1, DepthType
  <2>3. d \notin odd
    BY <1>4, <2>1, <2>2
  <2>4. Shifted(i, d) % 2 \in {0, 1}
    BY <1>1, <2>2, ShiftedType
  <2> QED
    BY <2>2, <2>3, <2>4
<1> QED
  BY <1>4, <1>5

\* Counting one up clears the 1 bits below bit k = Merges(i) and sets bit k.
LEMMA Carry ==
  ASSUME NEW i \in 1 .. paramMaxSubtreeSize, NEW k, k = Merges(i), NEW c, c = i - 1
  PROVE  /\ k \in 0 .. MaxSubtreeDepth /\ c \in Nat /\ i \in Nat
         /\ \A d \in 0 .. k : Shifted(i, d) = Shifted(c, d) + 1
         /\ \A d \in 0 .. k - 1 : Shifted(c, d) % 2 = 1
         /\ Shifted(c, k) % 2 = 0
         /\ \A d \in k + 1 .. MaxSubtreeDepth : Shifted(i, d) = Shifted(c, d)
<1>1. c \in Nat /\ i \in Nat /\ i = c + 1
  BY SubtreeSize DEF SubtreeSizeType
<1>2. /\ k \in 0 .. MaxSubtreeDepth /\ Shifted(i, k) % 2 = 1
      /\ \A d \in 0 .. k - 1 : Shifted(i, d) % 2 = 0
  BY MergesType
<1>3. ASSUME NEW d \in 0 .. MaxSubtreeDepth - 1
      PROVE  /\ Shifted(i, d) \in Nat /\ Shifted(c, d) \in Nat
             /\ Shifted(i, d + 1) \in Nat /\ Shifted(c, d + 1) \in Nat
             /\ Shifted(i, d) = 2 * Shifted(i, d + 1) + (Shifted(i, d) % 2)
             /\ Shifted(c, d) = 2 * Shifted(c, d + 1) + (Shifted(c, d) % 2)
             /\ Shifted(i, d) % 2 \in {0, 1} /\ Shifted(c, d) % 2 \in {0, 1}
  <2>1. d \in 0 .. MaxSubtreeDepth /\ d + 1 \in 0 .. MaxSubtreeDepth
    BY DepthType
  <2> QED
    BY <1>1, <2>1, ShiftedType
<1> DEFINE low == {d \in Nat : d <= k => Shifted(i, d) = Shifted(c, d) + 1}
<1>4. 0 \in low
  BY <1>1, ShiftedType
<1>5. ASSUME NEW d \in low PROVE d + 1 \in low
  <2> SUFFICES ASSUME d + 1 <= k PROVE Shifted(i, d + 1) = Shifted(c, d + 1) + 1
    OBVIOUS
  <2>1. d \in 0 .. MaxSubtreeDepth - 1 /\ d \in 0 .. k - 1
    BY <1>2, DepthType
  <2>2. Shifted(i, d) = Shifted(c, d) + 1 /\ Shifted(i, d) % 2 = 0
    BY <1>2, <2>1
  <2>3. PICK a, b, e, f : /\ a = Shifted(i, d) /\ b = Shifted(c, d)
                          /\ e = Shifted(i, d + 1) /\ f = Shifted(c, d + 1)
    OBVIOUS
  <2>4. /\ a \in Nat /\ b \in Nat /\ e \in Nat /\ f \in Nat
        /\ a = 2 * e + (a % 2) /\ b = 2 * f + (b % 2)
        /\ a % 2 \in {0, 1} /\ b % 2 \in {0, 1} /\ a = b + 1 /\ a % 2 = 0
    <3>1. a = b + 1 /\ a % 2 = 0
      BY <2>2, <2>3
    <3> QED
      BY <1>3, <2>1, <2>3, <3>1
  <2>5. e = f + 1
    BY <2>4
  <2> QED
    BY <2>3, <2>5
<1>6. k \in Nat
  BY <1>2
<1>7. 0 .. k \subseteq low
  <2> HIDE DEF low
  <2> QED
    BY <1>4, <1>5, <1>6, NumbersUpTo
<1>8. ASSUME NEW d \in 0 .. k PROVE Shifted(i, d) = Shifted(c, d) + 1
  <2>1. d \in low
    BY <1>7
  <2> QED
    BY <2>1
<1>9. ASSUME NEW d \in 0 .. k - 1 PROVE Shifted(c, d) % 2 = 1
  <2>1. d \in 0 .. k /\ d \in 0 .. MaxSubtreeDepth /\ Shifted(i, d) % 2 = 0
    BY <1>2, DepthType
  <2>2. PICK a : a = Shifted(c, d)
    OBVIOUS
  <2>3. a \in Nat /\ (a + 1) % 2 = 0
    BY <1>1, <1>8, <2>1, <2>2, ShiftedType
  <2>4. a % 2 = 1
    BY <2>3
  <2> QED
    BY <2>2, <2>4
<1>10. Shifted(c, k) % 2 = 0
  <2>1. PICK a : a = Shifted(c, k)
    OBVIOUS
  <2>2. a \in Nat /\ (a + 1) % 2 = 1
    BY <1>1, <1>2, <1>6, <1>8, <2>1, ShiftedType
  <2>3. a % 2 = 0
    BY <2>2
  <2> QED
    BY <2>1, <2>3
<1> DEFINE high == {j \in Nat : k + 1 + j <= MaxSubtreeDepth
                                  => Shifted(i, k + 1 + j) = Shifted(c, k + 1 + j)}
<1>11. 0 \in high
  <2> SUFFICES ASSUME k + 1 <= MaxSubtreeDepth PROVE Shifted(i, k + 1) = Shifted(c, k + 1)
    BY <1>6
  <2>1. k \in 0 .. MaxSubtreeDepth - 1 /\ k \in 0 .. k
    BY <1>6, DepthType
  <2>2. PICK a, b, e, f : /\ a = Shifted(i, k) /\ b = Shifted(c, k)
                          /\ e = Shifted(i, k + 1) /\ f = Shifted(c, k + 1)
    OBVIOUS
  <2>3. /\ a \in Nat /\ b \in Nat /\ e \in Nat /\ f \in Nat
        /\ a = 2 * e + 1 /\ a = b + 1 /\ b = 2 * f
    BY <1>2, <1>3, <1>8, <1>10, <2>1, <2>2
  <2>4. e = f
    BY <2>3
  <2> QED
    BY <2>2, <2>4
<1>12. ASSUME NEW j \in high PROVE j + 1 \in high
  <2> SUFFICES ASSUME k + 1 + (j + 1) <= MaxSubtreeDepth
               PROVE  Shifted(i, k + 1 + (j + 1)) = Shifted(c, k + 1 + (j + 1))
    OBVIOUS
  <2>1. PICK d : d = k + 1 + j
    OBVIOUS
  <2>2. d \in 0 .. MaxSubtreeDepth - 1 /\ k + 1 + (j + 1) = d + 1 /\ d <= MaxSubtreeDepth
    BY <1>6, <2>1, DepthType
  <2>3. Shifted(i, d) = Shifted(c, d)
    BY <2>1, <2>2
  <2>4. Shifted(i, d + 1) = Shifted(i, d) \div 2 /\ Shifted(c, d + 1) = Shifted(c, d) \div 2
    BY <1>1, <2>2, ShiftedType
  <2> QED
    BY <2>2, <2>3, <2>4
<1>13. ASSUME NEW d \in k + 1 .. MaxSubtreeDepth PROVE Shifted(i, d) = Shifted(c, d)
  <2>1. PICK j \in Nat : d = k + 1 + j /\ d <= MaxSubtreeDepth
    <3>1. d - (k + 1) \in Nat /\ d = k + 1 + (d - (k + 1))
      BY <1>6
    <3> QED
      BY <1>6, <3>1, DepthType
  <2>2. 0 .. j \subseteq high
    <3> HIDE DEF high
    <3> QED
      BY <1>11, <1>12, NumbersUpTo
  <2>3. j \in high
    BY <2>2
  <2> QED
    BY <2>1, <2>3
<1> QED
  BY <1>1, <1>2, <1>8, <1>9, <1>10, <1>13

\* The loop runs to the top exactly when the subtree is complete.
LEMMA FullCount ==
  ASSUME NEW i \in 1 .. paramMaxSubtreeSize
  PROVE  Merges(i) = MaxSubtreeDepth <=> i = paramMaxSubtreeSize
<1>1. PICK k, c : k = Merges(i) /\ c = i - 1
  OBVIOUS
<1>2. PICK s : s = paramMaxSubtreeSize /\ s = Size[MaxSubtreeDepth] /\ s \in Nat \ {0}
  BY SubtreeSize DEF SubtreeSizeType, paramMaxSubtreeSize
<1>3. i \in Nat /\ c \in Nat /\ i = c + 1 /\ i <= s
  BY <1>1, <1>2
<1>4. MaxSubtreeDepth \in 0 .. MaxSubtreeDepth /\ k \in 0 .. MaxSubtreeDepth
      /\ Shifted(i, k) % 2 = 1
  BY <1>1, DepthType, MergesType
<1>5. ASSUME k = MaxSubtreeDepth PROVE i = s
  <2>1. PICK q : q = Shifted(i, k)
    OBVIOUS
  <2>2. q \in Nat /\ q % 2 = 1 /\ s * q <= i
    BY <1>2, <1>3, <1>4, <1>5, <2>1, ShiftedType
  <2>3. q # 0
    BY <2>2
  <2>4. PICK r \in Nat : q = 1 + r
    BY <2>2, <2>3
  <2>5. s * (1 + r) = s + s * r /\ s * r \in Nat
    BY <1>2
  <2>6. PICK t \in Nat : t = s * r /\ s * q = s + t
    BY <2>4, <2>5
  <2>7. s + t <= i /\ i <= s
    BY <1>3, <2>2, <2>6
  <2> QED
    BY <1>2, <1>3, <2>6, <2>7
<1>6. ASSUME i = s PROVE k = MaxSubtreeDepth
  <2> SUFFICES ASSUME k # MaxSubtreeDepth PROVE FALSE
    OBVIOUS
  <2>1. MaxSubtreeDepth \in k + 1 .. MaxSubtreeDepth
    BY <1>4, DepthType
  <2>2. Shifted(i, MaxSubtreeDepth) = Shifted(c, MaxSubtreeDepth)
    BY <1>1, <2>1, Carry
  <2>3. i \div s = 1
    <3>1. s * 1 = s
      BY <1>2
    <3> QED
      BY <1>2, <1>6, <3>1, QuotientIs
  <2>4. c \div s = 0
    <3>1. s * 0 = 0
      BY <1>2
    <3> QED
      BY <1>2, <1>3, <3>1, QuotientIs
  <2> QED
    BY <1>2, <2>2, <2>3, <2>4 DEF Shifted
<1> QED
  BY <1>1, <1>2, <1>5, <1>6

(***************************************************************************)
(* The number of baby trees of depth d or more, when count deposits are    *)
(* merged.                                                                 *)
(***************************************************************************)
BitsFrom(count, d) == {e \in 0 .. MaxSubtreeDepth - 1 : e >= d /\ Shifted(count, e) % 2 = 1}
TreesFrom(count, d) == Cardinality(BitsFrom(count, d))

LEMMA TreesFromType ==
  ASSUME NEW count \in Nat
  PROVE  /\ \A d \in Nat : IsFiniteSet(BitsFrom(count, d)) /\ TreesFrom(count, d) \in Nat
         /\ TreesFrom(count, MaxSubtreeDepth) = 0
         /\ \A d \in 0 .. MaxSubtreeDepth - 1 :
              TreesFrom(count, d) = TreesFrom(count, d + 1) + (Shifted(count, d) % 2)
<1>1. ASSUME NEW d \in Nat
      PROVE  IsFiniteSet(BitsFrom(count, d)) /\ TreesFrom(count, d) \in Nat
  <2>1. IsFiniteSet(0 .. MaxSubtreeDepth - 1)
    BY DepthType, FS_Interval
  <2>2. BitsFrom(count, d) \in SUBSET (0 .. MaxSubtreeDepth - 1)
    BY DEF BitsFrom
  <2>3. IsFiniteSet(BitsFrom(count, d))
    BY <2>1, <2>2, FS_Subset
  <2> QED
    BY <2>3, FS_CardinalityType DEF TreesFrom
<1>2. TreesFrom(count, MaxSubtreeDepth) = 0
  <2>1. BitsFrom(count, MaxSubtreeDepth) = {}
    BY DepthType DEF BitsFrom
  <2> QED
    BY <2>1, FS_EmptySet DEF TreesFrom
<1>3. ASSUME NEW d \in 0 .. MaxSubtreeDepth - 1
      PROVE  TreesFrom(count, d) = TreesFrom(count, d + 1) + (Shifted(count, d) % 2)
  <2>1. d \in Nat /\ d + 1 \in Nat
    BY DepthType
  <2>2. Shifted(count, d) % 2 \in {0, 1}
    BY ShiftedType
  <2>3. PICK more : more = BitsFrom(count, d + 1)
    OBVIOUS
  <2>4. IsFiniteSet(more) /\ Cardinality(more) \in Nat /\ TreesFrom(count, d + 1) = Cardinality(more)
    BY <1>1, <2>1, <2>3 DEF TreesFrom
  <2>5. \A e \in 0 .. MaxSubtreeDepth - 1 : e >= d <=> (e >= d + 1 \/ e = d)
    BY DepthType
  <2>6. d \notin more
    BY <2>1, <2>3 DEF BitsFrom
  <2>7. CASE Shifted(count, d) % 2 = 1
    <3>1. BitsFrom(count, d) = more \cup {d}
      BY <2>3, <2>5, <2>7 DEF BitsFrom
    <3>2. Cardinality(more \cup {d}) = Cardinality(more) + 1
      BY <2>4, <2>6, FS_AddElement
    <3> QED
      BY <2>4, <2>7, <3>1, <3>2 DEF TreesFrom
  <2>8. CASE Shifted(count, d) % 2 = 0
    <3>1. BitsFrom(count, d) = more
      <4>1. \A e \in BitsFrom(count, d) : e # d
        BY <2>8 DEF BitsFrom
      <4> QED
        BY <2>3, <2>5, <4>1 DEF BitsFrom
    <3> QED
      BY <2>4, <2>8, <3>1 DEF TreesFrom
  <2> QED
    BY <2>2, <2>7, <2>8
<1> QED
  BY <1>1, <1>2, <1>3

\* Below bit k = Merges(i) all bits of the count before are set.
LEMMA TreesBefore ==
  ASSUME NEW i \in 1 .. paramMaxSubtreeSize, NEW k, k = Merges(i), NEW c, c = i - 1,
         NEW d \in 0 .. k
  PROVE  TreesFrom(c, d) = TreesFrom(c, k) + (k - d)
<1>1. /\ k \in 0 .. MaxSubtreeDepth /\ k \in Nat /\ c \in Nat
      /\ \A e \in 0 .. k - 1 : Shifted(c, e) % 2 = 1
  BY Carry
<1> DEFINE good == {j \in Nat : j <= k => TreesFrom(c, k - j) = TreesFrom(c, k) + j}
<1>2. 0 \in good
  <2>1. TreesFrom(c, k) \in Nat
    BY <1>1, TreesFromType
  <2>2. k - 0 = k
    BY <1>1
  <2>3. TreesFrom(c, k - 0) = TreesFrom(c, k) + 0
    BY <2>1, <2>2
  <2> QED
    BY <2>3
<1>3. ASSUME NEW j \in good PROVE j + 1 \in good
  <2> SUFFICES ASSUME j + 1 <= k PROVE TreesFrom(c, k - (j + 1)) = TreesFrom(c, k) + (j + 1)
    OBVIOUS
  <2>1. PICK e : e = k - (j + 1)
    OBVIOUS
  <2>2. /\ e \in 0 .. MaxSubtreeDepth - 1 /\ e \in 0 .. k - 1 /\ e + 1 = k - j /\ j <= k
        /\ e + 1 \in Nat
    BY <1>1, <2>1, DepthType
  <2>3. TreesFrom(c, e) = TreesFrom(c, e + 1) + (Shifted(c, e) % 2)
    BY <1>1, <2>2, TreesFromType
  <2>4. TreesFrom(c, e + 1) = TreesFrom(c, k) + j /\ TreesFrom(c, k) \in Nat
    BY <1>1, <2>2, TreesFromType
  <2>5. Shifted(c, e) % 2 = 1
    BY <1>1, <2>2
  <2> QED
    BY <2>1, <2>3, <2>4, <2>5
<1>4. PICK j \in Nat : j = k - d /\ j <= k
  BY <1>1
<1>5. 0 .. j \subseteq good
  <2> HIDE DEF good
  <2> QED
    BY <1>2, <1>3, NumbersUpTo
<1>6. j \in good /\ k - j = d
  BY <1>1, <1>4, <1>5
<1> QED
  BY <1>4, <1>6

\* Above bit k nothing changes; bit k is the lowest one that is left.
LEMMA TreesAfter ==
  ASSUME NEW i \in 1 .. paramMaxSubtreeSize, i # paramMaxSubtreeSize,
         NEW k, k = Merges(i), NEW c, c = i - 1
  PROVE  /\ k \in 0 .. MaxSubtreeDepth - 1
         /\ \A d \in k + 1 .. MaxSubtreeDepth : TreesFrom(i, d) = TreesFrom(c, d)
         /\ TreesFrom(c, k) = TreesFrom(c, k + 1)
         /\ \A d \in 0 .. k : BitsFrom(i, d) = BitsFrom(c, k + 1) \cup {k}
         /\ \A d \in 0 .. k : TreesFrom(i, d) = TreesFrom(c, k) + 1
<1>1. /\ k \in 0 .. MaxSubtreeDepth /\ k \in Nat /\ c \in Nat /\ i \in Nat
      /\ \A d \in k + 1 .. MaxSubtreeDepth : Shifted(i, d) = Shifted(c, d)
      /\ Shifted(c, k) % 2 = 0
  BY Carry
<1>2. k \in 0 .. MaxSubtreeDepth - 1 /\ k + 1 \in Nat
  <2>1. k # MaxSubtreeDepth
    BY FullCount
  <2> QED
    BY <1>1, <2>1, DepthType
<1>3. Shifted(i, k) % 2 = 1 /\ \A d \in 0 .. k - 1 : Shifted(i, d) % 2 = 0
  BY MergesType
<1>4. ASSUME NEW d \in k + 1 .. MaxSubtreeDepth PROVE TreesFrom(i, d) = TreesFrom(c, d)
  <2>1. ASSUME NEW e \in 0 .. MaxSubtreeDepth - 1, e >= d PROVE Shifted(i, e) = Shifted(c, e)
    <3>1. e \in k + 1 .. MaxSubtreeDepth
      BY <1>1, <2>1, DepthType
    <3> QED
      BY <1>1, <3>1
  <2>2. BitsFrom(i, d) = BitsFrom(c, d)
    BY <2>1 DEF BitsFrom
  <2> QED
    BY <2>2 DEF TreesFrom
<1>5. TreesFrom(c, k) = TreesFrom(c, k + 1) /\ TreesFrom(c, k) \in Nat
  <2>1. TreesFrom(c, k) = TreesFrom(c, k + 1) + (Shifted(c, k) % 2)
    BY <1>1, <1>2, TreesFromType
  <2>2. TreesFrom(c, k + 1) \in Nat
    BY <1>1, <1>2, TreesFromType
  <2> QED
    BY <1>1, <2>1, <2>2
<1>6. ASSUME NEW d \in 0 .. k PROVE BitsFrom(i, d) = BitsFrom(c, k + 1) \cup {k}
  <2>1. ASSUME NEW e \in 0 .. MaxSubtreeDepth - 1
        PROVE  (e >= d /\ Shifted(i, e) % 2 = 1)
                 <=> (e = k \/ (e >= k + 1 /\ Shifted(c, e) % 2 = 1))
    <3>1. CASE e < k
      <4>1. e \in 0 .. k - 1
        BY <1>1, <3>1, DepthType
      <4> QED
        BY <1>1, <1>3, <3>1, <4>1
    <3>2. CASE e = k
      BY <1>1, <1>3, <3>2
    <3>3. CASE e > k
      <4>1. e \in k + 1 .. MaxSubtreeDepth /\ e >= d /\ e >= k + 1 /\ e # k
        BY <1>1, <3>3, DepthType
      <4> QED
        BY <1>1, <4>1
    <3> QED
      BY <1>1, <3>1, <3>2, <3>3, DepthType
  <2> QED
    BY <1>2, <2>1 DEF BitsFrom
<1>7. ASSUME NEW d \in 0 .. k PROVE TreesFrom(i, d) = TreesFrom(c, k) + 1
  <2>1. IsFiniteSet(BitsFrom(c, k + 1)) /\ k \notin BitsFrom(c, k + 1)
    BY <1>1, <1>2, TreesFromType DEF BitsFrom
  <2>2. Cardinality(BitsFrom(c, k + 1) \cup {k}) = Cardinality(BitsFrom(c, k + 1)) + 1
    BY <2>1, FS_AddElement
  <2> QED
    BY <1>5, <1>6, <2>2 DEF TreesFrom
<1> QED
  BY <1>2, <1>4, <1>5, <1>6, <1>7

(***************************************************************************)
(* Perfect trees.                                                          *)
(***************************************************************************)
TreeFirst == Nat \ {0}

LEMMA TreesDef ==
  ASSUME NEW deposits
  PROVE  /\ \A first \in TreeFirst : TreesOver(deposits)[0][first] = deposits[first]
         /\ \A d \in 0 .. MaxSubtreeDepth - 1 : \A first \in TreeFirst :
              TreesOver(deposits)[d + 1][first]
                = <<TreesOver(deposits)[d][first], TreesOver(deposits)[d][first + Size[d]]>>
<1> DEFINE next(f, d) == [first \in Nat \ {0} |->
                            IF d = 0 THEN deposits[first]
                                     ELSE <<f[d - 1][first], f[d - 1][first + Size[d - 1]]>>]
           is(f, n) == f = [d \in 0 .. n |-> next(f, d)]
           good == {n \in Nat : \E f : is(f, n)}
<1>1. 0 \in good
  <2> DEFINE f == [d \in 0 .. 0 |-> [first \in Nat \ {0} |-> deposits[first]]]
  <2>1. \A d \in 0 .. 0 : next(f, d) = [first \in Nat \ {0} |-> deposits[first]]
    OBVIOUS
  <2>2. is(f, 0)
    BY <2>1
  <2> QED
    BY <2>2
<1>2. ASSUME NEW n \in good PROVE n + 1 \in good
  <2>1. PICK f : is(f, n)
    OBVIOUS
  <2> DEFINE g == [d \in 0 .. n + 1 |-> next(f, d)]
  <2>2. \A d \in 0 .. n : g[d] = f[d]
    <3> HIDE DEF next
    <3> QED
      BY <2>1
  <2>3. ASSUME NEW d \in 0 .. n + 1 PROVE g[d] = next(g, d)
    <3>1. d # 0 => d - 1 \in 0 .. n
      OBVIOUS
    <3>2. g[d] = next(f, d)
      OBVIOUS
    <3> HIDE DEF g
    <3>3. d # 0 => g[d - 1] = f[d - 1]
      BY <2>2, <3>1
    <3>4. next(f, d) = next(g, d)
      BY <3>3
    <3> QED
      BY <3>2, <3>4
  <2>4. g = [d \in 0 .. n + 1 |-> g[d]]
    OBVIOUS
  <2> HIDE DEF g, next
  <2>5. is(g, n + 1)
    BY <2>3, <2>4
  <2>6. n + 1 \in Nat
    OBVIOUS
  <2> HIDE DEF is
  <2> QED
    BY <2>5, <2>6
<1>3. MaxSubtreeDepth \in good
  <2>1. 0 .. MaxSubtreeDepth \subseteq good
    <3> HIDE DEF good
    <3> QED
      BY <1>1, <1>2, DepthType, NumbersUpTo
  <2> QED
    BY <2>1, DepthType
<1>4. \E f : is(f, MaxSubtreeDepth)
  BY <1>3
<1>5. TreesOver(deposits) = CHOOSE f : is(f, MaxSubtreeDepth)
  BY DEF TreesOver
<1>6. is(TreesOver(deposits), MaxSubtreeDepth)
  <2> HIDE DEF is
  <2> QED
    BY <1>4, <1>5
<1>7. PICK t : t = TreesOver(deposits)
  OBVIOUS
<1>8. \A d \in 0 .. MaxSubtreeDepth : t[d] = next(t, d)
  <2>1. is(t, MaxSubtreeDepth)
    BY <1>6, <1>7
  <2> HIDE DEF next
  <2> QED
    BY <2>1
<1>9. \A first \in TreeFirst : t[0][first] = deposits[first]
  <2>1. 0 \in 0 .. MaxSubtreeDepth
    BY DepthType
  <2>2. t[0] = next(t, 0)
    BY <1>8, <2>1
  <2> QED
    BY <2>2 DEF TreeFirst
<1>10. ASSUME NEW d \in 0 .. MaxSubtreeDepth - 1, NEW first \in TreeFirst
       PROVE  t[d + 1][first] = <<t[d][first], t[d][first + Size[d]]>>
  <2>1. d + 1 \in 0 .. MaxSubtreeDepth /\ d + 1 # 0 /\ (d + 1) - 1 = d
    BY DepthType
  <2>2. t[d + 1] = next(t, d + 1)
    BY <1>8, <2>1
  <2> QED
    BY <2>1, <2>2 DEF TreeFirst
<1> QED
  BY <1>7, <1>9, <1>10

Agree(few, more, n) == \A i \in 1 .. n : more[i] = few[i]

\* Deposits behind a tree do not change it.
LEMMA TreesStay ==
  ASSUME NEW few, NEW more, NEW n \in Nat, Agree(few, more, n),
         NEW d \in 0 .. MaxSubtreeDepth, NEW first \in TreeFirst, first + Size[d] <= n + 1
  PROVE  TreesOver(more)[d][first] = TreesOver(few)[d][first]
<1> DEFINE good == {e \in Nat : e <= MaxSubtreeDepth =>
                      \A lo \in TreeFirst : lo + Size[e] <= n + 1 =>
                        TreesOver(more)[e][lo] = TreesOver(few)[e][lo]}
<1>1. 0 \in good
  <2> SUFFICES ASSUME NEW lo \in TreeFirst, lo + Size[0] <= n + 1
               PROVE  TreesOver(more)[0][lo] = TreesOver(few)[0][lo]
    OBVIOUS
  <2>1. lo \in 1 .. n
    BY SizeType DEF TreeFirst
  <2>2. more[lo] = few[lo]
    BY <2>1 DEF Agree
  <2> QED
    BY <2>2, TreesDef
<1>2. ASSUME NEW e \in good PROVE e + 1 \in good
  <2> SUFFICES ASSUME e + 1 <= MaxSubtreeDepth, NEW lo \in TreeFirst, lo + Size[e + 1] <= n + 1
               PROVE  TreesOver(more)[e + 1][lo] = TreesOver(few)[e + 1][lo]
    OBVIOUS
  <2>1. e \in 0 .. MaxSubtreeDepth - 1 /\ e <= MaxSubtreeDepth /\ e \in 0 .. MaxSubtreeDepth
    BY DepthType
  <2>2. PICK s \in Nat \ {0} : s = Size[e] /\ Size[e + 1] = 2 * s
    BY <2>1, SizeType
  <2>3. lo + s \in TreeFirst /\ lo + s <= n + 1 /\ (lo + s) + s <= n + 1
    BY <2>2 DEF TreeFirst
  <2>4. /\ TreesOver(more)[e][lo] = TreesOver(few)[e][lo]
        /\ TreesOver(more)[e][lo + s] = TreesOver(few)[e][lo + s]
    BY <2>1, <2>2, <2>3
  <2>5. /\ TreesOver(more)[e + 1][lo] = <<TreesOver(more)[e][lo], TreesOver(more)[e][lo + s]>>
        /\ TreesOver(few)[e + 1][lo] = <<TreesOver(few)[e][lo], TreesOver(few)[e][lo + s]>>
    BY <2>1, <2>2, TreesDef
  <2> QED
    BY <2>4, <2>5
<1>3. 0 .. MaxSubtreeDepth \subseteq good
  <2> HIDE DEF good
  <2> QED
    BY <1>1, <1>2, DepthType, NumbersUpTo
<1>4. d \in good /\ d <= MaxSubtreeDepth
  BY <1>3, DepthType
<1> QED
  BY <1>4

\* Equal trees begin with equal deposits.
LEMMA TreesBegin ==
  ASSUME NEW deposits, NEW d \in 0 .. MaxSubtreeDepth, NEW a \in TreeFirst, NEW b \in TreeFirst,
         TreesOver(deposits)[d][a] = TreesOver(deposits)[d][b]
  PROVE  deposits[a] = deposits[b]
<1> DEFINE good == {e \in Nat : e <= MaxSubtreeDepth =>
                      (TreesOver(deposits)[e][a] = TreesOver(deposits)[e][b]
                         => deposits[a] = deposits[b])}
<1>1. 0 \in good
  BY TreesDef
<1>2. ASSUME NEW e \in good PROVE e + 1 \in good
  <2> SUFFICES ASSUME e + 1 <= MaxSubtreeDepth,
                      TreesOver(deposits)[e + 1][a] = TreesOver(deposits)[e + 1][b]
               PROVE  deposits[a] = deposits[b]
    OBVIOUS
  <2>1. e \in 0 .. MaxSubtreeDepth - 1 /\ e <= MaxSubtreeDepth
    BY DepthType
  <2>2. PICK ta, tb, ra, rb : /\ ta = TreesOver(deposits)[e][a]
                              /\ tb = TreesOver(deposits)[e][b]
                              /\ ra = TreesOver(deposits)[e][a + Size[e]]
                              /\ rb = TreesOver(deposits)[e][b + Size[e]]
    OBVIOUS
  <2>3. <<ta, ra>> = <<tb, rb>>
    BY <2>1, <2>2, TreesDef
  <2>4. ta = tb
    BY <2>3
  <2> QED
    BY <2>1, <2>2, <2>4
<1>3. 0 .. MaxSubtreeDepth \subseteq good
  <2> HIDE DEF good
  <2> QED
    BY <1>1, <1>2, DepthType, NumbersUpTo
<1>4. d \in good /\ d <= MaxSubtreeDepth
  BY <1>3, DepthType
<1> QED
  BY <1>4

\* What the loop leaves behind, given the nodes it makes.
LEMMA MergedIs ==
  ASSUME NEW trees, NEW k \in Nat, NEW nodes, nodes[0] = trees[Len(trees)],
         \A j \in 1 .. k : nodes[j] = <<trees[Len(trees) - j], nodes[j - 1]>>
  PROVE  MergeRight(trees, k) = Append(SubSeq(trees, 1, Len(trees) - k - 1), nodes[k])
<1> DEFINE next(f, j) == IF j = 0 THEN trees[Len(trees)]
                                  ELSE <<trees[Len(trees) - j], f[j - 1]>>
           is(f) == f = [j \in 0 .. k |-> next(f, j)]
           node == CHOOSE f : is(f)
           given == [j \in 0 .. k |-> nodes[j]]
<1>1. is(given)
  <2>1. ASSUME NEW j \in 0 .. k PROVE nodes[j] = next(given, j)
    <3>1. j # 0 => j \in 1 .. k /\ j - 1 \in 0 .. k
      OBVIOUS
    <3>2. j # 0 => given[j - 1] = nodes[j - 1]
      BY <3>1
    <3> HIDE DEF given
    <3> QED
      BY <3>1, <3>2
  <2> HIDE DEF next
  <2> QED
    BY <2>1
<1>2. is(node)
  <2> HIDE DEF is, given
  <2> QED
    BY <1>1
<1>3. \A j \in 0 .. k : node[j] = next(node, j)
  <2>1. PICK f : f = node
    OBVIOUS
  <2>2. is(f)
    BY <1>2, <2>1
  <2>3. \A j \in 0 .. k : f[j] = next(f, j)
    <3> HIDE DEF next
    <3> QED
      BY <2>2
  <2> HIDE DEF node
  <2> QED
    BY <2>1, <2>3
<1>4. MergeRight(trees, k) = Append(SubSeq(trees, 1, Len(trees) - k - 1), node[k])
  BY DEF MergeRight
<1> HIDE DEF node
<1> DEFINE good == {j \in Nat : j <= k => node[j] = nodes[j]}
<1>5. 0 \in good
  <2>1. 0 \in 0 .. k
    OBVIOUS
  <2>2. node[0] = nodes[0]
    BY <1>3, <2>1
  <2> QED
    BY <2>2
<1>6. ASSUME NEW j \in good PROVE j + 1 \in good
  <2> SUFFICES ASSUME j + 1 <= k PROVE node[j + 1] = nodes[j + 1]
    OBVIOUS
  <2>1. j + 1 \in 0 .. k /\ j + 1 \in 1 .. k /\ (j + 1) - 1 = j /\ j + 1 # 0 /\ j <= k
    OBVIOUS
  <2>2. node[j + 1] = <<trees[Len(trees) - (j + 1)], node[j]>>
    BY <1>3, <2>1
  <2>3. nodes[j + 1] = <<trees[Len(trees) - (j + 1)], nodes[j]>>
    BY <2>1
  <2> QED
    BY <2>1, <2>2, <2>3
<1>7. 0 .. k \subseteq good
  <2> HIDE DEF good
  <2> QED
    BY <1>5, <1>6, NumbersUpTo
<1>8. k \in good
  BY <1>7
<1> QED
  BY <1>4, <1>8

(***************************************************************************)
(* The baby trees, and what insertAndMerge does to them.                   *)
(***************************************************************************)
\* Where the tree of the d-th bit of a count begins, behind base deposits.
TreeStart(base, count, d) == base + Shifted(count, d + 1) * Size[d + 1] + 1

\* trees are those of the bits of a count.
Counted(trees, deposits, base, count) ==
  /\ Len(trees) = TreesFrom(count, 0)
  /\ \A d \in BitsFrom(count, 0) :
       trees[TreesFrom(count, d + 1) + 1] = TreesOver(deposits)[d][TreeStart(base, count, d)]

\* The next node up: the tree of a 1 bit and, behind it, as large a tree.
LEMMA StartsMeet ==
  ASSUME NEW base \in Nat, NEW count \in Nat, NEW d \in 0 .. MaxSubtreeDepth - 1
  PROVE  /\ TreeStart(base, count, d) \in TreeFirst
         /\ base + Shifted(count, d) * Size[d] + 1 \in TreeFirst
         /\ Shifted(count, d) % 2 = 1 =>
              /\ TreeStart(base, count, d) + Size[d] = base + Shifted(count, d) * Size[d] + 1
              /\ TreeStart(base, count, d) + Size[d] <= base + count + 1
         /\ Shifted(count, d) % 2 = 0 =>
              TreeStart(base, count, d) = base + Shifted(count, d) * Size[d] + 1
<1>1. d \in 0 .. MaxSubtreeDepth /\ d + 1 \in 0 .. MaxSubtreeDepth
  BY DepthType
<1>2. PICK s, q, h : s = Size[d] /\ q = Shifted(count, d) /\ h = Shifted(count, d + 1)
  OBVIOUS
<1>3. /\ s \in Nat \ {0} /\ Size[d + 1] = 2 * s /\ q \in Nat /\ h \in Nat
      /\ q = 2 * h + (q % 2) /\ s * q <= count
  BY <1>1, <1>2, SizeType, ShiftedType
<1>4. PICK hs \in Nat : hs = h * s
  BY <1>3
<1>5. h * (2 * s) = 2 * hs /\ (2 * h) * s = 2 * hs /\ (2 * h + 1) * s = 2 * hs + s
  BY <1>3, <1>4
<1>6. q * s \in Nat /\ q * s = s * q
  BY <1>3
<1>7. TreeStart(base, count, d) = base + 2 * hs + 1
  BY <1>2, <1>3, <1>5 DEF TreeStart
<1>8. q % 2 = 1 => q * s = 2 * hs + s
  BY <1>3, <1>5
<1>9. q % 2 = 0 => q * s = 2 * hs
  BY <1>3, <1>5
<1> QED
  BY <1>2, <1>3, <1>4, <1>6, <1>7, <1>8, <1>9 DEF TreeFirst

\* New deposits leave the trees over the old ones alone.
LEMMA CountedStays ==
  ASSUME NEW trees, NEW few, NEW more, NEW base \in Nat, NEW count \in Nat,
         Agree(few, more, base + count), Counted(trees, few, base, count)
  PROVE  Counted(trees, more, base, count)
<1> SUFFICES ASSUME NEW d \in BitsFrom(count, 0)
             PROVE  TreesOver(more)[d][TreeStart(base, count, d)]
                      = TreesOver(few)[d][TreeStart(base, count, d)]
  BY DEF Counted
<1>1. d \in 0 .. MaxSubtreeDepth - 1 /\ Shifted(count, d) % 2 = 1
      /\ d \in 0 .. MaxSubtreeDepth
  BY DepthType DEF BitsFrom
<1>2. PICK n \in Nat : n = base + count
  OBVIOUS
<1>3. PICK start : start = TreeStart(base, count, d)
  OBVIOUS
<1>4. start \in TreeFirst /\ start + Size[d] <= n + 1
  BY <1>1, <1>2, <1>3, StartsMeet
<1>5. Agree(few, more, n)
  BY <1>2
<1>6. TreesOver(more)[d][start] = TreesOver(few)[d][start]
  BY <1>1, <1>2, <1>4, <1>5, TreesStay
<1> QED
  BY <1>3, <1>6

LEMMA FewerTrees ==
  ASSUME NEW count \in Nat, NEW d \in Nat, NEW e \in Nat, d <= e
  PROVE  TreesFrom(count, e) <= TreesFrom(count, d)
<1>1. BitsFrom(count, e) \in SUBSET BitsFrom(count, d)
  BY DepthType DEF BitsFrom
<1>2. IsFiniteSet(BitsFrom(count, d))
  BY TreesFromType
<1> QED
  BY <1>1, <1>2, FS_Subset DEF TreesFrom

\* The loop hashes the trees of the 1 bits it clears, from the right.
LEMMA MergedNodes ==
  ASSUME NEW deposits, NEW base \in Nat, NEW i \in 1 .. paramMaxSubtreeSize,
         NEW k, k = Merges(i), NEW c, c = i - 1,
         NEW S, NEW trees \in Seq(S), Counted(trees, deposits, base, c)
  PROVE  /\ Len(trees) = TreesFrom(c, k) + k /\ TreesFrom(c, k) \in Nat /\ k \in Nat
         /\ MergeRight(Append(trees, deposits[base + i]), k)
              = Append(SubSeq(trees, 1, TreesFrom(c, k)),
                       TreesOver(deposits)[k][base + Shifted(c, k) * Size[k] + 1])
<1>1. /\ k \in 0 .. MaxSubtreeDepth /\ k \in Nat /\ c \in Nat /\ i \in Nat /\ c + 1 = i
      /\ \A d \in 0 .. k - 1 : Shifted(c, d) % 2 = 1
  BY Carry
<1>2. PICK n, len, leaf : n = TreesFrom(c, k) /\ len = Len(trees) /\ leaf = deposits[base + i]
  OBVIOUS
<1>3. n \in Nat /\ len \in Nat
  BY <1>1, <1>2, TreesFromType
<1>4. len = n + k
  <2>1. 0 \in 0 .. k
    BY <1>1
  <2>2. TreesFrom(c, 0) = TreesFrom(c, k) + (k - 0)
    BY <2>1, TreesBefore
  <2> QED
    BY <1>1, <1>2, <1>3, <2>2 DEF Counted
<1>5. PICK all : all = Append(trees, leaf)
  OBVIOUS
<1>6. /\ Len(all) = len + 1 /\ all[len + 1] = leaf
      /\ \A p \in 1 .. len : all[p] = trees[p]
  <2>1. trees \in Seq(S \cup {leaf}) /\ leaf \in S \cup {leaf}
    OBVIOUS
  <2> QED
    BY <1>2, <1>5, <2>1
<1> DEFINE nodes == [j \in 0 .. k |-> TreesOver(deposits)[j][base + Shifted(c, j) * Size[j] + 1]]
<1>7. nodes[0] = all[Len(all)]
  <2>1. 0 \in 0 .. k
    BY <1>1
  <2>2. Shifted(c, 0) = c /\ Size[0] = 1
    BY <1>1, ShiftedType, SizeType
  <2>3. base + Shifted(c, 0) * Size[0] + 1 = base + i /\ base + i \in TreeFirst
    BY <1>1, <2>2 DEF TreeFirst
  <2>4. TreesOver(deposits)[0][base + i] = deposits[base + i]
    BY <2>3, TreesDef
  <2>5. nodes[0] = TreesOver(deposits)[0][base + Shifted(c, 0) * Size[0] + 1]
    BY <2>1
  <2> QED
    BY <1>2, <1>3, <1>6, <2>3, <2>4, <2>5
<1>8. ASSUME NEW j \in 1 .. k PROVE nodes[j] = <<all[Len(all) - j], nodes[j - 1]>>
  <2>1. PICK d : d = j - 1
    OBVIOUS
  <2>2. /\ d \in 0 .. k - 1 /\ d + 1 = j /\ d \in 0 .. MaxSubtreeDepth - 1
        /\ j \in 0 .. k /\ d \in 0 .. k
    BY <1>1, <2>1, DepthType
  <2>3. d \in BitsFrom(c, 0)
    BY <1>1, <2>2 DEF BitsFrom
  <2>4. PICK start : start = TreeStart(base, c, d)
    OBVIOUS
  <2>5. trees[TreesFrom(c, j) + 1] = TreesOver(deposits)[d][start]
    BY <2>2, <2>3, <2>4 DEF Counted
  <2>6. start \in TreeFirst /\ start + Size[d] = base + Shifted(c, d) * Size[d] + 1
    BY <1>1, <2>2, <2>4, StartsMeet
  <2>7. TreesOver(deposits)[j][start]
          = <<TreesOver(deposits)[d][start], TreesOver(deposits)[d][start + Size[d]]>>
    BY <2>2, <2>6, TreesDef
  <2>8. start = base + Shifted(c, j) * Size[j] + 1
    BY <2>2, <2>4 DEF TreeStart
  <2>9. all[Len(all) - j] = trees[TreesFrom(c, j) + 1]
    <3>1. TreesFrom(c, j) = n + (k - j)
      BY <1>2, <2>2, TreesBefore
    <3>2. Len(all) - j = TreesFrom(c, j) + 1
      BY <1>1, <1>3, <1>4, <1>6, <3>1
    <3>3. TreesFrom(c, j) + 1 \in 1 .. len
      <4>1. j \in Nat /\ 1 <= j /\ j <= k /\ k \in Nat /\ n \in Nat
        BY <1>1, <1>3
      <4>2. len = n + k
        BY <1>4
      <4>3. n + (k - j) + 1 \in 1 .. n + k
        BY <4>1
      <4> QED
        BY <3>1, <4>2, <4>3
    <3> QED
      BY <1>6, <3>2, <3>3
  <2>10. nodes[d] = TreesOver(deposits)[d][start + Size[d]]
    BY <2>2, <2>6
  <2>11. nodes[j] = TreesOver(deposits)[j][start]
    BY <2>2, <2>8
  <2> HIDE DEF nodes
  <2> QED
    BY <2>1, <2>5, <2>7, <2>9, <2>10, <2>11
<1>9. nodes[k] = TreesOver(deposits)[k][base + Shifted(c, k) * Size[k] + 1]
  BY <1>1
<1> HIDE DEF nodes
<1>10. MergeRight(all, k) = Append(SubSeq(all, 1, Len(all) - k - 1), nodes[k])
  BY <1>1, <1>7, <1>8, MergedIs
<1>11. Len(all) - k - 1 = n /\ n <= len
  BY <1>1, <1>3, <1>4, <1>6
<1>12. SubSeq(all, 1, n) = SubSeq(trees, 1, n)
  <2>1. trees \in Seq(S \cup {leaf}) /\ all \in Seq(S \cup {leaf})
    BY <1>5
  <2>2. /\ SubSeq(all, 1, n) = [p \in 1 .. n |-> all[p]]
        /\ SubSeq(trees, 1, n) = [p \in 1 .. n |-> trees[p]]
    BY <1>2, <1>3, <1>6, <1>11, <2>1
  <2>3. \A p \in 1 .. n : all[p] = trees[p]
    BY <1>3, <1>6, <1>11
  <2> QED
    BY <2>2, <2>3
<1> QED
  BY <1>1, <1>2, <1>3, <1>4, <1>5, <1>9, <1>10, <1>11, <1>12

\* As long as the subtree is not complete, its count has its trees again.
LEMMA MergeCounts ==
  ASSUME NEW deposits, NEW base \in Nat, NEW i \in 1 .. paramMaxSubtreeSize,
         i # paramMaxSubtreeSize, NEW c, c = i - 1,
         NEW S, NEW trees \in Seq(S), Counted(trees, deposits, base, c),
         NEW merged, merged = MergeRight(Append(trees, deposits[base + i]), Merges(i))
  PROVE  Counted(merged, deposits, base, i)
<1>1. PICK k : k = Merges(i)
  OBVIOUS
<1>2. /\ k \in 0 .. MaxSubtreeDepth - 1 /\ k \in Nat /\ c \in Nat /\ i \in Nat
      /\ Shifted(c, k) % 2 = 0
      /\ \A d \in k + 1 .. MaxSubtreeDepth : Shifted(i, d) = Shifted(c, d)
  BY <1>1, Carry, TreesAfter
<1>3. PICK n, node : /\ n = TreesFrom(c, k)
                     /\ node = TreesOver(deposits)[k][base + Shifted(c, k) * Size[k] + 1]
  OBVIOUS
<1>4. /\ Len(trees) = n + k /\ n \in Nat
      /\ merged = Append(SubSeq(trees, 1, n), node)
  <2>1. merged = MergeRight(Append(trees, deposits[base + i]), k)
    BY <1>1
  <2>2. /\ Len(trees) = TreesFrom(c, k) + k /\ TreesFrom(c, k) \in Nat /\ k \in Nat
        /\ MergeRight(Append(trees, deposits[base + i]), k)
             = Append(SubSeq(trees, 1, TreesFrom(c, k)),
                      TreesOver(deposits)[k][base + Shifted(c, k) * Size[k] + 1])
    BY <1>1, MergedNodes, SMTT(30)
  <2> QED
    BY <1>3, <2>1, <2>2
<1>5. /\ Len(merged) = n + 1 /\ merged[n + 1] = node
      /\ \A p \in 1 .. n : merged[p] = trees[p]
  <2>1. SubSeq(trees, 1, n) = [p \in 1 .. n |-> trees[p]]
    BY <1>2, <1>4
  <2>2. SubSeq(trees, 1, n) \in Seq(S \cup {node}) /\ Len(SubSeq(trees, 1, n)) = n
    BY <1>2, <1>4
  <2>3. \A p \in 1 .. n : SubSeq(trees, 1, n)[p] = trees[p]
    BY <2>1
  <2>4. PICK kept : kept = SubSeq(trees, 1, n)
    OBVIOUS
  <2>5. kept \in Seq(S \cup {node}) /\ Len(kept) = n /\ node \in S \cup {node}
    BY <2>2, <2>4
  <2>6. /\ Len(Append(kept, node)) = n + 1 /\ Append(kept, node)[n + 1] = node
        /\ \A p \in 1 .. n : Append(kept, node)[p] = kept[p]
    BY <1>4, <2>5
  <2> QED
    BY <1>4, <2>3, <2>4, <2>6
<1>6. /\ \A d \in k + 1 .. MaxSubtreeDepth : TreesFrom(i, d) = TreesFrom(c, d)
      /\ n = TreesFrom(c, k + 1)
      /\ BitsFrom(i, 0) = BitsFrom(c, k + 1) \cup {k}
      /\ TreesFrom(i, 0) = n + 1
  <2>1. 0 \in 0 .. k
    BY <1>2
  <2> QED
    BY <1>1, <1>3, <2>1, TreesAfter
<1>7. ASSUME NEW d \in BitsFrom(i, 0)
      PROVE  merged[TreesFrom(i, d + 1) + 1] = TreesOver(deposits)[d][TreeStart(base, i, d)]
  <2>1. d \in 0 .. MaxSubtreeDepth - 1
    BY DEF BitsFrom
  <2>2. CASE d = k
    <3>1. k + 1 \in k + 1 .. MaxSubtreeDepth
      BY <1>2, DepthType
    <3>2. TreesFrom(i, d + 1) = n /\ Shifted(i, k + 1) = Shifted(c, k + 1)
      BY <1>2, <1>6, <2>2, <3>1
    <3>3. TreeStart(base, i, k) = TreeStart(base, c, k)
      BY <3>2 DEF TreeStart
    <3>4. TreeStart(base, c, k) = base + Shifted(c, k) * Size[k] + 1
      BY <1>2, StartsMeet
    <3> QED
      BY <1>3, <1>5, <2>2, <3>2, <3>3, <3>4
  <2>3. CASE d \in BitsFrom(c, k + 1)
    <3>1. d >= k + 1 /\ Shifted(c, d) % 2 = 1 /\ d \in BitsFrom(c, 0)
      BY <1>2, <2>1, <2>3 DEF BitsFrom
    <3>2. d + 1 \in k + 1 .. MaxSubtreeDepth /\ d \in Nat /\ k + 1 \in Nat /\ k + 1 <= d
      BY <1>2, <2>1, <3>1, DepthType
    <3>3. TreesFrom(i, d + 1) = TreesFrom(c, d + 1) /\ Shifted(i, d + 1) = Shifted(c, d + 1)
      BY <1>2, <1>6, <3>2
    <3>4. TreesFrom(c, d) = TreesFrom(c, d + 1) + 1
      BY <1>2, <2>1, <3>1, TreesFromType
    <3>5. TreesFrom(c, d) <= n /\ TreesFrom(c, d + 1) \in Nat /\ TreesFrom(c, d) \in Nat
      <4>1. d + 1 \in Nat
        BY <3>2
      <4> QED
        BY <1>2, <1>6, <3>2, <4>1, FewerTrees, TreesFromType
    <3>6. TreesFrom(c, d + 1) + 1 \in 1 .. n
      BY <1>4, <3>4, <3>5
    <3>7. merged[TreesFrom(c, d + 1) + 1] = trees[TreesFrom(c, d + 1) + 1]
      BY <1>5, <3>6
    <3>8. trees[TreesFrom(c, d + 1) + 1] = TreesOver(deposits)[d][TreeStart(base, c, d)]
      BY <3>1 DEF Counted
    <3>9. TreeStart(base, i, d) = TreeStart(base, c, d)
      BY <3>3 DEF TreeStart
    <3> QED
      BY <3>3, <3>7, <3>8, <3>9
  <2> QED
    BY <1>6, <2>2, <2>3
<1> QED
  BY <1>5, <1>6, <1>7 DEF Counted

Complete(i) == i = paramMaxSubtreeSize

\* The last deposit completes the subtree over all of them.
LEMMA MergeCompletes ==
  ASSUME NEW deposits, NEW base \in Nat,
         NEW i \in 1 .. paramMaxSubtreeSize, Complete(i),
         NEW c, c = i - 1,
         NEW S, NEW trees \in Seq(S), Counted(trees, deposits, base, c),
         NEW merged, merged = MergeRight(Append(trees, deposits[base + i]), Merges(i))
  PROVE  merged[1] = TreesOver(deposits)[MaxSubtreeDepth][base + 1]
<1>1. i \in Nat \ {0} /\ MaxSubtreeDepth \in Nat
      /\ MaxSubtreeDepth \in 0 .. MaxSubtreeDepth
  BY SubtreeSize, DepthType DEF SubtreeSizeType, Complete
<1>2. PICK k : k = Merges(i)
  OBVIOUS
<1>3. k = MaxSubtreeDepth /\ c \in Nat /\ c < i
  BY <1>1, <1>2, FullCount DEF Complete
<1>4. Shifted(c, k) = 0
  <2>1. PICK q, s : q = Shifted(c, k) /\ s = Size[MaxSubtreeDepth]
    OBVIOUS
  <2>2. q \in Nat /\ s * q <= c /\ s \in Nat \ {0} /\ s = i
    BY <1>1, <1>3, <2>1, ShiftedType, SizeType DEF paramMaxSubtreeSize, Complete
  <2>3. q = 0
    <3> SUFFICES ASSUME q # 0 PROVE FALSE
      OBVIOUS
    <3>1. PICK r \in Nat : q = 1 + r
      BY <2>2
    <3>2. s * (1 + r) = s + s * r /\ s * r \in Nat
      BY <2>2
    <3>3. PICK t \in Nat : t = s * r /\ s * q = s + t
      BY <3>1, <3>2
    <3>4. s + t <= c
      BY <2>2, <3>3
    <3> QED
      BY <1>3, <2>2, <3>4
  <2> QED
    BY <2>1, <2>3
<1>5. TreesFrom(c, k) = 0
  BY <1>3, TreesFromType
<1>6. PICK n, node : /\ n = TreesFrom(c, k)
                     /\ node = TreesOver(deposits)[k][base + Shifted(c, k) * Size[k] + 1]
  OBVIOUS
<1>7. merged = Append(SubSeq(trees, 1, 0), node)
  <2>1. /\ Len(trees) = n + k /\ n \in Nat
        /\ merged = Append(SubSeq(trees, 1, n), node)
    BY <1>2, <1>6, MergedNodes
  <2> QED
    BY <1>5, <1>6, <2>1
<1>8. SubSeq(trees, 1, 0) = <<>>
  OBVIOUS
<1>9. merged[1] = node
  BY <1>7, <1>8
<1>10. base + Shifted(c, k) * Size[k] + 1 = base + 1
  <2>1. Size[k] \in Nat
    BY <1>1, <1>3, SizeType
  <2> QED
    BY <1>4, <2>1
<1> QED
  BY <1>3, <1>6, <1>9, <1>10

\* No deposits, no trees.
LEMMA NoneCounted ==
  ASSUME NEW deposits, NEW base
  PROVE  Counted(<<>>, deposits, base, 0)
<1>1. ASSUME NEW d \in 0 .. MaxSubtreeDepth - 1 PROVE Shifted(0, d) % 2 # 1
  <2>1. PICK q, s : q = Shifted(0, d) /\ s = Size[d]
    OBVIOUS
  <2>2. q \in Nat /\ s * q <= 0 /\ s \in Nat \ {0}
    <3>1. d \in 0 .. MaxSubtreeDepth
      BY DepthType
    <3> QED
      BY <2>1, <3>1, ShiftedType, SizeType
  <2>3. q = 0
    BY <2>2
  <2> QED
    BY <2>1, <2>3
<1>2. BitsFrom(0, 0) = {}
  BY <1>1 DEF BitsFrom
<1>3. TreesFrom(0, 0) = 0
  BY <1>2, FS_EmptySet DEF TreesFrom
<1> QED
  BY <1>2, <1>3 DEF Counted

(***************************************************************************)
(* The invariant.                                                          *)
(***************************************************************************)
Leaf == {<<state>> : state \in [pubkeyID : Nat, balance : Nat]}

\* Deposits are told apart by their numbers; the queue's IDs are contiguous.
Types ==
  /\ depositCount \in 0 .. paramMaxSubtreeSize - 1
  /\ leaves \in Seq(Leaf)
  /\ \A n \in 1 .. Len(leaves) : leaves[n][1].pubkeyID = n
  /\ babyTrees \in Seq(Range(babyTrees))
  /\ front \in Nat \ {0} /\ back \in Nat /\ front <= back + 1
  /\ DOMAIN queue = front .. back
  /\ rollup \in {NoAddress, RollupAddress}
  /\ vault \in Nat

\* The deposits are those of complete subtrees and those that are counted.
Counting ==
  /\ Len(leaves) = Completed * paramMaxSubtreeSize + depositCount
  /\ Counted(babyTrees, leaves, Completed * paramMaxSubtreeSize, depositCount)

\* What waits in the queue and what the rollup was given are complete subtrees.
IsSubtree(root) == \E k \in 1 .. Completed : root = Subtree(k)

OnlySubtrees ==
  /\ \A id \in front .. back : IsSubtree(queue[id])
  /\ \A root \in dequeued : IsSubtree(root)

IInv == Types /\ Counting /\ OnlySubtrees /\ SubtreesReachRollup

LEMMA CompletedType ==
  ASSUME Types
  PROVE  Completed \in Nat /\ Len(leaves) \in Nat /\ depositCount \in Nat
<1>1. Len(leaves) \in Nat /\ depositCount \in Nat
  BY SubtreeSize DEF Types, SubtreeSizeType
<1> QED
  BY <1>1, SubtreeSize, Quotient DEF SubtreeSizeType, Completed

\* Where the k-th subtree begins and ends.
LEMMA SubtreeEnds ==
  ASSUME NEW q \in Nat, NEW k \in 1 .. q, NEW s \in Nat \ {0}
  PROVE  (k - 1) * s + 1 \in TreeFirst /\ ((k - 1) * s + 1) + s <= q * s + 1
<1>1. PICK j \in Nat : k = j + 1
  <2>1. k - 1 \in Nat /\ k = (k - 1) + 1
    OBVIOUS
  <2> QED
    BY <2>1
<1>2. PICK r \in Nat : q = j + 1 + r
  <2>1. q - k \in Nat /\ q = k + (q - k)
    OBVIOUS
  <2> QED
    BY <1>1, <2>1
<1>3. PICK js \in Nat, rs \in Nat : js = j * s /\ rs = r * s
  OBVIOUS
<1>4. (j + 1 + r) * s = js + s + rs
  BY <1>3
<1> QED
  BY <1>1, <1>2, <1>3, <1>4 DEF TreeFirst

\* Deposits that follow do not change the complete subtrees.
LEMMA SubtreeStays ==
  ASSUME Types, Counting, Agree(leaves, leaves', Len(leaves)), NEW k \in 1 .. Completed
  PROVE  Subtree(k)' = Subtree(k)
<1>1. PICK s, q, n : s = paramMaxSubtreeSize /\ q = Completed /\ n = Len(leaves)
  OBVIOUS
<1>2. /\ s \in Nat \ {0} /\ q \in Nat /\ n \in Nat /\ depositCount \in Nat
      /\ s = Size[MaxSubtreeDepth]
      /\ MaxSubtreeDepth \in 0 .. MaxSubtreeDepth
  BY <1>1, SubtreeSize, CompletedType, DepthType DEF SubtreeSizeType, paramMaxSubtreeSize
<1>3. PICK first : first = (k - 1) * s + 1
  OBVIOUS
<1>4. first \in TreeFirst /\ first + s <= q * s + 1
  BY <1>1, <1>2, <1>3, SubtreeEnds
<1>5. q * s + depositCount = n /\ q * s \in Nat
  BY <1>1, <1>2 DEF Counting
<1>6. first + Size[MaxSubtreeDepth] <= n + 1
  <2>1. PICK t, c : t = q * s /\ c = depositCount
    OBVIOUS
  <2>2. t \in Nat /\ c \in Nat /\ t + c = n
    BY <1>2, <1>5, <2>1
  <2>3. first + s <= t + 1 /\ first \in Nat /\ s \in Nat
    BY <1>2, <1>4, <2>1 DEF TreeFirst
  <2>4. first + s <= n + 1
    BY <2>2, <2>3
  <2> QED
    BY <1>2, <2>4
<1>7. Agree(leaves, leaves', n)
  BY <1>1
<1>8. TreesOver(leaves')[MaxSubtreeDepth][first] = TreesOver(leaves)[MaxSubtreeDepth][first]
  BY <1>2, <1>4, <1>6, <1>7, TreesStay
<1> QED
  BY <1>1, <1>3, <1>8 DEF Subtree, PerfectTree

\* The k-th subtree over some deposits, and the number of a node among the
\* first q of them.
SubtreeOver(deposits, k) ==
  TreesOver(deposits)[MaxSubtreeDepth][(k - 1) * paramMaxSubtreeSize + 1]

NumberIn(deposits, q, root) ==
  IF \E k \in 1 .. q : SubtreeOver(deposits, k) = root
  THEN CHOOSE k \in 1 .. q : SubtreeOver(deposits, k) = root
  ELSE 0

Numbered(deposits, n) == \A i \in 1 .. n : deposits[i][1].pubkeyID = i

\* Different subtrees begin with different deposits.
LEMMA SubtreesDiffer ==
  ASSUME NEW deposits, NEW q \in Nat, Numbered(deposits, q * paramMaxSubtreeSize),
         NEW j \in 1 .. q, NEW k \in 1 .. q, SubtreeOver(deposits, j) = SubtreeOver(deposits, k)
  PROVE  j = k
<1>1. PICK s \in Nat \ {0} : s = paramMaxSubtreeSize
  BY SubtreeSize DEF SubtreeSizeType
<1>2. MaxSubtreeDepth \in 0 .. MaxSubtreeDepth
  BY DepthType
<1>3. PICK a, b, n : a = (j - 1) * s + 1 /\ b = (k - 1) * s + 1 /\ n = q * s
  OBVIOUS
<1>4. a \in TreeFirst /\ a + s <= n + 1 /\ b \in TreeFirst /\ b + s <= n + 1
  BY <1>3, SubtreeEnds
<1>5. n \in Nat
  BY <1>3
<1>6. a \in 1 .. n /\ b \in 1 .. n
  BY <1>4, <1>5 DEF TreeFirst
<1>7. TreesOver(deposits)[MaxSubtreeDepth][a] = TreesOver(deposits)[MaxSubtreeDepth][b]
  BY <1>1, <1>3 DEF SubtreeOver
<1>8. deposits[a] = deposits[b]
  BY <1>2, <1>4, <1>7, TreesBegin
<1>9. deposits[a][1].pubkeyID = a /\ deposits[b][1].pubkeyID = b
  BY <1>1, <1>3, <1>6 DEF Numbered
<1>10. (j - 1) * s = (k - 1) * s
  BY <1>3, <1>8, <1>9
<1>11. ASSUME NEW x \in 1 .. q, NEW y \in 1 .. q, x < y PROVE (x - 1) * s # (y - 1) * s
  <2>1. PICK d \in Nat : y = x + 1 + d
    <3>1. y - (x + 1) \in Nat /\ y = x + 1 + (y - (x + 1))
      BY <1>11
    <3> QED
      BY <3>1
  <2>2. PICK xs \in Nat : xs = (x - 1) * s
    OBVIOUS
  <2>3. (y - 1) * s = xs + s + d * s
    BY <2>1, <2>2
  <2>4. PICK ds \in Nat : ds = d * s
    OBVIOUS
  <2> QED
    BY <2>2, <2>3, <2>4
<1>12. ~ (j < k) /\ ~ (k < j)
  BY <1>10, <1>11
<1> QED
  BY <1>12

LEMMA NumberIs ==
  ASSUME NEW deposits, NEW q \in Nat, Numbered(deposits, q * paramMaxSubtreeSize),
         NEW k \in 1 .. q, NEW root, root = SubtreeOver(deposits, k)
  PROVE  NumberIn(deposits, q, root) = k
<1>1. PICK j : j = NumberIn(deposits, q, root)
  OBVIOUS
<1>2. j \in 1 .. q /\ SubtreeOver(deposits, j) = root
  BY <1>1 DEF NumberIn
<1> QED
  BY <1>1, <1>2, SubtreesDiffer

LEMMA SubtreesNumbered ==
  /\ \A k : Subtree(k) = SubtreeOver(leaves, k)
  /\ \A root : SubtreeNumber(root) = NumberIn(leaves, Completed, root)
BY DEF Subtree, PerfectTree, SubtreeOver, SubtreeNumber, NumberIn

LEMMA SubtreesNumberedNext ==
  /\ \A k : Subtree(k)' = SubtreeOver(leaves', k)
  /\ \A root : SubtreeNumber(root)' = NumberIn(leaves', Completed', root)
BY DEF Subtree, PerfectTree, SubtreeOver, SubtreeNumber, NumberIn

LEMMA DepositsNumbered ==
  ASSUME Types, Counting
  PROVE  Numbered(leaves, Completed * paramMaxSubtreeSize)
<1>1. PICK s, q, t : s = paramMaxSubtreeSize /\ q = Completed /\ t = q * s
  OBVIOUS
<1>2. s \in Nat \ {0} /\ q \in Nat /\ Len(leaves) \in Nat /\ depositCount \in Nat
  BY <1>1, SubtreeSize, CompletedType DEF SubtreeSizeType
<1>3. t \in Nat
  BY <1>1, <1>2
<1>4. t <= Len(leaves)
  BY <1>1, <1>2, <1>3 DEF Counting
<1> QED
  BY <1>1, <1>2, <1>3, <1>4 DEF Types, Numbered

LEMMA DepositsNumberedNext ==
  ASSUME IInv'
  PROVE  Numbered(leaves', Completed' * paramMaxSubtreeSize)
<1>1. PICK s, q, t, n, c : /\ s = paramMaxSubtreeSize /\ q = Completed' /\ t = q * s
                           /\ n = Len(leaves') /\ c = depositCount'
  OBVIOUS
<1>2. s \in Nat \ {0} /\ n \in Nat /\ c \in Nat
  BY <1>1, SubtreeSize DEF SubtreeSizeType, IInv, Types
<1>3. q \in Nat
  <2>1. q = n \div s
    BY <1>1 DEF Completed
  <2> QED
    BY <1>2, <2>1, Quotient
<1>4. t \in Nat /\ n = t + c
  <2>1. t \in Nat
    <3>1. q * s \in Nat
      BY <1>2, <1>3
    <3> QED
      BY <1>1, <3>1
  <2>2. n = t + c
    BY <1>1 DEF IInv, Counting
  <2> QED
    BY <2>1, <2>2
<1>5. t <= n
  BY <1>2, <1>4
<1>6. \A i \in 1 .. n : leaves'[i][1].pubkeyID = i
  BY <1>1 DEF IInv, Types
<1> QED
  BY <1>1, <1>2, <1>4, <1>5, <1>6 DEF Numbered

(***************************************************************************)
(* The steps.                                                              *)
(***************************************************************************)
LEMMA InitIInv == Init => IInv /\ VaultBacksDeposits
<1> SUFFICES ASSUME Init PROVE IInv /\ VaultBacksDeposits
  OBVIOUS
<1>1. /\ babyTrees = <<>> /\ depositCount = 0 /\ queue = <<>> /\ front = 1 /\ back = 0
      /\ rollup = NoAddress /\ vault = 0 /\ leaves = <<>> /\ dequeued = {}
  BY DEF Init
<1>2. PICK s \in Nat \ {0} : s = paramMaxSubtreeSize
  BY SubtreeSize DEF SubtreeSizeType
<1>3. Completed = 0
  <2>1. s * 0 = 0
    BY <1>2
  <2>2. 0 \div s = 0
    BY <2>1, QuotientIs
  <2>3. Len(leaves) = 0
    BY <1>1
  <2> QED
    BY <1>2, <2>2, <2>3 DEF Completed
<1>4. Types
  BY <1>1, <1>2 DEF Types, Range
<1>5. Counting
  <2>1. 0 * s = 0
    BY <1>2
  <2>2. Counted(<<>>, leaves, 0, 0)
    BY NoneCounted
  <2> QED
    BY <1>1, <1>2, <1>3, <2>1, <2>2 DEF Counting
<1>6. OnlySubtrees /\ SubtreesReachRollup
  BY <1>1, <1>3 DEF OnlySubtrees, SubtreesReachRollup
<1>7. VaultBacksDeposits
  <2> DEFINE f == [n \in DOMAIN leaves |-> leaves[n][1].balance]
  <2>1. DOMAIN leaves = {} /\ DOMAIN f = {}
    BY <1>1
  <2>2. SumFunction(f) = SumFunctionOnSet(f, {})
    BY <2>1 DEF SumFunction
  <2> HIDE DEF f
  <2>3. SumFunctionOnSet(f, {}) = 0
    BY SumOfNone
  <2>4. L2Unit * 0 = 0
    BY DepositAssumption
  <2> QED
    BY <1>1, <2>2, <2>3, <2>4 DEF VaultBacksDeposits, f
<1> QED
  BY <1>4, <1>5, <1>6, <1>7 DEF IInv

\* A deposit is a new leaf behind the others.
LEMMA NewLeaf ==
  ASSUME Types, NEW l1Amount \in Amounts, depositFor(l1Amount)
  PROVE  LET n == Len(leaves)
         IN  /\ n \in Nat /\ Len(leaves') = n + 1
             /\ leaves' \in Seq(Leaf)
             /\ Agree(leaves, leaves', n)
             /\ leaves'[n + 1] = DepositLeaf(n + 1, l1Amount \div L2Unit)
             /\ \A i \in 1 .. n + 1 : leaves'[i][1].pubkeyID = i
             /\ l1Amount \div L2Unit \in Nat
<1>1. PICK n, leaf : n = Len(leaves) /\ leaf = DepositLeaf(n + 1, l1Amount \div L2Unit)
  OBVIOUS
<1>2. n \in Nat /\ leaves \in Seq(Leaf) /\ leaves' = Append(leaves, leaf)
  BY <1>1 DEF Types, depositFor
<1>3. l1Amount \div L2Unit \in Nat
  <2>1. l1Amount \in Nat /\ L2Unit \in Nat \ {0}
    BY DepositAssumption
  <2> QED
    BY <2>1, Quotient
<1>4. leaf \in Leaf
  BY <1>1, <1>2, <1>3 DEF Leaf, DepositLeaf
<1>5. /\ leaves' \in Seq(Leaf) /\ Len(leaves') = n + 1 /\ leaves'[n + 1] = leaf
      /\ \A i \in 1 .. n : leaves'[i] = leaves[i]
  BY <1>1, <1>2, <1>4
<1>6. leaf[1].pubkeyID = n + 1
  BY <1>1 DEF DepositLeaf
<1>7. \A i \in 1 .. n + 1 : leaves'[i][1].pubkeyID = i
  <2>1. \A i \in 1 .. n : leaves[i][1].pubkeyID = i
    BY <1>1 DEF Types
  <2>2. \A i \in 1 .. n + 1 : i \in 1 .. n \/ i = n + 1
    BY <1>2
  <2> QED
    BY <1>5, <1>6, <2>1, <2>2
<1> QED
  BY <1>1, <1>2, <1>3, <1>5, <1>7 DEF Agree

\* The IDs of the queue and what they are of, after a subtree joins it.
LEMMA Enqueued ==
  ASSUME Types, NEW root, enqueue(root), UNCHANGED front
  PROVE  /\ back' = back + 1 /\ back' \in Nat /\ front' <= back' + 1
         /\ DOMAIN queue' = front .. back'
         /\ \A id \in front .. back : queue'[id] = queue[id]
         /\ queue'[back'] = root /\ back' \in front .. back'
<1>1. /\ front \in Nat \ {0} /\ back \in Nat /\ front <= back + 1
      /\ DOMAIN queue = front .. back
      /\ back' = back + 1
      /\ queue' = [id \in DOMAIN queue \cup {back + 1} |->
                     IF id = back + 1 THEN root ELSE queue[id]]
  BY DEF Types, enqueue
<1>2. (front .. back) \cup {back + 1} = front .. back + 1
  BY <1>1
<1> QED
  BY <1>1, <1>2

\* insertAndMerge counts on, or the subtree is complete and joins the queue.
LEMMA DepositCounts ==
  ASSUME Types, Counting, NEW l1Amount \in Amounts, depositFor(l1Amount)
  PROVE  \/ /\ depositCount + 1 # paramMaxSubtreeSize
            /\ depositCount' = depositCount + 1 /\ Completed' = Completed
            /\ UNCHANGED <<queue, back>>
            /\ Counting'
         \/ /\ depositCount' = 0 /\ Completed' = Completed + 1
            /\ babyTrees' = <<>>
            /\ enqueue(Subtree(Completed)')
            /\ Counting'
<1>1. PICK s, q, n, c, i, base, leaf :
        /\ s = paramMaxSubtreeSize /\ q = Completed /\ n = Len(leaves)
        /\ c = depositCount /\ i = c + 1 /\ base = q * s
        /\ leaf = DepositLeaf(n + 1, l1Amount \div L2Unit)
  OBVIOUS
<1>2. /\ s \in Nat \ {0} /\ q \in Nat /\ n \in Nat /\ c \in Nat /\ c < s
      /\ base \in Nat /\ n = base + c
  <2>1. s \in Nat \ {0} /\ q \in Nat /\ n \in Nat /\ c \in Nat /\ c < s
    BY <1>1, SubtreeSize, CompletedType DEF SubtreeSizeType, Types
  <2>2. q * s \in Nat
    BY <2>1
  <2>3. n = base + c
    BY <1>1 DEF Counting
  <2> QED
    BY <1>1, <2>1, <2>2, <2>3
<1>3. i \in 1 .. s /\ c = i - 1 /\ base + i = n + 1 /\ base + c = n /\ i \in Nat
  BY <1>1, <1>2
<1>4. /\ Len(leaves') = n + 1 /\ Agree(leaves, leaves', n) /\ leaves'[n + 1] = leaf
  BY <1>1, NewLeaf
<1>5. Counted(babyTrees, leaves', base, c)
  <2>1. Counted(babyTrees, leaves, base, c)
    BY <1>1 DEF Counting
  <2> QED
    BY <1>2, <1>3, <1>4, <2>1, CountedStays
<1>6. PICK S : S = Range(babyTrees) /\ babyTrees \in Seq(S)
  BY DEF Types
<1>7. PICK merged : merged = MergeRight(Append(babyTrees, leaves'[base + i]), Merges(i))
  OBVIOUS
<1>8. leaves'[base + i] = leaf
  BY <1>3, <1>4
<1>9. IF i = s
      THEN enqueue(merged[1]) /\ babyTrees' = <<>> /\ depositCount' = 0
      ELSE babyTrees' = merged /\ depositCount' = i /\ UNCHANGED <<queue, back>>
  BY <1>1, <1>7, <1>8 DEF depositFor, insertAndMerge
<1>10. s * q = base
  BY <1>1, <1>2
<1>11. CASE i # s
  <2>1. i < s
    BY <1>2, <1>3, <1>11
  <2>2. Completed' = q
    <3>1. s * q <= n + 1 /\ n + 1 < s * q + s
      BY <1>2, <1>3, <1>10, <2>1
    <3>2. (n + 1) \div s = q
      BY <1>2, <3>1, QuotientIs
    <3> QED
      BY <1>1, <1>4, <3>2 DEF Completed
  <2>3. Counted(merged, leaves', base, i)
    BY <1>1, <1>2, <1>3, <1>5, <1>6, <1>7, <1>11, MergeCounts
  <2>4. Counting'
    BY <1>1, <1>3, <1>4, <1>9, <1>11, <2>2, <2>3 DEF Counting
  <2> QED
    BY <1>1, <1>9, <1>11, <2>2, <2>4
<1>12. CASE i = s
  <2>1. Completed' = q + 1
    <3>1. s * (q + 1) = base + s
      BY <1>2, <1>10
    <3>2. s * (q + 1) <= n + 1 /\ n + 1 < s * (q + 1) + s
      BY <1>2, <1>3, <1>12, <3>1
    <3>3. (n + 1) \div s = q + 1
      BY <1>2, <3>2, QuotientIs
    <3> QED
      BY <1>1, <1>4, <3>3 DEF Completed
  <2>2. Complete(i) /\ i \in 1 .. paramMaxSubtreeSize
    BY <1>1, <1>3, <1>12 DEF Complete
  <2>3. merged[1] = TreesOver(leaves')[MaxSubtreeDepth][base + 1]
    BY <1>2, <1>3, <1>5, <1>6, <1>7, <2>2, MergeCompletes
  <2>4. Subtree(Completed)' = merged[1]
    <3>1. Subtree(Completed)'
            = TreesOver(leaves')[MaxSubtreeDepth][(Completed' - 1) * s + 1]
      BY <1>1 DEF Subtree, PerfectTree
    <3>2. Completed' - 1 = q
      BY <1>2, <2>1
    <3> QED
      BY <1>1, <2>3, <3>1, <3>2
  <2>5. Counting'
    <3>1. Completed' * s = n + 1
      <4>1. (q + 1) * s = q * s + s
        BY <1>2
      <4> QED
        BY <1>1, <1>2, <1>3, <1>12, <2>1, <4>1
    <3>2. Counted(<<>>, leaves', n + 1, 0)
      BY NoneCounted
    <3>3. babyTrees' = <<>> /\ depositCount' = 0
      BY <1>9, <1>12
    <3>4. Len(leaves') = Completed' * s + 0
      BY <1>2, <1>4, <3>1
    <3> QED
      BY <1>1, <3>1, <3>2, <3>3, <3>4 DEF Counting
  <2> QED
    BY <1>1, <1>9, <1>12, <2>1, <2>4, <2>5
<1> QED
  BY <1>11, <1>12

LEMMA OwnRange ==
  ASSUME NEW S, NEW seq \in Seq(S)
  PROVE  seq \in Seq(Range(seq))
<1>1. Len(seq) \in Nat /\ DOMAIN seq = 1 .. Len(seq) /\ seq = [i \in 1 .. Len(seq) |-> seq[i]]
  OBVIOUS
<1>2. \A i \in 1 .. Len(seq) : seq[i] \in Range(seq)
  BY <1>1 DEF Range
<1> QED
  BY <1>1, <1>2

\* The baby trees stay a sequence.
LEMMA BabiesAreSequence ==
  ASSUME Types, Counting, NEW l1Amount \in Amounts, depositFor(l1Amount)
  PROVE  babyTrees' \in Seq(Range(babyTrees'))
<1>1. PICK S : S = Range(babyTrees) /\ babyTrees \in Seq(S)
  BY DEF Types
<1>2. PICK leaf, k, trees : /\ leaf = DepositLeaf(Len(leaves) + 1, l1Amount \div L2Unit)
                            /\ k = Merges(depositCount + 1)
                            /\ trees = MergeRight(Append(babyTrees, leaf), k)
  OBVIOUS
<1>3. babyTrees' = trees \/ babyTrees' = <<>>
  BY <1>2 DEF depositFor, insertAndMerge
<1>4. CASE babyTrees' = <<>>
  BY <1>4
<1>5. CASE babyTrees' = trees
  <2>1. \E n \in 0 .. Len(babyTrees) : \E node :
          trees = Append(SubSeq(babyTrees, 1, n), node)
    <3>1. PICK base, i, s : /\ base = Completed * paramMaxSubtreeSize
                            /\ i = depositCount + 1 /\ s = paramMaxSubtreeSize
      OBVIOUS
    <3>2. s \in Nat \ {0} /\ Completed \in Nat /\ depositCount \in 0 .. s - 1
      BY <3>1, SubtreeSize, CompletedType DEF SubtreeSizeType, Types
    <3>3. base \in Nat /\ i \in 1 .. paramMaxSubtreeSize /\ depositCount = i - 1
      BY <3>1, <3>2
    <3>4. /\ Agree(leaves, leaves', Len(leaves)) /\ Len(leaves) \in Nat
          /\ leaves'[Len(leaves) + 1] = leaf
      BY <1>2, NewLeaf
    <3>5. Len(leaves) = base + depositCount /\ Len(leaves) + 1 = base + i
      <4>1. Len(leaves) = base + depositCount
        BY <3>1 DEF Counting
      <4> QED
        BY <3>1, <3>2, <3>3, <4>1
    <3>6. Counted(babyTrees, leaves, base, depositCount)
      BY <3>1 DEF Counting
    <3>7. PICK c \in Nat : c = depositCount
      BY <3>2
    <3>8. Counted(babyTrees, leaves', base, c)
      BY <3>3, <3>4, <3>5, <3>6, <3>7, CountedStays
    <3>9. PICK n, node : /\ n = TreesFrom(c, k)
                         /\ node = TreesOver(leaves')[k][base + Shifted(c, k) * Size[k] + 1]
      OBVIOUS
    <3>10. k = Merges(i) /\ c = i - 1 /\ leaf = leaves'[base + i]
      BY <1>2, <3>1, <3>3, <3>4, <3>5, <3>7
    <3>11. /\ Len(babyTrees) = n + k /\ n \in Nat /\ k \in Nat
           /\ MergeRight(Append(babyTrees, leaves'[base + i]), k)
                = Append(SubSeq(babyTrees, 1, n), node)
      BY <1>1, <3>3, <3>8, <3>9, <3>10, MergedNodes, SMTT(30)
    <3>12. n \in 0 .. Len(babyTrees)
      BY <3>11
    <3> QED
      BY <1>2, <3>10, <3>11, <3>12
  <2>2. PICK n \in 0 .. Len(babyTrees) : \E node : trees = Append(SubSeq(babyTrees, 1, n), node)
    BY <2>1
  <2>5. PICK node : trees = Append(SubSeq(babyTrees, 1, n), node)
    BY <2>2
  <2>3. SubSeq(babyTrees, 1, n) \in Seq(S \cup {node})
    BY <1>1
  <2>4. trees \in Seq(S \cup {node})
    BY <2>5, <2>3
  <2> QED
    BY <1>5, <2>4, OwnRange
<1> QED
  BY <1>3, <1>4, <1>5

LEMMA SubtreesStay ==
  ASSUME Types, Counting, Agree(leaves, leaves', Len(leaves)),
         Completed' = Completed \/ Completed' = Completed + 1
  PROVE  /\ 1 .. Completed \subseteq 1 .. Completed'
         /\ \A k \in 1 .. Completed : Subtree(k)' = Subtree(k)
         /\ \A root : IsSubtree(root) => IsSubtree(root)'
<1>1. 1 .. Completed \subseteq 1 .. Completed'
  BY CompletedType
<1>2. \A k \in 1 .. Completed : Subtree(k)' = Subtree(k)
  BY SubtreeStays
<1>3. ASSUME NEW root, IsSubtree(root) PROVE IsSubtree(root)'
  BY <1>1, <1>2, <1>3 DEF IsSubtree
<1> QED
  BY <1>1, <1>2, <1>3

\* The queue after a complete subtree joined it.
LEMMA JoinKeeps ==
  ASSUME Types, OnlySubtrees, NEW root, enqueue(root), UNCHANGED <<front, dequeued>>,
         IsSubtree(root)', \A r : IsSubtree(r) => IsSubtree(r)'
  PROVE  OnlySubtrees'
<1>1. /\ \A id \in front .. back : queue'[id] = queue[id]
      /\ queue'[back'] = root /\ back' = back + 1 /\ front \in Nat /\ back \in Nat
  BY Enqueued DEF Types
<1>2. ASSUME NEW id \in front .. back' PROVE IsSubtree(queue[id])'
  <2>1. PICK r : r = queue'[id]
    OBVIOUS
  <2>2. id \in front .. back \/ id = back'
    BY <1>1
  <2>3. IsSubtree(r)'
    <3>1. CASE id = back'
      BY <1>1, <2>1, <3>1
    <3>2. CASE id \in front .. back
      BY <1>1, <2>1, <3>2 DEF OnlySubtrees
    <3> QED
      BY <2>2, <3>1, <3>2
  <2> QED
    BY <2>1, <2>3 DEF IsSubtree
<1>3. ASSUME NEW r \in dequeued' PROVE IsSubtree(r)'
  BY <1>3 DEF OnlySubtrees
<1> QED
  BY <1>2, <1>3 DEF OnlySubtrees

\* Where a complete subtree is after one joined the queue.
LEMMA JoinReaches ==
  ASSUME Types, SubtreesReachRollup, NEW root, enqueue(root), UNCHANGED <<front, dequeued>>,
         NEW k \in 1 .. Completed, Subtree(k)' = Subtree(k)
  PROVE  Subtree(k)' \in dequeued' \/ \E id \in front' .. back' : queue'[id] = Subtree(k)'
<1>1. /\ \A id \in front .. back : queue'[id] = queue[id]
      /\ back' = back + 1 /\ front \in Nat /\ back \in Nat
  BY Enqueued DEF Types
<1>2. front .. back \subseteq front .. back'
  BY <1>1
<1>3. Subtree(k) \in dequeued \/ \E id \in front .. back : queue[id] = Subtree(k)
  BY DEF SubtreesReachRollup
<1> QED
  BY <1>1, <1>2, <1>3

\* depositFor preserves the invariant.
LEMMA DepositKeeps ==
  ASSUME IInv, NEW l1Amount \in Amounts, depositFor(l1Amount)
  PROVE  IInv'
<1> USE DEF IInv
<1>1. /\ Len(leaves) \in Nat /\ leaves' \in Seq(Leaf)
      /\ Agree(leaves, leaves', Len(leaves))
      /\ \A n \in 1 .. Len(leaves') : leaves'[n][1].pubkeyID = n
  BY NewLeaf
<1>2. babyTrees' \in Seq(Range(babyTrees'))
  BY BabiesAreSequence
<1>3. vault' \in Nat
  <2>1. vault \in Nat /\ vault' = vault + l1Amount
    BY DEF Types, depositFor
  <2>2. l1Amount \in Nat
    BY DepositAssumption
  <2> QED
    BY <2>1, <2>2
<1>4. UNCHANGED <<front, rollup, dequeued>>
  BY DEF depositFor
<1>5. CASE /\ depositCount + 1 # paramMaxSubtreeSize
           /\ depositCount' = depositCount + 1 /\ Completed' = Completed
           /\ UNCHANGED <<queue, back>>
           /\ Counting'
  <2>1. depositCount' \in 0 .. paramMaxSubtreeSize - 1
    BY <1>5, SubtreeSize DEF Types, SubtreeSizeType
  <2>2. Types'
    BY <1>1, <1>2, <1>3, <1>4, <1>5, <2>1 DEF Types
  <2>3. /\ \A k \in 1 .. Completed : Subtree(k)' = Subtree(k)
        /\ \A root : IsSubtree(root) => IsSubtree(root)'
    BY <1>1, <1>5, SubtreesStay
  <2>4. OnlySubtrees'
    <3>1. ASSUME NEW id \in front .. back PROVE IsSubtree(queue[id])'
      <4>1. PICK r : r = queue[id]
        OBVIOUS
      <4>2. IsSubtree(r)'
        BY <2>3, <4>1 DEF OnlySubtrees
      <4> QED
        BY <1>5, <4>1, <4>2 DEF IsSubtree
    <3>2. ASSUME NEW r \in dequeued PROVE IsSubtree(r)'
      BY <2>3 DEF OnlySubtrees
    <3> QED
      BY <1>4, <1>5, <3>1, <3>2 DEF OnlySubtrees
  <2>5. SubtreesReachRollup'
    BY <1>4, <1>5, <2>3 DEF SubtreesReachRollup
  <2> QED
    BY <1>5, <2>2, <2>4, <2>5
<1>6. CASE /\ depositCount' = 0 /\ Completed' = Completed + 1
           /\ babyTrees' = <<>>
           /\ enqueue(Subtree(Completed)')
           /\ Counting'
  <2>1. PICK root : root = Subtree(Completed)'
    OBVIOUS
  <2>2. enqueue(root)
    BY <1>6, <2>1 DEF enqueue
  <2>3. Types'
    <3>1. depositCount' \in 0 .. paramMaxSubtreeSize - 1
      BY <1>6, SubtreeSize DEF SubtreeSizeType
    <3>2. /\ back' \in Nat /\ front' <= back' + 1 /\ DOMAIN queue' = front' .. back'
      BY <1>4, <2>2, Enqueued
    <3> QED
      BY <1>1, <1>2, <1>3, <1>4, <3>1, <3>2 DEF Types
  <2>4. /\ \A k \in 1 .. Completed : Subtree(k)' = Subtree(k)
        /\ \A r : IsSubtree(r) => IsSubtree(r)'
    BY <1>1, <1>6, SubtreesStay
  <2>5. Completed \in Nat
    BY CompletedType
  <2>6. IsSubtree(root)'
    BY <1>6, <2>1, <2>5 DEF IsSubtree
  <2>7. OnlySubtrees'
    BY <1>4, <2>2, <2>4, <2>6, JoinKeeps
  <2>8. SubtreesReachRollup'
    <3>1. \A k \in 1 .. Completed' : k \in 1 .. Completed \/ k = Completed'
      BY <1>6, <2>5
    <3>2. /\ back' \in front' .. back' /\ queue'[back'] = root
      BY <1>4, <2>2, Enqueued
    <3>3. ASSUME NEW k \in 1 .. Completed
          PROVE  Subtree(k)' \in dequeued' \/ \E id \in front' .. back' : queue'[id] = Subtree(k)'
      BY <1>4, <2>2, <2>4, JoinReaches
    <3>4. root = Subtree(Completed)'
      BY <2>1
    <3> QED
      BY <3>1, <3>2, <3>3, <3>4 DEF SubtreesReachRollup
  <2> QED
    BY <1>6, <2>3, <2>7, <2>8
<1> QED
  BY <1>5, <1>6, DepositCounts

\* Nothing of a complete subtree changes in the other steps.
LEMMA SubtreesUntouched ==
  ASSUME UNCHANGED <<leaves, depositCount, babyTrees>>
  PROVE  /\ Completed' = Completed
         /\ \A k : Subtree(k)' = Subtree(k)
         /\ \A root : IsSubtree(root)' <=> IsSubtree(root)
         /\ Counting => Counting'
<1>1. Completed' = Completed
  BY DEF Completed
<1>2. \A k : Subtree(k)' = Subtree(k)
  BY DEF Subtree, PerfectTree
<1>3. ASSUME NEW root PROVE IsSubtree(root)' <=> IsSubtree(root)
  BY <1>1, <1>2 DEF IsSubtree
<1>4. Counting => Counting'
  BY <1>1 DEF Counting
<1> QED
  BY <1>1, <1>2, <1>3, <1>4

\* setRollupAddress preserves the invariant.
LEMMA AddressKeeps ==
  ASSUME IInv, NEW sender \in Callers, setRollupAddress(sender)
  PROVE  IInv'
<1>1. /\ rollup' = RollupAddress
      /\ UNCHANGED <<babyTrees, depositCount, queue, front, back, vault, leaves, dequeued>>
  BY DEF setRollupAddress
<1>2. Types'
  BY <1>1 DEF IInv, Types
<1>3. OnlySubtrees' /\ SubtreesReachRollup'
  BY <1>1 DEF IInv, OnlySubtrees, IsSubtree, SubtreesReachRollup, Completed, Subtree,
              PerfectTree
<1> QED
  BY <1>1, <1>2, <1>3, SubtreesUntouched DEF IInv

\* dequeueToSubmit preserves the invariant: what leaves the queue is recorded.
LEMMA DequeueKeeps ==
  ASSUME IInv, NEW sender \in Callers, dequeueToSubmit(sender)
  PROVE  IInv'
<1>1. /\ front <= back /\ front' = front + 1
      /\ dequeued' = dequeued \cup {queue[front]}
      /\ queue' = [id \in DOMAIN queue \ {front} |-> queue[id]]
      /\ UNCHANGED <<babyTrees, depositCount, back, rollup, vault, leaves>>
      /\ front \in Nat \ {0} /\ back \in Nat /\ DOMAIN queue = front .. back
  BY DEF dequeueToSubmit, IInv, Types
<1>2. (front .. back) \ {front} = front' .. back
  BY <1>1
<1>3. DOMAIN queue' = front' .. back /\ \A id \in front' .. back : queue'[id] = queue[id]
  BY <1>1, <1>2
<1>4. Types'
  BY <1>1, <1>3 DEF IInv, Types
<1>5. front \in front .. back /\ front' .. back \subseteq front .. back
  BY <1>1
<1>6. \A root : IsSubtree(root)' <=> IsSubtree(root)
  BY <1>1, SubtreesUntouched
<1>7. OnlySubtrees'
  <2>1. ASSUME NEW id \in front' .. back PROVE IsSubtree(queue[id])'
    <3>1. PICK r : r = queue'[id]
      OBVIOUS
    <3>2. IsSubtree(r)
      BY <1>3, <1>5, <2>1, <3>1 DEF IInv, OnlySubtrees
    <3>3. IsSubtree(r)'
      BY <1>6, <3>2
    <3> QED
      BY <3>1, <3>3 DEF IsSubtree
  <2>2. ASSUME NEW r \in dequeued' PROVE IsSubtree(r)'
    <3>1. r \in dequeued \/ r = queue[front]
      BY <1>1, <2>2
    <3>2. IsSubtree(r)
      BY <1>5, <3>1 DEF IInv, OnlySubtrees
    <3> QED
      BY <1>6, <3>2
  <2> QED
    BY <1>1, <2>1, <2>2 DEF OnlySubtrees
<1>8. SubtreesReachRollup'
  <2>1. Completed' = Completed /\ \A k : Subtree(k)' = Subtree(k)
    BY <1>1, SubtreesUntouched
  <2>2. ASSUME NEW k \in 1 .. Completed
        PROVE  Subtree(k) \in dequeued' \/ \E id \in front' .. back : queue'[id] = Subtree(k)
    <3>1. CASE Subtree(k) \in dequeued
      BY <1>1, <3>1
    <3>2. CASE \E id \in front .. back : queue[id] = Subtree(k)
      <4>1. PICK id \in front .. back : queue[id] = Subtree(k)
        BY <3>2
      <4>2. id = front \/ id \in front' .. back
        BY <1>2
      <4> QED
        BY <1>1, <1>3, <4>1, <4>2
    <3> QED
      BY <3>1, <3>2 DEF IInv, SubtreesReachRollup
  <2> QED
    BY <1>1, <2>1, <2>2 DEF SubtreesReachRollup
<1>9. Counting'
  BY <1>1, SubtreesUntouched DEF IInv
<1> QED
  BY <1>4, <1>7, <1>8, <1>9 DEF IInv

\* reenqueue preserves the invariant: the rollup hands back what it was given.
LEMMA ReenqueueKeeps ==
  ASSUME IInv, NEW sender \in Callers, NEW root \in dequeued, reenqueue(sender, root)
  PROVE  IInv'
<1>1. /\ enqueue(root)
      /\ UNCHANGED <<babyTrees, depositCount, front, rollup, vault, leaves, dequeued>>
  BY DEF reenqueue
<1>2. Types'
  <2>1. /\ back' \in Nat /\ front' <= back' + 1 /\ DOMAIN queue' = front' .. back'
    BY <1>1, Enqueued DEF IInv
  <2> QED
    BY <1>1, <2>1 DEF IInv, Types
<1>3. /\ Completed' = Completed /\ \A k : Subtree(k)' = Subtree(k)
      /\ \A r : IsSubtree(r)' <=> IsSubtree(r)
      /\ Counting'
  BY <1>1, SubtreesUntouched DEF IInv
<1>4. OnlySubtrees'
  <2>1. IsSubtree(root)'
    BY <1>3 DEF IInv, OnlySubtrees
  <2> QED
    BY <1>1, <1>3, <2>1, JoinKeeps DEF IInv
<1>5. SubtreesReachRollup'
  <2>1. ASSUME NEW k \in 1 .. Completed
        PROVE  Subtree(k)' \in dequeued' \/ \E id \in front' .. back' : queue'[id] = Subtree(k)'
    BY <1>1, <1>3, JoinReaches DEF IInv
  <2> QED
    BY <1>3, <2>1 DEF SubtreesReachRollup
<1> QED
  BY <1>2, <1>3, <1>4, <1>5 DEF IInv

LEMMA NextIInv == IInv /\ [Next]_vars => IInv'
<1> SUFFICES ASSUME IInv, [Next]_vars PROVE IInv'
  OBVIOUS
<1>1. ASSUME NEW l1Amount \in Amounts, depositFor(l1Amount) PROVE IInv'
  BY <1>1, DepositKeeps
<1>2. ASSUME NEW sender \in Callers, setRollupAddress(sender) PROVE IInv'
  BY <1>2, AddressKeeps
<1>3. ASSUME NEW sender \in Callers, dequeueToSubmit(sender) PROVE IInv'
  BY <1>3, DequeueKeeps
<1>4. ASSUME NEW sender \in Callers, NEW root \in dequeued, reenqueue(sender, root)
      PROVE  IInv'
  BY <1>4, ReenqueueKeeps
<1>5. CASE UNCHANGED vars
  <2>1. UNCHANGED <<babyTrees, depositCount, queue, front, back, rollup, vault, leaves,
                    dequeued>>
    BY <1>5 DEF vars
  <2>2. Types' /\ Counting'
    BY <2>1, SubtreesUntouched DEF IInv, Types
  <2>3. OnlySubtrees' /\ SubtreesReachRollup'
    BY <2>1 DEF IInv, OnlySubtrees, IsSubtree, SubtreesReachRollup, Completed, Subtree,
                PerfectTree
  <2> QED
    BY <2>2, <2>3 DEF IInv
<1> QED
  BY <1>1, <1>2, <1>3, <1>4, <1>5 DEF Next

\* In every reachable state the variables hold values of their types, the baby
\* trees are those of the count, the queue and the rollup hold complete
\* subtrees only, and every complete subtree is in one of the two.
THEOREM InvariantHolds == Spec => []IInv
<1>1. Init => IInv
  BY InitIInv
<1>2. IInv /\ [Next]_vars => IInv'
  BY NextIInv
<1> QED
  BY <1>1, <1>2, PTL DEF Spec

(***************************************************************************)
(* What follows from the invariant.                                        *)
(***************************************************************************)
LEMMA BitsAreFew ==
  ASSUME NEW count \in Nat
  PROVE  TreesFrom(count, 0) \in 0 .. MaxSubtreeDepth
<1>1. BitsFrom(count, 0) \in SUBSET (0 .. MaxSubtreeDepth - 1)
  BY DEF BitsFrom
<1>2. /\ IsFiniteSet(0 .. MaxSubtreeDepth - 1)
      /\ Cardinality(0 .. MaxSubtreeDepth - 1) = MaxSubtreeDepth
  BY FS_Interval, DepthType
<1>3. TreesFrom(count, 0) <= MaxSubtreeDepth
  <2>1. Cardinality(BitsFrom(count, 0)) <= Cardinality(0 .. MaxSubtreeDepth - 1)
    BY <1>1, <1>2, FS_Subset
  <2> QED
    BY <1>2, <2>1 DEF TreesFrom
<1>4. TreesFrom(count, 0) \in Nat
  BY TreesFromType
<1> QED
  BY <1>3, <1>4, DepthType

\* The variables hold values of their types, there are no more baby trees than
\* a subtree has levels, and the IDs of the queue have no gap.
THEOREM TypesHold == Spec => []TypeOK
<1>1. IInv => TypeOK
  <2> SUFFICES ASSUME IInv PROVE TypeOK
    OBVIOUS
  <2>1. PICK c \in Nat : c = depositCount
    BY CompletedType DEF IInv
  <2>2. Len(babyTrees) = TreesFrom(c, 0)
    BY <2>1 DEF IInv, Counting, Counted
  <2> QED
    BY <2>2, BitsAreFew DEF IInv, Types, TypeOK
<1> QED
  BY <1>1, InvariantHolds, PTL

\* insertAndMerge is a binary counter, however deep subtrees are: the baby
\* trees are perfect trees of the sizes of depositCount's 1 bits, largest
\* first, over all deposits that are not in a complete subtree.
THEOREM MergingCounts == Spec => []BinaryCounter
<1>1. IInv => BinaryCounter
  <2> SUFFICES ASSUME IInv PROVE BinaryCounter
    OBVIOUS
  <2>1. PICK c, q, s, n, base : /\ c = depositCount /\ q = Completed
                                /\ s = paramMaxSubtreeSize /\ n = Len(leaves) /\ base = q * s
    OBVIOUS
  <2>2. /\ c \in Nat /\ q \in Nat /\ n \in Nat /\ s \in Nat \ {0} /\ c < s
        /\ base \in Nat /\ n = base + c
    <3>1. /\ c \in Nat /\ q \in Nat /\ n \in Nat /\ s \in Nat \ {0} /\ c < s
      BY <2>1, CompletedType, SubtreeSize DEF IInv, Types, SubtreeSizeType
    <3>2. n = base + c
      BY <2>1 DEF IInv, Counting
    <3> QED
      BY <2>1, <3>1, <3>2
  <2>3. n % s = c
    <3>1. s * q = base
      BY <2>1, <2>2
    <3>2. n \div s = q
      BY <2>2, <3>1, QuotientIs
    <3>3. n = s * (n \div s) + (n % s)
      BY <2>2
    <3>4. n % s \in Nat
      BY <2>2
    <3>5. n = base + (n % s)
      BY <3>1, <3>2, <3>3
    <3> QED
      BY <2>2, <3>4, <3>5
  <2>4. Bits = BitsFrom(c, 0)
    BY <2>1 DEF Bits, BitsFrom
  <2>5. Len(babyTrees) = Cardinality(Bits)
    BY <2>1, <2>4 DEF IInv, Counting, Counted, TreesFrom
  <2>6. ASSUME NEW d \in Bits
        PROVE  babyTrees[Cardinality({e \in Bits : e > d}) + 1] = PerfectTree(d, StartOf(d))
    <3>1. d \in 0 .. MaxSubtreeDepth - 1 /\ d \in BitsFrom(c, 0)
      BY <2>4 DEF Bits
    <3>2. {e \in Bits : e > d} = BitsFrom(c, d + 1)
      <4>1. \A e \in 0 .. MaxSubtreeDepth - 1 : e > d <=> e >= d + 1
        BY <3>1
      <4> QED
        BY <2>1, <4>1 DEF Bits, BitsFrom
    <3>3. StartOf(d) = TreeStart(base, c, d)
      BY <2>1 DEF StartOf, TreeStart
    <3>4. babyTrees[TreesFrom(c, d + 1) + 1] = TreesOver(leaves)[d][TreeStart(base, c, d)]
      BY <2>1, <3>1 DEF IInv, Counting, Counted
    <3> QED
      BY <3>2, <3>3, <3>4 DEF TreesFrom, PerfectTree
  <2> QED
    BY <2>1, <2>3, <2>5, <2>6 DEF BinaryCounter
<1> QED
  BY <1>1, InvariantHolds, PTL

\* No complete subtree is lost, for every number of deposits and however often
\* the rollup hands subtrees back.
THEOREM NoSubtreeIsLost == Spec => []SubtreesReachRollup
<1>1. IInv => SubtreesReachRollup
  BY DEF IInv
<1> QED
  BY <1>1, InvariantHolds, PTL

(***************************************************************************)
(* The vault.                                                              *)
(***************************************************************************)
LEMMA DepositPaid ==
  ASSUME IInv, VaultBacksDeposits, NEW l1Amount \in Amounts, depositFor(l1Amount)
  PROVE  VaultBacksDeposits'
<1>1. PICK n, amount : n = Len(leaves) /\ amount = l1Amount \div L2Unit
  OBVIOUS
<1>2. /\ n \in Nat /\ Len(leaves') = n + 1 /\ leaves \in Seq(Leaf) /\ leaves' \in Seq(Leaf)
      /\ Agree(leaves, leaves', n)
      /\ leaves'[n + 1] = DepositLeaf(n + 1, amount) /\ amount \in Nat
  BY <1>1, NewLeaf DEF IInv, Types
<1>3. l1Amount = L2Unit * amount
  <2>1. l1Amount \in Nat /\ L2Unit \in Nat \ {0} /\ l1Amount % L2Unit = 0
    BY DepositAssumption DEF depositFor, IsMultiple
  <2>2. l1Amount = L2Unit * (l1Amount \div L2Unit) + (l1Amount % L2Unit)
    BY <2>1
  <2>3. L2Unit * amount \in Nat
    BY <1>2, <2>1
  <2> QED
    BY <1>1, <2>1, <2>2, <2>3
<1>4. PICK f, g : /\ f = [i \in DOMAIN leaves |-> leaves[i][1].balance]
                  /\ g = [i \in DOMAIN leaves' |-> leaves'[i][1].balance]
  OBVIOUS
<1>5. /\ DOMAIN leaves = 1 .. n /\ DOMAIN leaves' = 1 .. n + 1
      /\ DOMAIN f = 1 .. n /\ DOMAIN g = 1 .. n + 1
      /\ \A i \in 1 .. n : f[i] = leaves[i][1].balance
      /\ \A i \in 1 .. n + 1 : g[i] = leaves'[i][1].balance
  BY <1>1, <1>2, <1>4
<1>6. \A i \in 1 .. n : f[i] \in Nat
  <2>1. \A i \in 1 .. n : leaves[i] \in Leaf
    BY <1>1, <1>2
  <2> QED
    BY <1>5, <2>1 DEF Leaf
<1>7. \A i \in 1 .. n : g[i] = f[i]
  BY <1>2, <1>5 DEF Agree
<1>8. g[n + 1] = amount
  BY <1>2, <1>5 DEF DepositLeaf
<1>9. Summable(f, 1 .. n) /\ SumFunctionOnSet(f, 1 .. n) \in Int
  <2>1. IsFiniteSet(1 .. n) /\ \A i \in 1 .. n : f[i] \in Int
    <3>1. IsFiniteSet(1 .. n)
      BY <1>2, FS_Interval
    <3>2. \A i \in 1 .. n : f[i] \in Int
      BY <1>6
    <3> QED
      BY <3>1, <3>2
  <2>2. Summable(f, 1 .. n)
    BY <2>1 DEF Summable
  <2> QED
    BY <2>2, SumInt
<1>10. SumFunctionOnSet(g, (1 .. n) \cup {n + 1}) = SumFunctionOnSet(f, 1 .. n) + g[n + 1]
  <2>1. PICK x : x = n + 1
    OBVIOUS
  <2>2. x \notin 1 .. n /\ g[x] \in Int
    BY <1>2, <1>8, <2>1
  <2>3. SumFunctionOnSet(g, (1 .. n) \cup {x}) = SumFunctionOnSet(f, 1 .. n) + g[x]
    <3>1. PICK S : S = 1 .. n
      OBVIOUS
    <3>2. Summable(f, S) /\ x \notin S /\ \A i \in S : g[i] = f[i]
      BY <1>7, <1>9, <2>2, <3>1
    <3>3. SumFunctionOnSet(g, S \cup {x}) = SumFunctionOnSet(f, S) + g[x]
      BY <2>2, <3>2, SumAdd
    <3> QED
      BY <3>1, <3>3
  <2> QED
    BY <2>1, <2>3
<1>11. (1 .. n) \cup {n + 1} = 1 .. n + 1
  BY <1>2
<1>12. PICK old, new : old = SumFunctionOnSet(f, 1 .. n) /\ new = SumFunctionOnSet(g, 1 .. n + 1)
  OBVIOUS
<1>13. new = old + amount /\ old \in Int
  BY <1>8, <1>9, <1>10, <1>11, <1>12
<1>14. vault = L2Unit * old
  BY <1>4, <1>5, <1>12 DEF VaultBacksDeposits, SumFunction
<1>15. vault' = vault + l1Amount
  BY DEF depositFor
<1>16. vault' = L2Unit * new
  <2>1. L2Unit \in Nat
    BY DepositAssumption
  <2>2. L2Unit * (old + amount) = L2Unit * old + L2Unit * amount
    BY <1>2, <1>13, <2>1
  <2> QED
    BY <1>3, <1>13, <1>14, <1>15, <2>2
<1> QED
  BY <1>4, <1>5, <1>12, <1>16 DEF VaultBacksDeposits, SumFunction

\* The vault holds exactly the tokens behind all deposits, whatever the unit of
\* the token and the amounts deposited.
THEOREM VaultHolds == Spec => []VaultBacksDeposits
<1>1. Init => VaultBacksDeposits
  BY InitIInv
<1>2. IInv /\ VaultBacksDeposits /\ [Next]_vars => VaultBacksDeposits'
  <2> SUFFICES ASSUME IInv, VaultBacksDeposits, [Next]_vars PROVE VaultBacksDeposits'
    OBVIOUS
  <2>1. ASSUME NEW l1Amount \in Amounts, depositFor(l1Amount) PROVE VaultBacksDeposits'
    BY <2>1, DepositPaid
  <2>2. UNCHANGED <<vault, leaves>> => VaultBacksDeposits'
    BY DEF VaultBacksDeposits
  <2>3. ASSUME NEW sender \in Callers, setRollupAddress(sender) PROVE UNCHANGED <<vault, leaves>>
    BY <2>3 DEF setRollupAddress
  <2>4. ASSUME NEW sender \in Callers, dequeueToSubmit(sender) PROVE UNCHANGED <<vault, leaves>>
    BY <2>4 DEF dequeueToSubmit
  <2>5. ASSUME NEW sender \in Callers, NEW root \in dequeued, reenqueue(sender, root)
        PROVE  UNCHANGED <<vault, leaves>>
    BY <2>5 DEF reenqueue
  <2>6. UNCHANGED vars => UNCHANGED <<vault, leaves>>
    BY DEF vars
  <2> QED
    BY <2>1, <2>2, <2>3, <2>4, <2>5, <2>6 DEF Next
<1> QED
  BY <1>1, <1>2, InvariantHolds, PTL DEF Spec

(***************************************************************************)
(* The deposit manager implements the queue the rollup relies on.          *)
(***************************************************************************)
\* The numbers of the subtrees that wait.
waiting == [i \in 1 .. back - front + 1 |-> SubtreeNumber(queue[front + i - 1])]

HasLength(f, n) == f = [i \in 1 .. n |-> f[i]]
MovesUp(f, g, n) == \A i \in 1 .. n : g[i] = f[i + 1]

LEMMA AppendIs ==
  ASSUME NEW n \in Nat, NEW f, HasLength(f, n), NEW g, HasLength(g, n + 1),
         Agree(f, g, n)
  PROVE  g = Append(f, g[n + 1]) /\ g = f \o <<g[n + 1]>>
<1> USE DEF HasLength, Agree
<1> DEFINE x == g[n + 1]
<1>1. PICK S : S = {f[i] : i \in 1 .. n} \cup {x}
  OBVIOUS
<1>2. f \in Seq(S) /\ x \in S /\ Len(f) = n
  <2>1. f \in [1 .. n -> S]
    BY <1>1
  <2> QED
    BY <1>1, <2>1
<1>3. Append(f, x) = [i \in 1 .. n + 1 |-> IF i = n + 1 THEN x ELSE f[i]]
  BY <1>2
<1>4. \A i \in 1 .. n + 1 : i = n + 1 \/ i \in 1 .. n
  OBVIOUS
<1>5. g = Append(f, x)
  BY <1>3, <1>4
<1>6. Append(f, x) = f \o <<x>>
  BY <1>2
<1> QED
  BY <1>5, <1>6

LEMMA TailIs ==
  ASSUME NEW n \in Nat, NEW f, HasLength(f, n + 1), NEW g, HasLength(g, n),
         MovesUp(f, g, n)
  PROVE  f # <<>> /\ g = Tail(f)
<1> USE DEF HasLength, MovesUp
<1>1. PICK S : S = {f[i] : i \in 1 .. n + 1}
  OBVIOUS
<1>2. f \in Seq(S) /\ Len(f) = n + 1
  <2>1. f \in [1 .. n + 1 -> S]
    BY <1>1
  <2> QED
    BY <2>1
<1>3. f # <<>>
  BY <1>2
<1>4. Tail(f) = [i \in 1 .. n |-> f[i + 1]]
  BY <1>2, <1>3
<1> QED
  BY <1>3, <1>4

\* The number of a complete subtree does not change.
LEMMA NumberStays ==
  ASSUME IInv, IInv', Agree(leaves, leaves', Len(leaves)),
         Completed' = Completed \/ Completed' = Completed + 1,
         NEW root, IsSubtree(root)
  PROVE  SubtreeNumber(root)' = SubtreeNumber(root) /\ SubtreeNumber(root) \in 1 .. Completed
<1>1. PICK k \in 1 .. Completed : root = Subtree(k)
  BY DEF IsSubtree
<1>2. /\ k \in 1 .. Completed' /\ root = Subtree(k)'
      /\ Completed \in Nat /\ Completed' \in Nat
  BY <1>1, SubtreesStay, CompletedType DEF IInv
<1>3. SubtreeNumber(root) = k
  <2>1. PICK deposits, q : deposits = leaves /\ q = Completed
    OBVIOUS
  <2>2. Numbered(deposits, q * paramMaxSubtreeSize) /\ q \in Nat
    BY <1>2, <2>1, DepositsNumbered DEF IInv
  <2>3. root = SubtreeOver(deposits, k) /\ k \in 1 .. q
    BY <1>1, <2>1, SubtreesNumbered
  <2>4. NumberIn(deposits, q, root) = k
    BY <2>2, <2>3, NumberIs
  <2> QED
    BY <2>1, <2>4, SubtreesNumbered
<1>4. SubtreeNumber(root)' = k
  <2>1. PICK deposits, q : deposits = leaves' /\ q = Completed'
    OBVIOUS
  <2>2. Numbered(deposits, q * paramMaxSubtreeSize) /\ q \in Nat
    BY <1>2, <2>1, DepositsNumberedNext
  <2>3. root = SubtreeOver(deposits, k) /\ k \in 1 .. q
    BY <1>2, <2>1, SubtreesNumberedNext
  <2>4. NumberIn(deposits, q, root) = k
    BY <2>2, <2>3, NumberIs
  <2> QED
    BY <2>1, <2>4, SubtreesNumberedNext
<1> QED
  BY <1>1, <1>3, <1>4
NumberAt(id) == SubtreeNumber(queue[id])

LEMMA WaitingIs ==
  ASSUME Types
  PROVE  /\ back - front + 1 \in Nat
         /\ waiting = [i \in 1 .. back - front + 1 |-> NumberAt(front + i - 1)]
         /\ \A i \in 1 .. back - front + 1 : front + i - 1 \in front .. back
<1>1. front \in Nat /\ back \in Nat /\ front <= back + 1
  BY DEF Types
<1> QED
  BY <1>1 DEF waiting, NumberAt

\* What waits and is not moved keeps its number.
LEMMA NumbersStay ==
  ASSUME IInv, IInv', Agree(leaves, leaves', Len(leaves)),
         Completed' = Completed \/ Completed' = Completed + 1,
         NEW id \in front .. back, queue'[id] = queue[id]
  PROVE  NumberAt(id)' = NumberAt(id)
<1>1. PICK root : root = queue[id]
  OBVIOUS
<1>2. IsSubtree(root)
  BY <1>1 DEF IInv, OnlySubtrees
<1>3. SubtreeNumber(root)' = SubtreeNumber(root)
  BY <1>2, NumberStays
<1>4. NumberAt(id) = SubtreeNumber(root)
  BY <1>1 DEF NumberAt
<1>5. NumberAt(id)' = SubtreeNumber(root)'
  BY <1>1 DEF NumberAt, SubtreeNumber
<1> QED
  BY <1>3, <1>4, <1>5

\* The steps of the queue, by what they do to the IDs.
LEMMA WaitingStays ==
  ASSUME IInv, UNCHANGED <<front, back>>, \A id \in front .. back : NumberAt(id)' = NumberAt(id)
  PROVE  waiting' = waiting
<1>1. \A i \in 1 .. back - front + 1 : NumberAt(front + i - 1)' = NumberAt(front + i - 1)
  <2>1. ASSUME NEW i \in 1 .. back - front + 1
        PROVE  NumberAt(front + i - 1)' = NumberAt(front + i - 1)
    <3>1. PICK id \in front .. back : id = front + i - 1
      BY WaitingIs DEF IInv
    <3>2. NumberAt(id)' = NumberAt(front + i - 1)'
      BY <3>1 DEF NumberAt
    <3> QED
      BY <3>1, <3>2
  <2> QED
    BY <2>1
<1> QED
  BY <1>1 DEF waiting, NumberAt

LEMMA WaitingAppends ==
  ASSUME IInv, UNCHANGED front, back' = back + 1,
         \A id \in front .. back : NumberAt(id)' = NumberAt(id),
         NEW k, \A id : id = back' => NumberAt(id)' = k
  PROVE  waiting' = Append(waiting, k) /\ waiting' = waiting \o <<k>>
<1>1. PICK n, a, b, f, g : /\ n = back - front + 1 /\ f = waiting /\ g = waiting'
                           /\ a = front /\ b = back
  OBVIOUS
<1>2. /\ n \in Nat /\ a \in Nat /\ b \in Nat /\ n = b - a + 1
      /\ back' - front' + 1 = n + 1 /\ b + 1 = a + (n + 1) - 1
      /\ \A i \in 1 .. n : a + i - 1 \in a .. b
  BY <1>1, WaitingIs DEF IInv, Types
<1>3. f = [i \in 1 .. n |-> NumberAt(a + i - 1)]
  BY <1>1, WaitingIs DEF IInv
<1>4. g = [i \in 1 .. n + 1 |-> NumberAt(a + i - 1)']
  BY <1>1, <1>2 DEF waiting, NumberAt
<1>5. \A i \in 1 .. n : g[i] = f[i]
  <2>1. ASSUME NEW i \in 1 .. n PROVE g[i] = f[i]
    <3>1. PICK id \in a .. b : id = a + i - 1
      BY <1>2
    <3>2. NumberAt(id)' = NumberAt(id)
      BY <1>1
    <3>3. f[i] = NumberAt(id)
      BY <1>3, <3>1
    <3>4. g[i] = NumberAt(id)'
      BY <1>2, <1>4, <3>1 DEF NumberAt
    <3> QED
      BY <3>2, <3>3, <3>4
  <2> QED
    BY <2>1
<1>6. g[n + 1] = k
  <2>1. PICK id : id = back'
    OBVIOUS
  <2>2. NumberAt(id)' = k /\ id = a + (n + 1) - 1
    BY <1>1, <1>2, <2>1
  <2>3. g[n + 1] = NumberAt(id)'
    BY <1>2, <1>4, <2>2 DEF NumberAt
  <2> QED
    BY <2>2, <2>3
<1>7. HasLength(f, n) /\ HasLength(g, n + 1)
  BY <1>3, <1>4 DEF HasLength
<1>8. Agree(f, g, n)
  BY <1>5 DEF Agree
<1>9. g = Append(f, g[n + 1]) /\ g = f \o <<g[n + 1]>>
  BY <1>2, <1>7, <1>8, AppendIs
<1> QED
  BY <1>1, <1>6, <1>9

LEMMA WaitingLoses ==
  ASSUME IInv, front <= back, front' = front + 1, UNCHANGED back,
         \A id \in front' .. back : NumberAt(id)' = NumberAt(id)
  PROVE  waiting # <<>> /\ waiting' = Tail(waiting)
<1>1. PICK n, a, b, f, g : /\ n = back - front /\ f = waiting /\ g = waiting'
                           /\ a = front /\ b = back
  OBVIOUS
<1>2. /\ n \in Nat /\ a \in Nat /\ b \in Nat
      /\ back - front + 1 = n + 1 /\ back' - front' + 1 = n
      /\ \A i \in 1 .. n : front' + i - 1 \in front' .. back /\ front' + i - 1 = a + (i + 1) - 1
  BY <1>1 DEF IInv, Types
<1>3. f = [i \in 1 .. n + 1 |-> NumberAt(a + i - 1)]
  BY <1>1, <1>2, WaitingIs DEF IInv
<1>4. g = [i \in 1 .. n |-> NumberAt(front + i - 1)']
  BY <1>1, <1>2 DEF waiting, NumberAt
<1>5. \A i \in 1 .. n : g[i] = f[i + 1]
  <2>1. ASSUME NEW i \in 1 .. n PROVE g[i] = f[i + 1]
    <3>1. PICK id \in front' .. back : id = front' + i - 1
      BY <1>2
    <3>2. NumberAt(id)' = NumberAt(id)
      OBVIOUS
    <3>3. i + 1 \in 1 .. n + 1 /\ id = a + (i + 1) - 1
      BY <1>2, <3>1
    <3>4. f[i + 1] = NumberAt(id)
      BY <1>3, <3>3
    <3>5. g[i] = NumberAt(id)'
      BY <1>4, <3>1 DEF NumberAt
    <3> QED
      BY <3>2, <3>4, <3>5
  <2> QED
    BY <2>1
<1>6. HasLength(f, n + 1) /\ HasLength(g, n)
  BY <1>3, <1>4 DEF HasLength
<1>7. MovesUp(f, g, n)
  BY <1>5 DEF MovesUp
<1>8. f # <<>> /\ g = Tail(f)
  BY <1>2, <1>6, <1>7, TailIs
<1> QED
  BY <1>1, <1>8

LEMMA InitIsQueueInit == Init => Abstract!QueueInit
<1> SUFFICES ASSUME Init PROVE Abstract!QueueInit
  OBVIOUS
<1>1. IInv /\ leaves = <<>> /\ front = 1 /\ back = 0
  BY InitIInv DEF Init
<1>2. Completed = 0
  <2>1. PICK s, q : s = paramMaxSubtreeSize /\ q = Completed
    OBVIOUS
  <2>2. s \in Nat \ {0} /\ q \in Nat /\ Len(leaves) = 0 /\ depositCount \in Nat
    BY <1>1, <2>1, SubtreeSize, CompletedType DEF SubtreeSizeType, IInv
  <2>3. 0 \div s = q
    BY <2>1, <2>2 DEF Completed
  <2>4. s * 0 = 0
    BY <2>2
  <2> QED
    BY <2>1, <2>2, <2>3, <2>4, QuotientIs
<1>3. waiting = <<>>
  <2>1. back - front + 1 = 0
    BY <1>1
  <2> QED
    BY <2>1 DEF waiting
<1> QED
  BY <1>2, <1>3 DEF Abstract!QueueInit, waiting

\* A step of the deposit manager is a step of the queue, or changes nothing of
\* it: a deposit that completes a subtree is SubtreeReady, and what the rollup
\* takes and hands back is what it takes and hands back there.
LEMMA StepIsQueueStep ==
  IInv /\ IInv' /\ [Next]_vars => [Abstract!QueueNext]_(Abstract!queueVars)
<1> DEFINE Step == \/ waiting' = waiting /\ Completed' = Completed
                   \/ /\ Completed' = Completed + 1
                      /\ waiting' = Append(waiting, Completed + 1)
                   \/ waiting # <<>> /\ waiting' = Tail(waiting) /\ Completed' = Completed
                   \/ \E k \in 1 .. Completed :
                        waiting' = waiting \o <<k>> /\ Completed' = Completed
<1>1. Step => [Abstract!QueueNext]_(Abstract!queueVars)
  BY DEF Abstract!QueueNext, Abstract!queueVars, Abstract!SubtreeReady, Abstract!Dequeue,
         Abstract!Reenqueue, waiting
<1>2. ASSUME IInv, IInv', [Next]_vars PROVE Step
  <2> USE <1>2
  <2>1. ASSUME NEW l1Amount \in Amounts, depositFor(l1Amount) PROVE Step
    <3>1. Types /\ Counting /\ OnlySubtrees /\ Completed \in Nat
      BY CompletedType DEF IInv
    <3>2. Agree(leaves, leaves', Len(leaves))
      BY <2>1, <3>1, NewLeaf
    <3>3. UNCHANGED front
      BY <2>1 DEF depositFor
    <3>4. CASE Completed' = Completed /\ UNCHANGED <<queue, back>>
      <4>1. \A id \in front .. back : NumberAt(id)' = NumberAt(id)
        BY <3>2, <3>4, NumbersStay
      <4> QED
        BY <3>3, <3>4, <4>1, WaitingStays
    <3>5. CASE Completed' = Completed + 1 /\ enqueue(Subtree(Completed)')
      <4>1. PICK root, k : root = Subtree(Completed)' /\ k = Completed + 1
        OBVIOUS
      <4>2. enqueue(root)
        BY <3>5, <4>1 DEF enqueue
      <4>3. /\ back' = back + 1 /\ queue'[back'] = root
            /\ \A id \in front .. back : queue'[id] = queue[id]
        BY <3>1, <3>3, <4>2, Enqueued
      <4>4. \A id \in front .. back : NumberAt(id)' = NumberAt(id)
        BY <3>2, <3>5, <4>3, NumbersStay
      <4>5. SubtreeNumber(root)' = k
        <5>1. PICK deposits, q : deposits = leaves' /\ q = Completed'
          OBVIOUS
        <5>2. Numbered(deposits, q * paramMaxSubtreeSize) /\ q \in Nat /\ k \in 1 .. q
          BY <3>1, <3>5, <4>1, <5>1, DepositsNumberedNext
        <5>3. root = SubtreeOver(deposits, k)
          BY <3>5, <4>1, <5>1, SubtreesNumberedNext
        <5>4. NumberIn(deposits, q, root) = k
          BY <5>2, <5>3, NumberIs
        <5> QED
          BY <5>1, <5>4, SubtreesNumberedNext
      <4>6. \A id : id = back' => NumberAt(id)' = k
        <5>1. ASSUME NEW id, id = back' PROVE NumberAt(id)' = k
          <6>1. NumberAt(id)' = SubtreeNumber(root)'
            BY <4>3, <5>1 DEF NumberAt, SubtreeNumber
          <6> QED
            BY <4>5, <6>1
        <5> QED
          BY <5>1
      <4>7. waiting' = Append(waiting, k)
        BY <3>3, <4>3, <4>4, <4>6, WaitingAppends
      <4> QED
        BY <3>5, <4>1, <4>7
    <3> HIDE DEF Step
    <3> QED
      BY <2>1, <3>1, <3>4, <3>5, DepositCounts
  <2>2. ASSUME NEW sender \in Callers, setRollupAddress(sender) PROVE Step
    <3>1. UNCHANGED <<queue, front, back, leaves>>
      BY <2>2 DEF setRollupAddress
    <3> QED
      BY <3>1 DEF waiting, SubtreeNumber, Completed, Subtree, PerfectTree
  <2>3. ASSUME NEW sender \in Callers, dequeueToSubmit(sender) PROVE Step
    <3>1. /\ front <= back /\ front' = front + 1
          /\ UNCHANGED <<babyTrees, depositCount, back, leaves>>
          /\ queue' = [id \in DOMAIN queue \ {front} |-> queue[id]]
          /\ DOMAIN queue = front .. back /\ front \in Nat /\ back \in Nat
      BY <2>3 DEF dequeueToSubmit, IInv, Types
    <3>2. \A id \in front' .. back : queue'[id] = queue[id] /\ id \in front .. back
      <4>1. (front .. back) \ {front} = front' .. back
        BY <3>1
      <4> QED
        BY <3>1, <4>1
    <3>3. Completed' = Completed /\ Agree(leaves, leaves', Len(leaves))
      BY <3>1 DEF Completed, Agree
    <3>4. \A id \in front' .. back : NumberAt(id)' = NumberAt(id)
      BY <3>2, <3>3, NumbersStay
    <3>5. waiting # <<>> /\ waiting' = Tail(waiting)
      BY <3>1, <3>4, WaitingLoses
    <3> QED
      BY <3>3, <3>5
  <2>4. ASSUME NEW sender \in Callers, NEW root \in dequeued, reenqueue(sender, root)
        PROVE  Step
    <3>1. /\ enqueue(root)
          /\ UNCHANGED <<babyTrees, depositCount, front, leaves>>
      BY <2>4 DEF reenqueue
    <3>2. /\ back' = back + 1 /\ queue'[back'] = root
          /\ \A id \in front .. back : queue'[id] = queue[id]
      BY <3>1, Enqueued DEF IInv
    <3>3. Completed' = Completed /\ Agree(leaves, leaves', Len(leaves))
      BY <3>1 DEF Completed, Agree
    <3>4. \A id \in front .. back : NumberAt(id)' = NumberAt(id)
      BY <3>2, <3>3, NumbersStay
    <3>5. PICK k : k = SubtreeNumber(root)
      OBVIOUS
    <3>6. IsSubtree(root)
      BY <2>4 DEF IInv, OnlySubtrees
    <3>7. SubtreeNumber(root)' = k /\ k \in 1 .. Completed
      BY <3>3, <3>5, <3>6, NumberStays
    <3>8. \A id : id = back' => NumberAt(id)' = k
      <4>1. ASSUME NEW id, id = back' PROVE NumberAt(id)' = k
        <5>1. NumberAt(id)' = SubtreeNumber(root)'
          BY <3>2, <4>1 DEF NumberAt, SubtreeNumber
        <5> QED
          BY <3>7, <5>1
      <4> QED
        BY <4>1
    <3>9. waiting' = waiting \o <<k>>
      BY <3>1, <3>2, <3>4, <3>8, WaitingAppends
    <3> QED
      BY <3>3, <3>7, <3>9
  <2>5. CASE UNCHANGED vars
    <3>1. UNCHANGED <<queue, front, back, leaves>>
      BY <2>5 DEF vars
    <3> QED
      BY <3>1 DEF waiting, SubtreeNumber, Completed, Subtree, PerfectTree
  <2> HIDE DEF Step
  <2> QED
    BY <2>1, <2>2, <2>3, <2>4, <2>5 DEF Next
<1> HIDE DEF Step
<1> QED
  BY <1>1, <1>2

\* The deposit manager implements the queue that the rollup relies on, for
\* subtrees of every depth: a subtree joins it once it is complete, in order,
\* those handed back join it again, and all leave it from the front.
THEOREM QueueImplemented == Spec => ImplementsQueue
<1>1. Init => Abstract!QueueInit
  BY InitIsQueueInit
<1>2. IInv /\ IInv' /\ [Next]_vars => [Abstract!QueueNext]_(Abstract!queueVars)
  BY StepIsQueueStep
<1> QED
  BY <1>1, <1>2, InvariantHolds, PTL DEF Spec, ImplementsQueue, Abstract!QueueSpec

=============================================================================
