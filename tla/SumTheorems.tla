---------------------------- MODULE SumTheorems ----------------------------
(***************************************************************************)
(* Induction over numbers and finite sets, as facts about sets, and what   *)
(* follows for the community modules' sums: which element is taken first   *)
(* does not matter.                                                        *)
(***************************************************************************)
EXTENDS Integers, SequencesExt, FiniteSetsExt, Functions, FiniteSetTheorems, TLAPS

(***************************************************************************)
(* Quotients.                                                              *)
(***************************************************************************)
\* A quotient is between two neighbouring multiples.
LEMMA Quotient ==
  ASSUME NEW n \in Nat, NEW p \in Nat \ {0}
  PROVE  n \div p \in Nat /\ p * (n \div p) <= n /\ n < p * (n \div p) + p
OBVIOUS

\* A quotient is the only number that fits.
LEMMA QuotientIs ==
  ASSUME NEW n \in Nat, NEW p \in Nat \ {0}, NEW q \in Nat, p * q <= n, n < p * q + p
  PROVE  n \div p = q
<1>1. PICK r \in Nat : r = n \div p /\ p * r <= n /\ n < p * r + p
  BY Quotient
<1>2. ASSUME NEW a \in Nat, NEW b \in Nat, a < b PROVE p * a + p <= p * b
  <2>1. PICK d \in Nat : b = a + 1 + d
    BY <1>2
  <2>2. p * b = p * a + p + p * d /\ p * d \in Nat /\ p * a \in Nat
    BY <2>1
  <2> QED
    BY <2>2
<1>3. ~ (r < q)
  <2> SUFFICES ASSUME r < q PROVE FALSE
    OBVIOUS
  <2>1. p * r + p <= p * q
    BY <1>2
  <2>2. p * r \in Nat /\ p * q \in Nat
    OBVIOUS
  <2> QED
    BY <1>1, <2>1, <2>2
<1>4. ~ (q < r)
  <2> SUFFICES ASSUME q < r PROVE FALSE
    OBVIOUS
  <2>1. p * q + p <= p * r
    BY <1>2
  <2>2. p * r \in Nat /\ p * q \in Nat
    OBVIOUS
  <2> QED
    BY <1>1, <2>1, <2>2
<1> QED
  BY <1>1, <1>3, <1>4

(***************************************************************************)
(* Induction.                                                              *)
(***************************************************************************)
\* A set of numbers that is not empty has a least one.
LEMMA LeastNumber ==
  ASSUME NEW T, T \subseteq Nat, T # {}
  PROVE  \E x \in T : \A y \in T : x <= y
<1> DEFINE less == OpToRel(<, Nat)
<1>1. IsWellFoundedOn(less, Nat)
  BY NatLessThanWellFounded
<1>2. \A x, y \in Nat : <<x, y>> \in less <=> x < y
  BY DEF OpToRel
<1> HIDE DEF less
<1>3. PICK x \in T : \A y \in T : <<y, x>> \notin less
  BY <1>1, WFMin
<1>4. \A y \in T : ~ (y < x)
  BY <1>2, <1>3, Zenon
<1> QED
  BY <1>4

\* A set that holds 0 and, up to a bound, the successors of its elements holds
\* every number up to the bound.
LEMMA NumbersUpTo ==
  ASSUME NEW T, NEW n \in Nat, 0 \in T, \A k \in T \cap 0 .. n - 1 : k + 1 \in T
  PROVE  0 .. n \subseteq T
<1> DEFINE missing == (0 .. n) \ T
<1> SUFFICES ASSUME missing # {} PROVE FALSE
  OBVIOUS
<1>1. PICK k \in missing : \A j \in missing : k <= j
  <2>1. missing \subseteq Nat
    OBVIOUS
  <2> HIDE DEF missing
  <2> QED
    BY <2>1, LeastNumber
<1>2. k \in 1 .. n
  OBVIOUS
<1>3. k - 1 \notin missing
  BY <1>1, <1>2
<1> QED
  BY <1>1, <1>2, <1>3

\* A set of sets that holds the empty set and with every set those that have one
\* element more holds all finite sets.
LEMMA SetsByInduction ==
  ASSUME NEW S, IsFiniteSet(S), NEW T, {} \in T,
         \A s \in SUBSET S, x \in S : s \in T /\ x \notin s => s \cup {x} \in T
  PROVE  S \in T
<1> DEFINE sizes == {n \in Nat : \A s \in SUBSET S : Cardinality(s) = n => s \in T}
<1>1. \A s \in SUBSET S : IsFiniteSet(s) /\ Cardinality(s) \in Nat
  BY FS_Subset, FS_CardinalityType
<1>2. 0 \in sizes
  BY <1>1, FS_EmptySet
<1>3. ASSUME NEW n \in sizes PROVE n + 1 \in sizes
  <2>1. SUFFICES ASSUME NEW s \in SUBSET S, Cardinality(s) = n + 1 PROVE s \in T
    OBVIOUS
  <2>2. s # {}
    <3>1. Cardinality({}) = 0 /\ n \in Nat
      BY FS_EmptySet
    <3> QED
      BY <2>1, <3>1
  <2>3. PICK x \in s : TRUE
    BY <2>2
  <2>4. Cardinality(s \ {x}) = n
    BY <1>1, <2>1, <2>3, FS_RemoveElement
  <2>5. s \ {x} \in T
    BY <2>4
  <2>6. (s \ {x}) \cup {x} \in T
    BY <2>3, <2>5
  <2> QED
    BY <2>3, <2>6
<1>4. Cardinality(S) \in sizes
  <2>1. Cardinality(S) \in Nat
    BY <1>1
  <2> HIDE DEF sizes
  <2>2. 0 .. Cardinality(S) \subseteq sizes
    BY <1>2, <1>3, <2>1, NumbersUpTo
  <2> QED
    BY <2>1, <2>2
<1> QED
  BY <1>4

(***************************************************************************)
(* Folds: the partial results that the community modules' folds are made   *)
(* of, for a step and a choice of elements that are functions.             *)
(***************************************************************************)
\* choose is a choice of one element from every set that is not empty.
Chooses(choose, S) == \A s \in SUBSET S : s # {} => choose[s] \in s

IsFold(iter, base, step, choose, S) ==
  iter = [s \in SUBSET S |->
            IF s = {} THEN base
            ELSE step[choose[s]][iter[s \ {choose[s]}]]]

\* There are such partial results: those of larger sets are made from those of
\* smaller ones.
LEMMA FoldExists ==
  ASSUME NEW S, IsFiniteSet(S), NEW base, NEW step, NEW choose,
         Chooses(choose, S)
  PROVE  \E iter : IsFold(iter, base, step, choose, S)
<1> DEFINE upTo(n) == {s \in SUBSET S : Cardinality(s) <= n}
           next(g, s) == IF s = {} THEN base
                         ELSE step[choose[s]][g[s \ {choose[s]}]]
           sizes == {n \in Nat : \E g : g = [s \in upTo(n) |-> next(g, s)]}
<1>1. \A s \in SUBSET S : IsFiniteSet(s) /\ Cardinality(s) \in Nat
  BY FS_Subset, FS_CardinalityType
<1>2. 0 \in sizes
  <2>1. \A s \in upTo(0) : s = {}
    BY <1>1, FS_EmptySet
  <2>2. [s \in upTo(0) |-> base] = [s \in upTo(0) |-> next([t \in upTo(0) |-> base], s)]
    BY <2>1
  <2> QED
    BY <2>2
<1>3. ASSUME NEW n \in sizes PROVE n + 1 \in sizes
  <2>1. PICK g : g = [s \in upTo(n) |-> next(g, s)]
    OBVIOUS
  <2> DEFINE h == [s \in upTo(n + 1) |-> next(g, s)]
  <2>2. ASSUME NEW s \in upTo(n) PROVE s \in upTo(n + 1) /\ h[s] = g[s]
    <3>1. s \in upTo(n + 1)
      BY <1>1
    <3> QED
      BY <2>1, <3>1
  <2>3. ASSUME NEW s \in upTo(n + 1), NEW x \in s
        PROVE  s \ {x} \in upTo(n)
    <3>1. Cardinality(s \ {x}) = Cardinality(s) - 1
      BY <1>1, <2>3, FS_RemoveElement
    <3> QED
      BY <1>1, <2>3, <3>1
  <2>4. ASSUME NEW s \in upTo(n + 1) PROVE h[s] = next(h, s)
    <3>1. CASE s = {}
      BY <3>1
    <3>2. CASE s # {}
      <4>1. choose[s] \in s
        BY <3>2 DEF Chooses
      <4>2. g[s \ {choose[s]}] = h[s \ {choose[s]}]
        BY <2>2, <2>3, <4>1
      <4>3. h[s] = step[choose[s]][g[s \ {choose[s]}]]
        BY <3>2
      <4> QED
        BY <3>2, <4>2, <4>3
    <3> QED
      BY <3>1, <3>2
  <2>5. h = [s \in upTo(n + 1) |-> next(h, s)]
    <3>1. h = [s \in upTo(n + 1) |-> h[s]]
      OBVIOUS
    <3> HIDE DEF h, next, upTo
    <3> QED
      BY <2>4, <3>1
  <2>6. n + 1 \in Nat
    OBVIOUS
  <2> HIDE DEF h, next, upTo
  <2> QED
    BY <2>5, <2>6
<1>4. Cardinality(S) \in sizes
  <2>1. Cardinality(S) \in Nat
    BY <1>1
  <2> HIDE DEF sizes
  <2>2. 0 .. Cardinality(S) \subseteq sizes
    BY <1>2, <1>3, <2>1, NumbersUpTo
  <2> QED
    BY <2>1, <2>2
<1>5. upTo(Cardinality(S)) = SUBSET S
  BY FS_Subset
<1>6. \E g : g = [s \in SUBSET S |-> next(g, s)]
  BY <1>4, <1>5
<1> QED
  BY <1>6 DEF IsFold

\* A fold has the type of its base and of what a step returns.
LEMMA FoldType ==
  ASSUME NEW S, IsFiniteSet(S), NEW A, NEW base \in A, NEW step, NEW choose,
         Chooses(choose, S), \A x \in S, a \in A : step[x][a] \in A,
         NEW iter, IsFold(iter, base, step, choose, S), NEW s \in SUBSET S
  PROVE  iter[s] \in A
<1> DEFINE sizes == {n \in Nat : \A t \in SUBSET S : Cardinality(t) = n => iter[t] \in A}
<1>1. \A t \in SUBSET S : IsFiniteSet(t) /\ Cardinality(t) \in Nat
  BY FS_Subset, FS_CardinalityType
<1>2. ASSUME NEW t \in SUBSET S
      PROVE  /\ t = {} => iter[t] = base
             /\ t # {} => iter[t] = step[choose[t]][iter[t \ {choose[t]}]]
  BY DEF IsFold
<1>3. 0 \in sizes
  <2>1. \A t \in SUBSET S : Cardinality(t) = 0 => t = {}
    BY <1>1, FS_EmptySet
  <2> QED
    BY <1>2, <2>1
<1>4. ASSUME NEW n \in sizes PROVE n + 1 \in sizes
  <2>1. ASSUME NEW t \in SUBSET S, Cardinality(t) = n + 1 PROVE iter[t] \in A
    <3>1. t # {}
      <4>1. Cardinality({}) = 0 /\ n \in Nat
        BY FS_EmptySet
      <4> QED
        BY <2>1, <4>1
    <3>2. choose[t] \in t
      BY <3>1 DEF Chooses
    <3>3. Cardinality(t \ {choose[t]}) = n
      <4>1. IsFiniteSet(t) /\ n \in Nat
        BY <1>1
      <4>2. Cardinality(t \ {choose[t]}) = Cardinality(t) - 1
        BY <3>2, <4>1, FS_RemoveElement
      <4> QED
        BY <2>1, <4>1, <4>2
    <3>4. iter[t \ {choose[t]}] \in A
      BY <3>3
    <3> HIDE DEF sizes
    <3>5. iter[t] = step[choose[t]][iter[t \ {choose[t]}]]
      BY <1>2, <3>1
    <3>6. choose[t] \in S
      BY <3>2
    <3> QED
      BY <3>4, <3>5, <3>6
  <2> QED
    BY <2>1
<1>5. Cardinality(s) \in sizes
  <2>1. Cardinality(s) \in Nat
    BY <1>1
  <2> HIDE DEF sizes
  <2>2. 0 .. Cardinality(s) \subseteq sizes
    BY <1>3, <1>4, <2>1, NumbersUpTo
  <2> QED
    BY <2>1, <2>2
<1> QED
  BY <1>5

(***************************************************************************)
(* Sums.                                                                   *)
(***************************************************************************)
\* A function that has a sum over a set.
Summable(f, S) == IsFiniteSet(S) /\ \A x \in S : f[x] \in Int

\* The partial sums of a function, for a choice of the element taken first.
IsSum(iter, f, choose, S) ==
  iter = [s \in SUBSET S |->
            IF s = {} THEN 0 ELSE f[choose[s]] + iter[s \ {choose[s]}]]

\* Sums that do not depend on what is taken first.
IsAdditive(sum, f, S) ==
  /\ sum[{}] = 0
  /\ \A s \in SUBSET S : sum[s] \in Int
  /\ \A s \in SUBSET S : \A x \in s : sum[s] = f[x] + sum[s \ {x}]

LEMMA SumExists ==
  ASSUME NEW S, NEW f, Summable(f, S), NEW choose, Chooses(choose, S)
  PROVE  \E iter : IsSum(iter, f, choose, S)
<1> DEFINE step == [x \in S |-> [a \in Int |-> f[x] + a]]
<1>0. IsFiniteSet(S) /\ \A x \in S : f[x] \in Int
  BY DEF Summable
<1>1. \A x \in S, a \in Int : step[x][a] = f[x] + a /\ step[x][a] \in Int
  BY <1>0
<1> HIDE DEF step
<1>2. PICK iter : IsFold(iter, 0, step, choose, S)
  BY <1>0, FoldExists
<1>3. \A s \in SUBSET S : iter[s] \in Int
  <2>1. 0 \in Int /\ \A x \in S, a \in Int : step[x][a] \in Int
    BY <1>1
  <2>2. ASSUME NEW s \in SUBSET S PROVE iter[s] \in Int
    BY <1>0, <1>2, <2>1, FoldType, Zenon
  <2> QED
    BY <2>2
<1>4. ASSUME NEW s \in SUBSET S, s # {}
      PROVE  iter[s] = f[choose[s]] + iter[s \ {choose[s]}]
  <2>1. iter[s] = step[choose[s]][iter[s \ {choose[s]}]]
    BY <1>2, <1>4 DEF IsFold
  <2>2. choose[s] \in S /\ iter[s \ {choose[s]}] \in Int
    BY <1>3, <1>4 DEF Chooses
  <2> QED
    BY <1>1, <2>1, <2>2
<1>5. iter = [s \in SUBSET S |-> iter[s]] /\ iter[{}] = 0
  BY <1>2 DEF IsFold
<1>6. \A s \in SUBSET S :
        iter[s] = IF s = {} THEN 0 ELSE f[choose[s]] + iter[s \ {choose[s]}]
  BY <1>4, <1>5
<1>7. IsSum([s \in SUBSET S |-> iter[s]], f, choose, S)
  BY <1>6 DEF IsSum
<1> QED
  BY <1>7

\* Which element is taken first does not matter.
LEMMA SumRemove ==
  ASSUME NEW S, NEW f, Summable(f, S), NEW choose, Chooses(choose, S),
         NEW iter, IsSum(iter, f, choose, S)
  PROVE  IsAdditive(iter, f, S)
<1>0. IsFiniteSet(S) /\ \A x \in S : f[x] \in Int
  BY DEF Summable
<1>1. ASSUME NEW s \in SUBSET S
      PROVE  /\ s = {} => iter[s] = 0
             /\ s # {} => iter[s] = f[choose[s]] + iter[s \ {choose[s]}]
  BY DEF IsSum
<1> DEFINE good(s) == /\ iter[s] \in Int
                      /\ \A x \in s : iter[s] = f[x] + iter[s \ {x}]
           sizes == {n \in Nat : \A s \in SUBSET S : Cardinality(s) <= n => good(s)}
<1>2. \A s \in SUBSET S : IsFiniteSet(s) /\ Cardinality(s) \in Nat
  BY <1>0, FS_Subset, FS_CardinalityType
<1>3. 0 \in sizes
  <2>1. \A s \in SUBSET S : Cardinality(s) <= 0 => s = {}
    BY <1>2, FS_EmptySet
  <2>2. iter[{}] = 0
    BY <1>1
  <2>3. good({})
    BY <2>2
  <2> HIDE DEF good
  <2> QED
    BY <2>1, <2>3
<1>4. ASSUME NEW n \in sizes PROVE n + 1 \in sizes
  <2>1. n \in Nat /\ n + 1 \in Nat /\ \A s \in SUBSET S : Cardinality(s) <= n => good(s)
    OBVIOUS
  <2>2. ASSUME NEW s \in SUBSET S, Cardinality(s) <= n + 1, s # {} PROVE good(s)
    <3>1. s # {}
      BY <2>2
    <3> DEFINE y == choose[s]
    <3>2. y \in s
      BY <3>1 DEF Chooses
    <3>3. iter[s] = f[y] + iter[s \ {y}]
      BY <1>1, <3>1
    <3> HIDE DEF y
    <3>4. \A x \in s : Cardinality(s \ {x}) <= n
      <4>1. IsFiniteSet(s) /\ Cardinality(s) \in Nat
        BY <1>2
      <4>2. ASSUME NEW x \in s PROVE Cardinality(s \ {x}) = Cardinality(s) - 1
        BY <4>1, FS_RemoveElement
      <4> QED
        BY <2>1, <2>2, <4>1, <4>2
    <3>5. \A x \in s : good(s \ {x})
      BY <2>1, <3>4
    <3>6. iter[s] \in Int
      <4>1. iter[s \ {y}] \in Int /\ f[y] \in Int
        BY <1>0, <3>2, <3>5
      <4> QED
        BY <3>3, <4>1
    <3>7. ASSUME NEW x \in s, x # y PROVE iter[s] = f[x] + iter[s \ {x}]
      <4>1. iter[s \ {y}] = f[x] + iter[(s \ {y}) \ {x}]
        BY <3>2, <3>5, <3>7
      <4>2. iter[s \ {x}] = f[y] + iter[(s \ {x}) \ {y}]
        BY <3>2, <3>5, <3>7
      <4>3. iter[(s \ {y}) \ {x}] = iter[(s \ {x}) \ {y}]
        <5>1. (s \ {y}) \ {x} = (s \ {x}) \ {y}
          OBVIOUS
        <5> QED
          BY <5>1
      <4>4. good((s \ {y}) \ {x})
        <5>1. IsFiniteSet(s \ {y}) /\ x \in s \ {y} /\ Cardinality(s \ {y}) \in Nat
          BY <1>2, <3>7
        <5>2. Cardinality((s \ {y}) \ {x}) = Cardinality(s \ {y}) - 1
          BY <5>1, FS_RemoveElement
        <5>3. Cardinality((s \ {y}) \ {x}) <= n
          BY <2>1, <3>2, <3>4, <5>1, <5>2
        <5> HIDE DEF good
        <5> QED
          BY <2>1, <5>3
      <4>5. f[x] \in Int /\ f[y] \in Int
        BY <1>0, <3>2
      <4>6. iter[(s \ {y}) \ {x}] \in Int
        BY <4>4
      <4> HIDE DEF good, sizes
      <4> QED
        BY <3>3, <4>1, <4>2, <4>3, <4>5, <4>6
    <3>8. \A x \in s : iter[s] = f[x] + iter[s \ {x}]
      BY <3>3, <3>7
    <3> HIDE DEF sizes
    <3> QED
      BY <3>6, <3>8
  <2>3. good({})
    <3>1. iter[{}] = 0
      BY <1>1
    <3> QED
      BY <3>1
  <2> HIDE DEF good
  <2>4. ASSUME NEW s \in SUBSET S, Cardinality(s) <= n + 1 PROVE good(s)
    <3>1. CASE s = {}
      BY <2>3, <3>1
    <3>2. CASE s # {}
      BY <2>2, <2>4, <3>2
    <3> QED
      BY <3>1, <3>2
  <2> QED
    BY <2>1, <2>4
<1>5. iter[{}] = 0
  BY <1>1
<1>6. ASSUME NEW s \in SUBSET S PROVE good(s)
  <2>1. Cardinality(s) \in Nat
    BY <1>2
  <2>2. Cardinality(s) \in sizes
    <3> HIDE DEF sizes
    <3>1. 0 .. Cardinality(s) \subseteq sizes
      BY <1>3, <1>4, <2>1, NumbersUpTo
    <3> QED
      BY <2>1, <3>1
  <2> HIDE DEF good
  <2> QED
    BY <2>2
<1>7. \A s \in SUBSET S : good(s)
  BY <1>6
<1> HIDE DEF sizes
<1> QED
  BY <1>5, <1>7 DEF IsAdditive

\* Neither does the choice.
LEMMA SumsAgree ==
  ASSUME NEW S, NEW f, Summable(f, S), NEW choose, Chooses(choose, S),
         NEW R, NEW g, Summable(g, R), NEW other, Chooses(other, R),
         S \subseteq R, \A x \in S : g[x] = f[x],
         NEW iter, IsSum(iter, f, choose, S), NEW sum, IsSum(sum, g, other, R)
  PROVE  iter[S] = sum[S]
<1> DEFINE same == {s \in SUBSET S : iter[s] = sum[s]}
<1>1. IsAdditive(iter, f, S) /\ IsAdditive(sum, g, R)
  BY SumRemove
<1>2. \A s \in SUBSET S : iter[s] \in Int /\ s \in SUBSET R
  BY <1>1 DEF IsAdditive
<1>3. {} \in same
  BY <1>1 DEF IsAdditive
<1>4. ASSUME NEW s \in SUBSET S, NEW x \in S, s \in same, x \notin s
      PROVE  s \cup {x} \in same
  <2>1. (s \cup {x}) \ {x} = s /\ s \cup {x} \in SUBSET S /\ s \cup {x} \in SUBSET R
    BY <1>4
  <2>2. iter[s \cup {x}] = f[x] + iter[s]
    <3>1. PICK t : t = s \cup {x}
      OBVIOUS
    <3>2. x \in t /\ t \in SUBSET S /\ t \ {x} = s
      BY <2>1, <3>1
    <3>3. iter[t] = f[x] + iter[t \ {x}]
      BY <1>1, <3>2 DEF IsAdditive
    <3> QED
      BY <3>1, <3>2, <3>3
  <2>3. sum[s \cup {x}] = g[x] + sum[s]
    <3>1. PICK t : t = s \cup {x}
      OBVIOUS
    <3>2. x \in t /\ t \in SUBSET R /\ t \ {x} = s
      BY <2>1, <3>1
    <3>3. sum[t] = g[x] + sum[t \ {x}]
      BY <1>1, <3>2 DEF IsAdditive
    <3> QED
      BY <3>1, <3>2, <3>3
  <2>4. f[x] = g[x] /\ f[x] \in Int
    BY DEF Summable
  <2> QED
    BY <1>2, <1>4, <2>4, <2>1, <2>2, <2>3
<1> HIDE DEF same
<1>5. S \in same
  BY <1>3, <1>4, SetsByInduction DEF Summable
<1> QED
  BY <1>5 DEF same

\* The community module's sum is made of such partial sums.
LEMMA SumIsSum ==
  ASSUME NEW S, NEW f, Summable(f, S)
  PROVE  \E choose, iter : /\ Chooses(choose, S)
                           /\ IsSum(iter, f, choose, S)
                           /\ SumFunctionOnSet(f, S) = iter[S]
<1> DEFINE choose == [s \in SUBSET S |-> CHOOSE x \in s : TRUE]
           sums(iter) == iter = [s \in SUBSET S |->
                                   IF s = {} THEN 0
                                   ELSE f[CHOOSE x \in s : TRUE]
                                          + iter[s \ {CHOOSE x \in s : TRUE}]]
           total == CHOOSE iter : sums(iter)
<1>1. Chooses(choose, S)
  BY DEF Chooses
<1>2. \A iter : IsSum(iter, f, choose, S) <=> sums(iter)
  BY DEF IsSum
<1>3. \E iter : IsSum(iter, f, choose, S)
  <2> HIDE DEF choose
  <2> QED
    BY <1>1, SumExists
<1>4. sums(total)
  <2> HIDE DEF sums
  <2> QED
    BY <1>2, <1>3
<1>5. SumFunctionOnSet(f, S) = total[S]
  BY DEF SumFunctionOnSet, FoldFunctionOnSet, MapThenFoldSet
<1> QED
  BY <1>1, <1>2, <1>4, <1>5

LEMMA SumIsAdditive ==
  ASSUME NEW S, NEW f, Summable(f, S)
  PROVE  \E sum : /\ IsAdditive(sum, f, S)
                  /\ \A s \in SUBSET S : SumFunctionOnSet(f, s) = sum[s]
<1>1. PICK choose, iter :
        /\ Chooses(choose, S) /\ IsSum(iter, f, choose, S)
        /\ SumFunctionOnSet(f, S) = iter[S]
  BY SumIsSum
<1>2. IsAdditive(iter, f, S)
  BY <1>1, SumRemove
<1>3. ASSUME NEW s \in SUBSET S PROVE SumFunctionOnSet(f, s) = iter[s]
  <2>1. Summable(f, s)
    BY FS_Subset DEF Summable
  <2>2. PICK other, part :
          /\ Chooses(other, s) /\ IsSum(part, f, other, s)
          /\ SumFunctionOnSet(f, s) = part[s]
    BY <2>1, SumIsSum
  <2>3. part[s] = iter[s]
    BY <1>1, <2>1, <2>2, SumsAgree
  <2> QED
    BY <2>2, <2>3
<1> QED
  BY <1>2, <1>3

\* The sum of no values is zero, and an element can be taken out of a sum.
THEOREM SumOfNone == ASSUME NEW f PROVE SumFunctionOnSet(f, {}) = 0
<1>1. Summable(f, {})
  BY FS_EmptySet DEF Summable
<1> QED
  BY <1>1, SumIsAdditive DEF IsAdditive

\* The sum of whole numbers is one.
THEOREM SumInt ==
  ASSUME NEW S, NEW f, Summable(f, S)
  PROVE  SumFunctionOnSet(f, S) \in Int
<1>1. PICK sum : /\ IsAdditive(sum, f, S)
                 /\ \A s \in SUBSET S : SumFunctionOnSet(f, s) = sum[s]
  BY SumIsAdditive
<1>2. S \in SUBSET S
  OBVIOUS
<1> QED
  BY <1>1, <1>2 DEF IsAdditive

\* A sum is any of its terms and the sum of the others.
THEOREM SumTakeOut ==
  ASSUME NEW S, NEW f, Summable(f, S), NEW x \in S
  PROVE  SumFunctionOnSet(f, S) = f[x] + SumFunctionOnSet(f, S \ {x})
<1>1. PICK sum : /\ IsAdditive(sum, f, S)
                 /\ \A s \in SUBSET S : SumFunctionOnSet(f, s) = sum[s]
  BY SumIsAdditive
<1>2. S \in SUBSET S /\ S \ {x} \in SUBSET S
  OBVIOUS
<1>3. sum[S] = f[x] + sum[S \ {x}]
  BY <1>1, <1>2 DEF IsAdditive
<1> QED
  BY <1>1, <1>2, <1>3

LEMMA SummableSubset ==
  ASSUME NEW S, NEW f, Summable(f, S), NEW s \in SUBSET S
  PROVE  Summable(f, s)
BY FS_Subset DEF Summable

\* Sums of functions that agree are equal.
THEOREM SumsEqual ==
  ASSUME NEW S, NEW f, NEW g, Summable(f, S), \A x \in S : g[x] = f[x]
  PROVE  SumFunctionOnSet(g, S) = SumFunctionOnSet(f, S)
<1>1. Summable(g, S)
  BY DEF Summable
<1>2. PICK choose, iter :
        /\ Chooses(choose, S) /\ IsSum(iter, f, choose, S)
        /\ SumFunctionOnSet(f, S) = iter[S]
  BY SumIsSum
<1>3. PICK other, sum :
        /\ Chooses(other, S) /\ IsSum(sum, g, other, S)
        /\ SumFunctionOnSet(g, S) = sum[S]
  BY <1>1, SumIsSum
<1>4. S \subseteq S
  OBVIOUS
<1>5. iter[S] = sum[S]
  BY <1>1, <1>2, <1>3, <1>4, SumsAgree
<1> QED
  BY <1>2, <1>3, <1>5

\* One value changes.
THEOREM SumUpdate ==
  ASSUME NEW S, NEW f, NEW g, Summable(f, S), Summable(g, S),
         NEW x \in S, \A y \in S \ {x} : g[y] = f[y]
  PROVE  SumFunctionOnSet(g, S) = SumFunctionOnSet(f, S) + g[x] - f[x]
<1>1. SumFunctionOnSet(f, S) = f[x] + SumFunctionOnSet(f, S \ {x})
  BY SumTakeOut
<1>2. SumFunctionOnSet(g, S) = g[x] + SumFunctionOnSet(g, S \ {x})
  BY SumTakeOut
<1>3. Summable(f, S \ {x})
  BY SummableSubset
<1>4. SumFunctionOnSet(g, S \ {x}) = SumFunctionOnSet(f, S \ {x})
  BY <1>3, SumsEqual
<1>5. f[x] \in Int /\ g[x] \in Int
  BY DEF Summable
<1>6. SumFunctionOnSet(f, S \ {x}) \in Int
  BY <1>3, SumInt
<1> QED
  BY <1>1, <1>2, <1>4, <1>5, <1>6

\* An element is added.
THEOREM SumAdd ==
  ASSUME NEW S, NEW f, NEW g, Summable(f, S), NEW x, x \notin S, g[x] \in Int,
         \A y \in S : g[y] = f[y]
  PROVE  /\ Summable(g, S \cup {x})
         /\ SumFunctionOnSet(g, S \cup {x}) = SumFunctionOnSet(f, S) + g[x]
<1>1. IsFiniteSet(S \cup {x})
  BY FS_AddElement DEF Summable
<1>2. Summable(g, S \cup {x})
  BY <1>1 DEF Summable
<1>3. (S \cup {x}) \ {x} = S /\ x \in S \cup {x}
  OBVIOUS
<1>4. SumFunctionOnSet(g, S \cup {x}) = g[x] + SumFunctionOnSet(g, S)
  BY <1>2, <1>3, SumTakeOut
<1>5. SumFunctionOnSet(g, S) = SumFunctionOnSet(f, S)
  BY SumsEqual
<1>6. SumFunctionOnSet(f, S) \in Int
  BY SumInt
<1> QED
  BY <1>2, <1>4, <1>5, <1>6

\* One element leaves a sum, comes in, or changes its value.
THEOREM SumReplace ==
  ASSUME NEW S, NEW f, Summable(f, S), NEW R, NEW g, NEW x, R \ {x} = S \ {x},
         x \in R => g[x] \in Int, \A y \in S \ {x} : g[y] = f[y]
  PROVE  /\ Summable(g, R)
         /\ SumFunctionOnSet(g, R)
              = SumFunctionOnSet(f, S)
                  - (IF x \in S THEN f[x] ELSE 0) + (IF x \in R THEN g[x] ELSE 0)
<1> DEFINE rest == S \ {x}
<1>1. Summable(f, rest) /\ SumFunctionOnSet(f, rest) \in Int
  BY SummableSubset, SumInt
<1>2. SumFunctionOnSet(f, S) = SumFunctionOnSet(f, rest) + (IF x \in S THEN f[x] ELSE 0)
  <2>1. CASE x \in S
    <3>1. f[x] \in Int
      BY <2>1 DEF Summable
    <3>2. SumFunctionOnSet(f, S) = f[x] + SumFunctionOnSet(f, rest)
      BY <2>1, SumTakeOut
    <3> HIDE DEF rest
    <3> QED
      BY <1>1, <2>1, <3>1, <3>2
  <2>2. CASE x \notin S
    <3>1. SumFunctionOnSet(f, S) = SumFunctionOnSet(f, rest)
      <4>1. rest = S
        BY <2>2
      <4> QED
        BY <4>1
    <3> HIDE DEF rest
    <3> QED
      BY <1>1, <2>2, <3>1
  <2> QED
    BY <2>1, <2>2
<1>3. /\ Summable(g, R)
      /\ SumFunctionOnSet(g, R)
           = SumFunctionOnSet(f, rest) + (IF x \in R THEN g[x] ELSE 0)
  <2>1. CASE x \in R
    <3>1. x \notin rest
      OBVIOUS
    <3>2. R = rest \cup {x}
      BY <2>1
    <3>3. g[x] \in Int /\ \A y \in rest : g[y] = f[y]
      BY <2>1
    <3> HIDE DEF rest
    <3>4. Summable(g, rest \cup {x})
      BY <1>1, <3>1, <3>3, SumAdd
    <3>5. Summable(g, R) /\ R \ {x} = rest
      BY <3>2, <3>4 DEF rest
    <3>6. SumFunctionOnSet(g, R) = g[x] + SumFunctionOnSet(g, rest)
      BY <2>1, <3>5, SumTakeOut
    <3>7. SumFunctionOnSet(g, rest) = SumFunctionOnSet(f, rest)
      BY <1>1, <3>3, SumsEqual
    <3> QED
      BY <1>1, <2>1, <3>3, <3>5, <3>6, <3>7
  <2>2. CASE x \notin R
    <3>1. R = rest /\ \A y \in rest : g[y] = f[y]
      BY <2>2
    <3> HIDE DEF rest
    <3>2. Summable(g, rest)
      BY <1>1, <3>1 DEF Summable
    <3>3. SumFunctionOnSet(g, rest) = SumFunctionOnSet(f, rest)
      BY <1>1, <3>1, SumsEqual
    <3> QED
      BY <1>1, <2>2, <3>1, <3>2, <3>3
  <2> QED
    BY <2>1, <2>2
<1>4. x \in S => f[x] \in Int
  BY DEF Summable
<1> HIDE DEF rest
<1> QED
  BY <1>1, <1>2, <1>3, <1>4

\* The sum of values that are not negative is none of them less, nor negative.
THEOREM SumNat ==
  ASSUME NEW S, NEW f, IsFiniteSet(S), \A x \in S : f[x] \in Nat
  PROVE  /\ SumFunctionOnSet(f, S) \in Nat
         /\ \A x \in S : f[x] <= SumFunctionOnSet(f, S)
<1>1. Summable(f, S)
  BY DEF Summable
<1> DEFINE good == {s \in SUBSET S : SumFunctionOnSet(f, s) \in Nat}
<1>2. {} \in good
  BY SumOfNone
<1>3. ASSUME NEW s \in SUBSET S, NEW x \in S, s \in good, x \notin s
      PROVE  s \cup {x} \in good
  <2>1. Summable(f, s) /\ f[x] \in Int
    BY <1>1, SummableSubset
  <2>2. SumFunctionOnSet(f, s \cup {x}) = SumFunctionOnSet(f, s) + f[x]
    BY <1>3, <2>1, SumAdd
  <2> QED
    BY <1>3, <2>2
<1>4. \A s \in SUBSET S : SumFunctionOnSet(f, s) \in Nat
  <2>1. ASSUME NEW s \in SUBSET S PROVE s \in good
    <3>1. IsFiniteSet(s)
      BY FS_Subset
    <3>2. \A r \in SUBSET s, x \in s : r \in good /\ x \notin r => r \cup {x} \in good
      BY <1>3
    <3> HIDE DEF good
    <3> QED
      BY <1>2, <3>1, <3>2, SetsByInduction
  <2> QED
    BY <2>1
<1>5. ASSUME NEW x \in S PROVE f[x] <= SumFunctionOnSet(f, S)
  <2>1. SumFunctionOnSet(f, S) = f[x] + SumFunctionOnSet(f, S \ {x})
    BY <1>1, SumTakeOut
  <2>2. SumFunctionOnSet(f, S \ {x}) \in Nat
    BY <1>4
  <2> QED
    BY <2>1, <2>2
<1> QED
  BY <1>4, <1>5

\* The sum of zeros is zero.
THEOREM SumOfZeros ==
  ASSUME NEW S, NEW f, IsFiniteSet(S), \A x \in S : f[x] = 0
  PROVE  SumFunctionOnSet(f, S) = 0
<1> DEFINE zero == {s \in SUBSET S : SumFunctionOnSet(f, s) = 0}
<1>1. {} \in zero
  BY SumOfNone
<1>2. ASSUME NEW s \in SUBSET S, NEW x \in S, s \in zero, x \notin s
      PROVE  s \cup {x} \in zero
  <2>1. Summable(f, s) /\ f[x] \in Int
    BY FS_Subset DEF Summable
  <2>2. Summable(f, s \cup {x}) /\ (s \cup {x}) \ {x} = s /\ x \in s \cup {x}
    BY <1>2, <2>1, FS_AddElement DEF Summable
  <2>3. SumFunctionOnSet(f, s \cup {x}) = f[x] + SumFunctionOnSet(f, s)
    BY <2>2, SumTakeOut
  <2> QED
    BY <1>2, <2>3
<1>3. S \in zero
  <2> HIDE DEF zero
  <2> QED
    BY <1>1, <1>2, SetsByInduction
<1> QED
  BY <1>3

\* The sum of sums of two terms is the sum of their sums.
THEOREM SumPlus ==
  ASSUME NEW S, NEW f, NEW g, NEW h, Summable(f, S), Summable(g, S),
         \A x \in S : h[x] = f[x] + g[x]
  PROVE  SumFunctionOnSet(h, S) = SumFunctionOnSet(f, S) + SumFunctionOnSet(g, S)
<1> DEFINE good == {s \in SUBSET S :
                      SumFunctionOnSet(h, s)
                        = SumFunctionOnSet(f, s) + SumFunctionOnSet(g, s)}
<1>1. IsFiniteSet(S) /\ \A x \in S : f[x] \in Int /\ g[x] \in Int /\ h[x] \in Int
  BY DEF Summable
<1>2. {} \in good
  BY SumOfNone
<1>3. ASSUME NEW s \in SUBSET S, NEW x \in S, s \in good, x \notin s
      PROVE  s \cup {x} \in good
  <2>1. s \cup {x} \in SUBSET S /\ (s \cup {x}) \ {x} = s /\ x \in s \cup {x}
    BY <1>3
  <2>2. IsFiniteSet(s \cup {x}) /\ IsFiniteSet(s)
    BY <1>1, <2>1, FS_Subset
  <2>3. /\ Summable(f, s \cup {x}) /\ Summable(g, s \cup {x}) /\ Summable(h, s \cup {x})
        /\ Summable(f, s) /\ Summable(g, s)
    BY <1>1, <2>1, <2>2 DEF Summable
  <2>4. SumFunctionOnSet(f, s \cup {x}) = f[x] + SumFunctionOnSet(f, s)
    BY <2>1, <2>3, SumTakeOut
  <2>5. SumFunctionOnSet(g, s \cup {x}) = g[x] + SumFunctionOnSet(g, s)
    BY <2>1, <2>3, SumTakeOut
  <2>6. SumFunctionOnSet(h, s \cup {x}) = h[x] + SumFunctionOnSet(h, s)
    BY <2>1, <2>3, SumTakeOut
  <2>7. SumFunctionOnSet(f, s) \in Int /\ SumFunctionOnSet(g, s) \in Int
    BY <2>3, SumInt
  <2>8. SumFunctionOnSet(h, s) = SumFunctionOnSet(f, s) + SumFunctionOnSet(g, s)
    BY <1>3
  <2>9. h[x] = f[x] + g[x] /\ f[x] \in Int /\ g[x] \in Int
    BY <1>1
  <2> QED
    BY <2>1, <2>4, <2>5, <2>6, <2>7, <2>8, <2>9
<1>4. S \in good
  <2> HIDE DEF good
  <2> QED
    BY <1>1, <1>2, <1>3, SetsByInduction
<1> QED
  BY <1>4

\* The sum over two sets without a common element is that of their sums.
THEOREM SumDisjoint ==
  ASSUME NEW S, NEW R, NEW f, Summable(f, S), Summable(f, R), S \cap R = {}
  PROVE  /\ Summable(f, S \cup R)
         /\ SumFunctionOnSet(f, S \cup R) = SumFunctionOnSet(f, S) + SumFunctionOnSet(f, R)
<1> DEFINE good == {r \in SUBSET R :
                      SumFunctionOnSet(f, S \cup r)
                        = SumFunctionOnSet(f, S) + SumFunctionOnSet(f, r)}
<1>1. /\ IsFiniteSet(S) /\ IsFiniteSet(R)
      /\ \A x \in S : f[x] \in Int
      /\ \A x \in R : f[x] \in Int
  BY DEF Summable
<1>2. IsFiniteSet(S \cup R)
  BY <1>1, FS_Union
<1>3. Summable(f, S \cup R)
  BY <1>1, <1>2 DEF Summable
<1>4. {} \in good
  <2>1. S \cup {} = S
    OBVIOUS
  <2>2. SumFunctionOnSet(f, S) \in Int
    BY SumInt
  <2> QED
    BY <2>1, <2>2, SumOfNone
<1>5. ASSUME NEW r \in SUBSET R, NEW x \in R, r \in good, x \notin r
      PROVE  r \cup {x} \in good
  <2>1. /\ r \cup {x} \in SUBSET R /\ (r \cup {x}) \ {x} = r /\ x \in r \cup {x}
        /\ S \cup (r \cup {x}) \in SUBSET (S \cup R) /\ x \in S \cup (r \cup {x})
    BY <1>5
  <2>2. (S \cup (r \cup {x})) \ {x} = S \cup r
    BY <1>5
  <2>3. Summable(f, S \cup (r \cup {x}))
    BY <1>3, <2>1, SummableSubset
  <2>4. Summable(f, r \cup {x})
    BY <2>1, SummableSubset
  <2>5. Summable(f, r)
    BY SummableSubset
  <2>6. SumFunctionOnSet(f, S \cup (r \cup {x}))
          = f[x] + SumFunctionOnSet(f, (S \cup (r \cup {x})) \ {x})
    BY <2>1, <2>3, SumTakeOut
  <2>7. SumFunctionOnSet(f, r \cup {x}) = f[x] + SumFunctionOnSet(f, r)
    BY <2>1, <2>4, SumTakeOut
  <2>8. SumFunctionOnSet(f, r) \in Int /\ SumFunctionOnSet(f, S) \in Int /\ f[x] \in Int
    BY <1>1, <2>5, SumInt
  <2>9. SumFunctionOnSet(f, S \cup r) = SumFunctionOnSet(f, S) + SumFunctionOnSet(f, r)
    BY <1>5
  <2>10. SumFunctionOnSet(f, S \cup (r \cup {x}))
           = SumFunctionOnSet(f, S) + SumFunctionOnSet(f, r \cup {x})
    <3>1. SumFunctionOnSet(f, S \cup (r \cup {x})) = f[x] + SumFunctionOnSet(f, S \cup r)
      BY <2>2, <2>6
    <3> QED
      BY <2>7, <2>8, <2>9, <3>1
  <2> QED
    BY <2>1, <2>10
<1>6. R \in good
  <2> HIDE DEF good
  <2> QED
    BY <1>1, <1>4, <1>5, SetsByInduction
<1> QED
  BY <1>3, <1>6

\* Terms that are not negative have no larger sum over a subset.
THEOREM SumSubset ==
  ASSUME NEW S, NEW f, IsFiniteSet(S), \A x \in S : f[x] \in Nat, NEW R \in SUBSET S
  PROVE  SumFunctionOnSet(f, R) <= SumFunctionOnSet(f, S)
<1> DEFINE good == {s \in SUBSET S :
                      SumFunctionOnSet(f, s \cap R) <= SumFunctionOnSet(f, s)}
<1>1. {} \in good
  <2>1. {} \cap R = {}
    OBVIOUS
  <2> QED
    BY <2>1, SumOfNone
<1>2. ASSUME NEW s \in SUBSET S, NEW x \in S, s \in good, x \notin s
      PROVE  s \cup {x} \in good
  <2>1. s \cup {x} \in SUBSET S /\ (s \cup {x}) \ {x} = s /\ x \in s \cup {x}
    BY <1>2
  <2>2. IsFiniteSet(s \cup {x}) /\ IsFiniteSet(s) /\ IsFiniteSet(s \cap R)
        /\ IsFiniteSet((s \cup {x}) \cap R)
    BY <2>1, FS_Subset
  <2>3. Summable(f, s \cup {x}) /\ Summable(f, (s \cup {x}) \cap R)
    BY <2>1, <2>2 DEF Summable
  <2>4. SumFunctionOnSet(f, s \cup {x}) = f[x] + SumFunctionOnSet(f, s)
    BY <2>1, <2>3, SumTakeOut
  <2>5. SumFunctionOnSet(f, s) \in Nat /\ SumFunctionOnSet(f, s \cap R) \in Nat
    BY <2>2, SumNat
  <2>6. SumFunctionOnSet(f, s \cap R) <= SumFunctionOnSet(f, s) /\ f[x] \in Nat
    BY <1>2
  <2>7. CASE x \in R
    <3>1. ((s \cup {x}) \cap R) \ {x} = s \cap R /\ x \in (s \cup {x}) \cap R
      BY <1>2, <2>7
    <3>2. SumFunctionOnSet(f, (s \cup {x}) \cap R) = f[x] + SumFunctionOnSet(f, s \cap R)
      BY <2>3, <3>1, SumTakeOut
    <3> QED
      BY <2>1, <2>4, <2>5, <2>6, <3>2
  <2>8. CASE x \notin R
    <3>1. (s \cup {x}) \cap R = s \cap R
      BY <2>8
    <3>2. SumFunctionOnSet(f, s \cap R) <= SumFunctionOnSet(f, s \cup {x})
      BY <2>4, <2>5, <2>6
    <3>3. SumFunctionOnSet(f, (s \cup {x}) \cap R) <= SumFunctionOnSet(f, s \cup {x})
      BY <3>1, <3>2
    <3> QED
      BY <2>1, <3>3
  <2> QED
    BY <2>7, <2>8
<1>3. S \in good
  <2> HIDE DEF good
  <2> QED
    BY <1>1, <1>2, SetsByInduction
<1>4. S \cap R = R
  OBVIOUS
<1> QED
  BY <1>3, <1>4

\* Terms that go to different terms that are no smaller have no larger sum.
THEOREM SumInjection ==
  ASSUME NEW S, NEW f, IsFiniteSet(S), \A y \in S : f[y] \in Nat,
         NEW T, NEW g, IsFiniteSet(T), \A x \in T : g[x] \in Nat,
         NEW h, \A x \in T : h[x] \in S /\ g[x] <= f[h[x]],
         \A x, y \in T : h[x] = h[y] => x = y
  PROVE  SumFunctionOnSet(g, T) <= SumFunctionOnSet(f, S)
<1> DEFINE images(t) == {h[x] : x \in t}
           good == {t \in SUBSET T :
                      SumFunctionOnSet(g, t) <= SumFunctionOnSet(f, images(t))}
<1>1. {} \in good
  <2>1. images({}) = {}
    OBVIOUS
  <2> QED
    BY <2>1, SumOfNone
<1>2. ASSUME NEW t \in SUBSET T, NEW x \in T, t \in good, x \notin t
      PROVE  t \cup {x} \in good
  <2>1. t \cup {x} \in SUBSET T /\ (t \cup {x}) \ {x} = t /\ x \in t \cup {x}
    BY <1>2
  <2>2. /\ images(t \cup {x}) \in SUBSET S /\ h[x] \in images(t \cup {x})
        /\ images(t) \in SUBSET S
        /\ images(t \cup {x}) \ {h[x]} = images(t)
    <3>1. images(t \cup {x}) = images(t) \cup {h[x]}
      OBVIOUS
    <3>2. h[x] \notin images(t)
      BY <1>2
    <3>3. images(t) \in SUBSET S /\ h[x] \in S
      OBVIOUS
    <3> HIDE DEF images
    <3> QED
      BY <3>1, <3>2, <3>3
  <2>3. SumFunctionOnSet(g, t) <= SumFunctionOnSet(f, images(t))
    BY <1>2
  <2> HIDE DEF images
  <2>4. IsFiniteSet(t \cup {x}) /\ IsFiniteSet(t) /\ IsFiniteSet(images(t))
        /\ IsFiniteSet(images(t \cup {x}))
    BY <2>1, <2>2, FS_Subset
  <2>5. Summable(g, t \cup {x}) /\ Summable(f, images(t \cup {x}))
    BY <2>1, <2>2, <2>4 DEF Summable
  <2>6. SumFunctionOnSet(g, t \cup {x}) = g[x] + SumFunctionOnSet(g, t)
    BY <2>1, <2>5, SumTakeOut
  <2>7. SumFunctionOnSet(f, images(t \cup {x})) = f[h[x]] + SumFunctionOnSet(f, images(t))
    <3>1. SumFunctionOnSet(f, images(t \cup {x}))
            = f[h[x]] + SumFunctionOnSet(f, images(t \cup {x}) \ {h[x]})
      <4>1. h[x] \in images(t \cup {x})
        BY <2>2
      <4> QED
        BY <2>5, <4>1, SumTakeOut
    <3> QED
      BY <2>2, <3>1
  <2>8. SumFunctionOnSet(g, t) \in Nat
    BY <2>4, SumNat
  <2>9. SumFunctionOnSet(f, images(t)) \in Nat
    BY <2>2, <2>4, SumNat
  <2>10. g[x] \in Nat /\ f[h[x]] \in Nat /\ g[x] <= f[h[x]]
    OBVIOUS
  <2> QED
    BY <2>1, <2>3, <2>6, <2>7, <2>8, <2>9, <2>10
<1>3. T \in good
  <2> HIDE DEF good
  <2> QED
    BY <1>1, <1>2, SetsByInduction
<1>4. images(T) \in SUBSET S
  OBVIOUS
<1>5. SumFunctionOnSet(g, T) <= SumFunctionOnSet(f, images(T))
  BY <1>3
<1> HIDE DEF images
<1>6. SumFunctionOnSet(f, images(T)) <= SumFunctionOnSet(f, S)
  BY <1>4, SumSubset
<1>7. IsFiniteSet(images(T))
  BY <1>4, FS_Subset
<1>8. SumFunctionOnSet(g, T) \in Nat
  BY SumNat
<1>9. SumFunctionOnSet(f, images(T)) \in Nat
  BY <1>4, <1>7, SumNat
<1>10. SumFunctionOnSet(f, S) \in Nat
  BY SumNat
<1> QED
  BY <1>5, <1>6, <1>8, <1>9, <1>10

\* A finite set of numbers has a largest one.
THEOREM LargestNumber ==
  ASSUME NEW S, IsFiniteSet(S), S \subseteq Nat, S # {}
  PROVE  Max(S) \in S /\ \A x \in S : x <= Max(S)
<1> DEFINE good == {s \in SUBSET S : s # {} => \E x \in s : \A y \in s : y <= x}
<1>1. {} \in good
  OBVIOUS
<1>2. ASSUME NEW s \in SUBSET S, NEW x \in S, s \in good, x \notin s
      PROVE  s \cup {x} \in good
  <2>1. CASE s = {}
    BY <2>1
  <2>2. CASE s # {}
    <3>1. PICK z \in s : \A y \in s : y <= z
      BY <1>2, <2>2
    <3>2. x \in Nat /\ z \in Nat /\ \A y \in s : y \in Nat
      OBVIOUS
    <3>3. CASE x <= z
      <4>1. \A y \in s \cup {x} : y <= z
        BY <3>1, <3>3
      <4> QED
        BY <4>1
    <3>4. CASE z <= x
      <4>1. \A y \in s \cup {x} : y <= x
        BY <3>1, <3>2, <3>4
      <4> QED
        BY <4>1
    <3> QED
      BY <3>2, <3>3, <3>4
  <2> QED
    BY <2>1, <2>2
<1>3. S \in good
  <2> HIDE DEF good
  <2> QED
    BY <1>1, <1>2, SetsByInduction
<1>4. PICK x \in S : \A y \in S : x >= y
  BY <1>3
<1> QED
  BY <1>4 DEF Max

LEMMA FiniteImage ==
  ASSUME NEW S, IsFiniteSet(S), NEW f
  PROVE  IsFiniteSet({f[x] : x \in S})
<1> DEFINE g == [x \in S |-> f[x]]
           T == {f[x] : x \in S}
<1>1. g \in Surjection(S, T)
  BY DEF Surjection
<1> QED
  BY <1>1, FS_Surjection

(***************************************************************************)
(* Folds along a sequence, which take the last element first.              *)
(***************************************************************************)
LEMMA LastChooses ==
  ASSUME NEW n \in Nat
  PROVE  /\ \A s \in SUBSET (1 .. n) : s # {} => Max(s) \in s
         /\ \A k \in 1 .. n : Max(1 .. k) = k
<1>1. ASSUME NEW s \in SUBSET (1 .. n), s # {} PROVE Max(s) \in s
  <2> DEFINE falls == {n - x : x \in s}
  <2>1. PICK d \in falls : \A e \in falls : d <= e
    <3>1. falls \subseteq Nat
      OBVIOUS
    <3>2. falls # {}
      BY <1>1
    <3> HIDE DEF falls
    <3> QED
      BY <3>1, <3>2, LeastNumber
  <2>2. PICK x \in s : d = n - x
    OBVIOUS
  <2>3. ASSUME NEW y \in s PROVE x >= y
    <3>1. n - y \in falls
      OBVIOUS
    <3>2. n - x <= n - y
      BY <2>1, <2>2, <3>1
    <3>3. x \in Int /\ y \in Int
      OBVIOUS
    <3> QED
      BY <3>2, <3>3
  <2> QED
    BY <2>3 DEF Max
<1>2. ASSUME NEW k \in 1 .. n PROVE Max(1 .. k) = k
  <2> DEFINE last == CHOOSE x \in 1 .. k : \A y \in 1 .. k : x >= y
  <2>1. k \in 1 .. k /\ \A y \in 1 .. k : k >= y
    OBVIOUS
  <2>2. last \in 1 .. k /\ \A y \in 1 .. k : last >= y
    BY <2>1
  <2>3. Max(1 .. k) = last
    BY DEF Max
  <2> HIDE DEF last
  <2> QED
    BY <2>1, <2>2, <2>3
<1> QED
  BY <1>1, <1>2

LEMMA RangesFromOne ==
  ASSUME NEW n \in Nat
  PROVE  /\ 1 .. 0 = {} /\ 1 .. n \in SUBSET (1 .. n)
         /\ \A k \in 1 .. n :
              /\ 1 .. k \in SUBSET (1 .. n) /\ 1 .. k # {}
              /\ k - 1 \in 0 .. n - 1
              /\ (1 .. k) \ {Max(1 .. k)} = 1 .. k - 1 /\ Max(1 .. k) = k
<1>1. 1 .. 0 = {}
  OBVIOUS
<1>2. ASSUME NEW k \in 1 .. n
      PROVE  /\ 1 .. k \in SUBSET (1 .. n) /\ 1 .. k # {}
             /\ k - 1 \in 0 .. n - 1
             /\ (1 .. k) \ {Max(1 .. k)} = 1 .. k - 1 /\ Max(1 .. k) = k
  <2>1. Max(1 .. k) = k
    BY LastChooses
  <2>2. (1 .. k) \ {k} = 1 .. k - 1
    OBVIOUS
  <2>3. k \in 1 .. k /\ 1 .. k \in SUBSET (1 .. n) /\ k - 1 \in 0 .. n - 1
    OBVIOUS
  <2> QED
    BY <2>1, <2>2, <2>3
<1> QED
  BY <1>1, <1>2

IsSequenceFold(iter, n, base, step) ==
  iter = [s \in SUBSET (1 .. n) |->
            IF s = {} THEN base ELSE step[Max(s)][iter[s \ {Max(s)}]]]

\* The partial results of a fold along a sequence exist and have a type.
THEOREM SequenceFold ==
  ASSUME NEW n \in Nat, NEW A, NEW base \in A, NEW step,
         \A i \in 1 .. n, a \in A : step[i][a] \in A
  PROVE  \E iter : /\ IsSequenceFold(iter, n, base, step)
                   /\ \A s \in SUBSET (1 .. n) : iter[s] \in A
<1> DEFINE S == 1 .. n
           choose == [s \in SUBSET S |-> Max(s)]
<1>1. \A s \in SUBSET S : choose[s] = Max(s)
  OBVIOUS
<1> HIDE DEF choose
<1>2. IsFiniteSet(S)
  BY FS_Interval
<1>3. Chooses(choose, S)
  <2>1. \A s \in SUBSET S : s # {} => Max(s) \in s
    BY LastChooses
  <2> HIDE DEF S
  <2> QED
    BY <1>1, <2>1 DEF Chooses
<1>4. PICK iter : IsFold(iter, base, step, choose, S)
  BY <1>2, <1>3, FoldExists
<1>5. \A s \in SUBSET S : iter[s] \in A
  <2>1. \A x \in S, a \in A : step[x][a] \in A
    OBVIOUS
  <2> HIDE DEF S
  <2>2. ASSUME NEW s \in SUBSET S PROVE iter[s] \in A
    BY <1>2, <1>3, <1>4, <2>1, FoldType
  <2> QED
    BY <2>2
<1>6. iter = [s \in SUBSET S |->
                IF s = {} THEN base ELSE step[Max(s)][iter[s \ {Max(s)}]]]
  <2>1. \A s \in SUBSET S :
          iter[s] = IF s = {} THEN base ELSE step[Max(s)][iter[s \ {Max(s)}]]
    BY <1>1, <1>4 DEF IsFold
  <2>2. iter = [s \in SUBSET S |-> iter[s]]
    BY <1>4 DEF IsFold
  <2> HIDE DEF S
  <2> QED
    BY <2>1, <2>2
<1> QED
  BY <1>5, <1>6 DEF IsSequenceFold

\* A total is a sum.
THEOREM TotalIsSum ==
  ASSUME NEW values, NEW n \in Nat, DOMAIN values = 1 .. n,
         \A i \in 1 .. n : values[i] \in Int
  PROVE  FoldLeft(+, 0, values) = SumFunctionOnSet(values, 1 .. n)
<1> DEFINE S == 1 .. n
           totals(iter) == iter = [s \in SUBSET S |->
                                     IF s = {} THEN 0
                                     ELSE iter[s \ {Max(s)}] + values[Max(s)]]
           total == CHOOSE iter : totals(iter)
<1>1. Summable(values, S)
  BY FS_Interval DEF Summable
<1>2. \A s \in SUBSET S : s # {} => Max(s) \in s
  BY LastChooses
<1>3. \E iter : totals(iter)
  <2> DEFINE step == [i \in S |-> [a \in Int |-> a + values[i]]]
  <2>1. \A i \in 1 .. n, a \in Int : step[i][a] = a + values[i] /\ step[i][a] \in Int
    OBVIOUS
  <2> HIDE DEF step
  <2>2. PICK iter : /\ IsSequenceFold(iter, n, 0, step)
                    /\ \A s \in SUBSET (1 .. n) : iter[s] \in Int
    <3>1. 0 \in Int
      OBVIOUS
    <3>2. \A i \in 1 .. n, a \in Int : step[i][a] \in Int
      BY <2>1
    <3> QED
      BY <3>1, <3>2, SequenceFold
  <2>3. ASSUME NEW s \in SUBSET S
        PROVE  iter[s] = IF s = {} THEN 0 ELSE iter[s \ {Max(s)}] + values[Max(s)]
    <3>1. iter[s] = IF s = {} THEN 0 ELSE step[Max(s)][iter[s \ {Max(s)}]]
      BY <2>2 DEF IsSequenceFold
    <3>2. s # {} => Max(s) \in 1 .. n /\ iter[s \ {Max(s)}] \in Int
      BY <1>2, <2>2
    <3> QED
      BY <2>1, <3>1, <3>2
  <2>4. iter = [s \in SUBSET S |-> iter[s]]
    BY <2>2 DEF IsSequenceFold
  <2> HIDE DEF S
  <2>5. totals(iter)
    BY <2>3, <2>4
  <2> QED
    BY <2>5
<1>4. totals(total)
  <2> HIDE DEF totals
  <2> QED
    BY <1>3
<1>5. total[{}] = 0
  BY <1>4
<1>6. ASSUME NEW k \in 1 .. n
      PROVE  total[1 .. k] = total[1 .. k - 1] + values[k]
  <2>1. 1 .. k \in SUBSET S /\ 1 .. k # {} /\ (1 .. k) \ {k} = 1 .. k - 1
    <3>1. k \in 1 .. k /\ 1 .. k \in SUBSET S
      OBVIOUS
    <3>2. (1 .. k) \ {k} = 1 .. k - 1
      OBVIOUS
    <3> QED
      BY <3>1, <3>2
  <2>2. Max(1 .. k) = k
    BY LastChooses
  <2>3. total[1 .. k] = total[(1 .. k) \ {Max(1 .. k)}] + values[Max(1 .. k)]
    BY <1>4, <2>1
  <2> QED
    BY <2>1, <2>2, <2>3
<1> HIDE DEF total
<1> DEFINE same == {k \in 0 .. n : total[1 .. k] = SumFunctionOnSet(values, 1 .. k)}
<1>7. 0 \in same
  <2>1. 1 .. 0 = {}
    OBVIOUS
  <2> QED
    BY <1>5, <2>1, SumOfNone
<1>8. ASSUME NEW k \in same \cap 0 .. n - 1 PROVE k + 1 \in same
  <2>1. (1 .. k + 1) \ {k + 1} = 1 .. k /\ k + 1 \in 1 .. k + 1 /\ k + 1 \in 1 .. n
        /\ (k + 1) - 1 = k
    OBVIOUS
  <2>2. Summable(values, 1 .. k + 1)
    BY <1>1, SummableSubset
  <2>3. SumFunctionOnSet(values, 1 .. k + 1)
          = values[k + 1] + SumFunctionOnSet(values, 1 .. k)
    BY <2>1, <2>2, SumTakeOut
  <2>4. SumFunctionOnSet(values, 1 .. k) \in Int /\ values[k + 1] \in Int
    <3>1. Summable(values, 1 .. k)
      BY <1>1, SummableSubset
    <3> QED
      BY <2>1, <3>1, SumInt
  <2>5. total[1 .. k + 1] = total[1 .. k] + values[k + 1]
    BY <1>6, <2>1
  <2>6. k + 1 \in 0 .. n
    OBVIOUS
  <2> QED
    BY <2>3, <2>4, <2>5, <2>6
<1>9. n \in same
  <2> HIDE DEF same
  <2>1. 0 .. n \subseteq same
    BY <1>7, <1>8, NumbersUpTo
  <2> QED
    BY <2>1
<1>10. FoldLeft(+, 0, values) = total[S]
  BY DEF FoldLeft, MapThenFoldSet, Max, total
<1> QED
  BY <1>9, <1>10

(***************************************************************************)
(* Powers of a base, defined by recursion on the exponent.                 *)
(***************************************************************************)
IsPowers(g, base, n) == g[0] = 1 /\ \A k \in 1 .. n : g[k] = base * g[k - 1]

\* Powers up to a number exist, and are the same as those up to another one.
LEMMA PowersUpTo ==
  ASSUME NEW base \in Nat, NEW n \in Nat
  PROVE  \E g \in [0 .. n -> Nat] : IsPowers(g, base, n)
<1> DEFINE T == {k \in Nat : \E g \in [0 .. k -> Nat] : IsPowers(g, base, k)}
<1>1. 0 \in T
  <2>1. [k \in 0 .. 0 |-> 1] \in [0 .. 0 -> Nat] /\ IsPowers([k \in 0 .. 0 |-> 1], base, 0)
    BY DEF IsPowers
  <2> QED
    BY <2>1
<1>2. ASSUME NEW k \in Nat, k \in T PROVE k + 1 \in T
  <2>1. PICK g \in [0 .. k -> Nat] : IsPowers(g, base, k)
    BY <1>2
  <2> DEFINE h == [i \in 0 .. k + 1 |-> IF i = k + 1 THEN base * g[k] ELSE g[i]]
  <2>2. h \in [0 .. k + 1 -> Nat]
    OBVIOUS
  <2>3. \A i \in 1 .. k : h[i] = g[i] /\ h[i - 1] = g[i - 1]
    OBVIOUS
  <2>4. h[k + 1] = base * g[k] /\ h[k + 1 - 1] = g[k] /\ h[0] = g[0]
    OBVIOUS
  <2>5. IsPowers(h, base, k + 1)
    <3> HIDE DEF h
    <3>1. ASSUME NEW j \in 1 .. k + 1 PROVE h[j] = base * h[j - 1]
      <4>1. CASE j = k + 1
        BY <2>4, <4>1
      <4>2. CASE j \in 1 .. k
        BY <2>1, <2>3, <4>2 DEF IsPowers
      <4> QED
        BY <4>1, <4>2
    <3> QED
      BY <2>1, <2>4, <3>1 DEF IsPowers
  <2> QED
    BY <2>2, <2>5
<1>3. n \in 0 .. n /\ \A k \in T \cap 0 .. n - 1 : k + 1 \in T
  <2> HIDE DEF T
  <2> QED
    BY <1>2
<1>4. 0 .. n \subseteq T
  <2> HIDE DEF T
  <2> QED
    BY <1>1, <1>3, NumbersUpTo
<1> QED
  BY <1>3, <1>4

LEMMA PowersAgree ==
  ASSUME NEW base \in Nat, NEW n \in Nat, NEW m \in Nat, n <= m, NEW g, NEW h,
         IsPowers(g, base, n), IsPowers(h, base, m)
  PROVE  g[n] = h[n]
<1> DEFINE T == {k \in 0 .. n : g[k] = h[k]}
<1>1. 0 \in T
  BY DEF IsPowers
<1>2. \A k \in T \cap 0 .. n - 1 : k + 1 \in T
  <2> SUFFICES ASSUME NEW k \in T, k \in 0 .. n - 1 PROVE k + 1 \in T
    OBVIOUS
  <2>1. k + 1 \in 1 .. n /\ k + 1 \in 1 .. m /\ k + 1 - 1 = k
    OBVIOUS
  <2> QED
    BY <2>1 DEF IsPowers
<1>3. 0 .. n \subseteq T
  <2> HIDE DEF T
  <2> QED
    BY <1>1, <1>2, NumbersUpTo
<1> QED
  BY <1>3

\* A definition by recursion on the exponent defines powers.
THEOREM PowersOf ==
  ASSUME NEW base \in Nat \ {0},
         NEW p, p = CHOOSE f : f = [n \in Nat |-> IF n = 0 THEN 1 ELSE base * f[n - 1]]
  PROVE  /\ p[0] = 1
         /\ \A n \in Nat : p[n] \in Nat \ {0} /\ p[n + 1] = base * p[n]
<1> DEFINE G(n) == CHOOSE g \in [0 .. n -> Nat] : IsPowers(g, base, n)
           f == [n \in Nat |-> G(n)[n]]
           powers(q) == q = [n \in Nat |-> IF n = 0 THEN 1 ELSE base * q[n - 1]]
<1>1. \A n \in Nat : G(n) \in [0 .. n -> Nat] /\ IsPowers(G(n), base, n)
  BY PowersUpTo
<1>2. \A n \in Nat \ {0} : f[n] = base * f[n - 1]
  <2> SUFFICES ASSUME NEW n \in Nat \ {0} PROVE f[n] = base * f[n - 1]
    OBVIOUS
  <2>3. f[n] = G(n)[n] /\ f[n - 1] = G(n - 1)[n - 1]
    <3> HIDE DEF G
    <3> QED
      OBVIOUS
  <2>1. G(n - 1)[n - 1] = G(n)[n - 1]
    <3> DEFINE m == n - 1
    <3>1. m \in Nat /\ m <= n
      OBVIOUS
    <3>2. IsPowers(G(m), base, m) /\ IsPowers(G(n), base, n)
      BY <1>1, <3>1
    <3> HIDE DEF G, m
    <3>3. G(m)[m] = G(n)[m]
      BY <3>1, <3>2, PowersAgree
    <3> QED
      BY <3>3 DEF m
  <2>2. IsPowers(G(n), base, n) /\ n \in 1 .. n
    BY <1>1
  <2>4. G(n)[n] = base * G(n)[n - 1]
    <3> HIDE DEF G
    <3> QED
      BY <2>2 DEF IsPowers
  <2> HIDE DEF G, f
  <2> QED
    BY <2>1, <2>3, <2>4
<1>3. f[0] = 1
  BY <1>1 DEF IsPowers
<1>4. powers(f)
  <2>1. \A n \in Nat : f[n] = IF n = 0 THEN 1 ELSE base * f[n - 1]
    <3> HIDE DEF f
    <3> QED
      BY <1>2, <1>3
  <2>2. f = [n \in Nat |-> f[n]]
    OBVIOUS
  <2> HIDE DEF f
  <2> QED
    BY <2>1, <2>2
<1>5. p = CHOOSE q : powers(q)
  OBVIOUS
<1>6. powers(p)
  <2> HIDE DEF f, powers
  <2> QED
    BY <1>4, <1>5
<1>7. \A n \in Nat : p[n] = IF n = 0 THEN 1 ELSE base * p[n - 1]
  BY <1>6
<1>8. ASSUME NEW n \in Nat PROVE p[n] \in Nat \ {0}
  <2> DEFINE T == {k \in Nat : p[k] \in Nat \ {0}}
  <2>1. 0 \in T /\ \A k \in T \cap 0 .. n - 1 : k + 1 \in T
    BY <1>7
  <2>2. 0 .. n \subseteq T
    <3> HIDE DEF T
    <3> QED
      BY <2>1, NumbersUpTo
  <2> QED
    BY <2>2
<1> QED
  BY <1>7, <1>8
=============================================================================
