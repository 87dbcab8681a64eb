------------------------------ MODULE RingArith ------------------------------
(***************************************************************************)
(* Numbers and their rests, as the wrapping indices of a ring use them.    *)
(***************************************************************************)
EXTENDS Naturals, FiniteSetTheorems, WellFoundedInduction, TLAPS

\* A set of numbers has a least element.
LEMMA LeastExists ==
  ASSUME NEW T \in SUBSET Nat, T # {}
  PROVE  \E m \in T : \A n \in T : m <= n
<1> DEFINE Up == {1..m : m \in T}
<1>1. Up \subseteq FiniteSubsetsOf(Nat) /\ Up # {}
  <2>1. \A m \in T : 1..m \in SUBSET Nat
    OBVIOUS
  <2>2. ASSUME NEW m \in T PROVE IsFiniteSet(1..m)
    BY FS_Interval
  <2> QED
    BY Zenon, <2>1, <2>2 DEF FiniteSubsetsOf
<1>2. \E x \in Up : \A y \in Up : ~(<<y, x>> \in StrictSubsetOrdering(Nat))
  <2> HIDE DEF Up
  <2> QED
    BY Zenon, <1>1, WFMin, FS_StrictSubsetOrderingWellFounded
<1>3. PICK m \in T : \A y \in Up : ~(<<y, 1..m>> \in StrictSubsetOrdering(Nat))
  BY <1>2
<1>4. \A n \in T : m <= n
  <2> SUFFICES ASSUME NEW n \in T, n < m PROVE FALSE
    OBVIOUS
  <2>1. 1..n \subseteq 1..m /\ 1..n # 1..m /\ 1..n \in SUBSET Nat /\ 1..m \in SUBSET Nat
    <3>1. m \in 1..m /\ m \notin 1..n
      OBVIOUS
    <3> QED
      BY <3>1
  <2> QED
    BY Zenon, <1>3, <2>1 DEF StrictSubsetOrdering
<1> QED
  BY <1>4

\* What a rest is.
LEMMA ModRange ==
  ASSUME NEW a \in Nat, NEW n \in Nat \ {0}
  PROVE  a % n \in 0..(n - 1)
  OBVIOUS

\* A rest is unique.
LEMMA ModUnique ==
  ASSUME NEW n \in Nat \ {0}, NEW a \in Nat, NEW k \in Nat, NEW r \in 0..(n - 1), a = n * k + r
  PROVE  a % n = r
  OBVIOUS

\* A number is a multiple of n and a rest.
LEMMA ModQuotient ==
  ASSUME NEW n \in Nat \ {0}, NEW a \in Nat
  PROVE  \E k \in Nat, r \in 0..(n - 1) : a = n * k + r /\ a % n = r
<1> DEFINE T == {m \in Nat : \E k \in Nat : a = n * k + m}
<1>1. a \in T
  <2>1. a = n * 0 + a
    OBVIOUS
  <2> QED
    BY Zenon, <2>1
<1>2. PICK m \in T : \A j \in T : m <= j
  <2> HIDE DEF T
  <2> QED
    BY Zenon, <1>1, LeastExists DEF T
<1>3. PICK k \in Nat : a = n * k + m
  OBVIOUS
<1>4. m < n
  <2> SUFFICES ASSUME m >= n PROVE FALSE
    OBVIOUS
  <2>1. n * (k + 1) = n * k + n
    OBVIOUS
  <2>2. a = n * (k + 1) + (m - n) /\ m - n \in Nat /\ k + 1 \in Nat
    BY <1>3, <2>1
  <2>3. m - n \in T
    BY Zenon, <2>2
  <2>4. m <= m - n
    BY Zenon, <1>2, <2>3
  <2> QED
    BY <2>4
<1>5. m \in 0..(n - 1)
  BY <1>4
<1>6. a % n = m
  BY <1>3, <1>5, ModUnique
<1> HIDE DEF T
<1> QED
  BY Zenon, <1>3, <1>5, <1>6

\* Two numbers less than n apart have different rests.
LEMMA ModApart ==
  ASSUME NEW n \in Nat \ {0}, NEW a \in Nat, NEW b \in Nat, a < b, b < a + n
  PROVE  a % n # b % n
<1> SUFFICES ASSUME a % n = b % n PROVE FALSE
  OBVIOUS
<1>1. PICK k \in Nat, r \in 0..(n - 1) : a = n * k + r /\ a % n = r
  BY Zenon, ModQuotient
<1>2. PICK l \in Nat, t \in 0..(n - 1) : b = n * l + t /\ b % n = t
  BY Zenon, ModQuotient
<1>3. r = t
  BY Zenon, <1>1, <1>2
<1>4. n * l - n * k \in 1..(n - 1)
  BY <1>1, <1>2, <1>3
<1>5. CASE l <= k
  <2>1. n * l <= n * k
    BY <1>5
  <2> QED
    BY <1>4, <2>1
<1>6. CASE l >= k + 1
  <2>1. n * l >= n * (k + 1) /\ n * (k + 1) = n * k + n
    BY <1>6
  <2> QED
    BY <1>4, <2>1
<1> QED
  BY <1>5, <1>6

\* A multiple of n more or less does not change the rest.
LEMMA ModDrop ==
  ASSUME NEW n \in Nat \ {0}, NEW w \in Nat, w % n = 0, NEW a \in Nat, a >= w
  PROVE  (a - w) % n = a % n
<1>1. PICK k \in Nat, z \in 0..(n - 1) : w = n * k + z /\ w % n = z
  BY Zenon, ModQuotient
<1> DEFINE b == a - w
<1>b. b \in Nat
  OBVIOUS
<1>2. PICK l \in Nat, r \in 0..(n - 1) : b = n * l + r /\ b % n = r
  <2> HIDE DEF b
  <2> QED
    BY Zenon, <1>b, ModQuotient
<1>3. w = n * k
  <2>1. z = 0
    BY Zenon, <1>1
  <2> QED
    BY <1>1, <2>1
<1>4. a = n * (k + l) + r /\ k + l \in Nat
  <2>1. n * (k + l) = n * k + n * l
    OBVIOUS
  <2> QED
    BY <1>2, <1>3, <2>1
<1>5. a % n = r
  BY <1>4, ModUnique
<1>6. b % n = a % n
  <2> HIDE DEF b
  <2> QED
    BY Zenon, <1>2, <1>5
<1> QED
  BY Zenon, <1>6
=============================================================================
