------------------------------ MODULE BufLists ------------------------------
(***************************************************************************)
(* The two linked lists of BufCache, the LRU list and the disk's queue: a  *)
(* list of buffers in an array of links is walked in the order of a        *)
(* sequence of positions, and the operations on links are operations on    *)
(* that sequence.                                                          *)
(***************************************************************************)
EXTENDS BufCache, FiniteSetTheorems, WellFoundedInduction, TLAPS

\* A set of numbers has a least element.
LEMMA LeastExists ==
  ASSUME NEW T \in SUBSET Nat, T # {}
  PROVE  \E m \in T : \A n \in T : m <= n
<1> DEFINE Up == {1..m : m \in T}
<1>1. Up \subseteq FiniteSubsetsOf(Nat) /\ Up # {}
  <2>1. \A m \in T : 1..m \in SUBSET Nat
    OBVIOUS
  <2>2. ASSUME NEW m \in T PROVE IsFiniteSet(1..m)
    BY FS_Interval
  <2> QED
    BY Zenon, <2>1, <2>2 DEF FiniteSubsetsOf
<1>2. \E x \in Up : \A y \in Up : ~(<<y, x>> \in StrictSubsetOrdering(Nat))
  <2> HIDE DEF Up
  <2> QED
    BY Zenon, <1>1, WFMin, FS_StrictSubsetOrderingWellFounded
<1>3. PICK m \in T : \A y \in Up : ~(<<y, 1..m>> \in StrictSubsetOrdering(Nat))
  BY <1>2
<1>4. \A n \in T : m <= n
  <2> SUFFICES ASSUME NEW n \in T, n < m PROVE FALSE
    OBVIOUS
  <2>1. 1..n \subseteq 1..m /\ 1..n # 1..m /\ 1..n \in SUBSET Nat /\ 1..m \in SUBSET Nat
    <3>1. m \in 1..m /\ m \notin 1..n
      OBVIOUS
    <3> QED
      BY <3>1
  <2> QED
    BY Zenon, <1>3, <2>1 DEF StrictSubsetOrdering
<1> QED
  BY <1>4

\* What Walk() defines by recursion.
IsWalk(w, first, link) ==
  w = [i \in Bufs |-> IF i = 1 THEN first
                      ELSE IF w[i - 1] = NONE THEN NONE ELSE link[w[i - 1]]]

\* Walk() is what its definition says, as soon as something is.
LEMMA WalkDefined ==
  ASSUME NEW first, NEW link, NEW v, IsWalk(v, first, link)
  PROVE  IsWalk(Walk(first, link), first, link)
  BY Zenon DEF Walk, IsWalk

\* There is one walk: two would have to differ at a first position.
LEMMA WalkUnique ==
  ASSUME NEW first, NEW link, NEW v, NEW w, IsWalk(v, first, link), IsWalk(w, first, link)
  PROVE  v = w
<1> DEFINE T == {i \in Bufs : v[i] # w[i]}
<1>1. T = {}
  <2> SUFFICES ASSUME T # {} PROVE FALSE
    OBVIOUS
  <2>1. T \in SUBSET Nat
    BY DEF Bufs
  <2>2. PICK m \in T : \A n \in T : m <= n
    <3> HIDE DEF T
    <3> QED
      BY Zenon, <2>1, LeastExists
  <2>3. m # 1
    BY Zenon DEF IsWalk
  <2>4. m - 1 \in Bufs /\ m \in Bufs /\ ~(m <= m - 1)
    BY <2>3, BufAssumption DEF Bufs
  <2>5. v[m - 1] = w[m - 1]
    BY Zenon, <2>2, <2>4
  <2>6. /\ v[m] = IF v[m - 1] = NONE THEN NONE ELSE link[v[m - 1]]
        /\ w[m] = IF w[m - 1] = NONE THEN NONE ELSE link[w[m - 1]]
    BY Zenon, <2>3, <2>4 DEF IsWalk
  <2>7. v[m] = w[m]
    BY <2>5, <2>6
  <2> QED
    BY Zenon, <2>7
<1>2. \A i \in Bufs : v[i] = w[i]
  BY Zenon, <1>1
<1> QED
  BY <1>2 DEF IsWalk
-----------------------------------------------------------------------------
\* The n buffers that link joins from first on, in the order s.
Chain(s, n, first, link) ==
  /\ n \in 0..NBUF /\ s \in [1..n -> Bufs]
  /\ \A i, j \in 1..n : s[i] = s[j] => i = j
  /\ first = IF n = 0 THEN NONE ELSE s[1]
  /\ \A i \in 1..n : link[s[i]] = IF i = n THEN NONE ELSE s[i + 1]

Padded(s, n) == [i \in Bufs |-> IF i <= n THEN s[i] ELSE NONE]

\* A walk meets them in this order.
LEMMA WalkOfChain ==
  ASSUME NEW s, NEW n, NEW first, NEW link, Chain(s, n, first, link)
  PROVE  Walk(first, link) = Padded(s, n)
<1>1. IsWalk(Padded(s, n), first, link)
  <2> DEFINE v == Padded(s, n)
  <2>0. n \in 0..NBUF /\ s \in [1..n -> Bufs] /\ NONE \notin Bufs
    BY DEF Chain, NONE, Bufs
  <2>1. ASSUME NEW i \in Bufs
        PROVE  v[i] = IF i = 1 THEN first ELSE IF v[i - 1] = NONE THEN NONE ELSE link[v[i - 1]]
    <3>1. CASE i = 1
      BY <2>0, <3>1 DEF Padded, Chain, Bufs
    <3>2. CASE i # 1
      <4>1. i - 1 \in Bufs
        BY <3>2, BufAssumption DEF Bufs
      <4>2. CASE i - 1 > n
        BY <2>0, <3>2, <4>1, <4>2 DEF Padded, Bufs
      <4>3. CASE i - 1 <= n
        <5>1. i - 1 \in 1..n /\ v[i - 1] = s[i - 1]
          BY <2>0, <4>1, <4>3 DEF Padded, Bufs
        <5>2. v[i - 1] # NONE /\ link[v[i - 1]] = IF i - 1 = n THEN NONE ELSE s[i - 1 + 1]
          <6>1. s[i - 1] \in Bufs /\ link[s[i - 1]] = IF i - 1 = n THEN NONE ELSE s[i - 1 + 1]
            BY Zenon, <2>0, <5>1 DEF Chain
          <6> QED
            BY Zenon, <2>0, <5>1, <6>1
        <5>3. v[i] = IF i - 1 = n THEN NONE ELSE s[i - 1 + 1]
          BY <2>0, <4>1, <4>3 DEF Padded, Bufs
        <5> QED
          BY Zenon, <3>2, <5>2, <5>3
      <4> QED
        BY <2>0, <4>2, <4>3 DEF Bufs
    <3> QED
      BY Zenon, <3>1, <3>2
  <2>2. v = [i \in Bufs |-> v[i]]
    BY Zenon DEF Padded
  <2> QED
    BY <2>1, <2>2 DEF IsWalk
<1> QED
  BY Zenon, <1>1, WalkDefined, WalkUnique

\* A search along the chain finds a buffer of S exactly if the chain has one.
LEMMA SearchOfChain ==
  ASSUME NEW s, NEW n, NEW first, NEW link, Chain(s, n, first, link), NEW S \in SUBSET Bufs
  PROVE  /\ FirstIn(S, first, link) = NONE => \A i \in 1..n : s[i] \notin S
         /\ FirstIn(S, first, link) # NONE => FirstIn(S, first, link) \in S
<1>0. n \in 0..NBUF /\ s \in [1..n -> Bufs] /\ NONE \notin Bufs
  BY DEF Chain, NONE, Bufs
<1> DEFINE w == Walk(first, link)
           hits == {i \in Bufs : w[i] \in S}
           least == CHOOSE i \in hits : \A j \in hits : i <= j
<1>1. FirstIn(S, first, link) = IF hits = {} THEN NONE ELSE w[least]
  BY Zenon DEF FirstIn
<1>2. \A i \in 1..n : i \in Bufs /\ w[i] = s[i]
  <2>1. w = Padded(s, n)
    BY Zenon, WalkOfChain
  <2>2. \A i \in 1..n : i \in Bufs /\ i <= n
    BY <1>0, BufAssumption DEF Bufs
  <2> QED
    BY Zenon, <2>1, <2>2 DEF Padded
<1>3. hits # {} => w[least] \in S
  <2> SUFFICES ASSUME hits # {} PROVE w[least] \in S
    OBVIOUS
  <2>1. hits \in SUBSET Nat
    BY DEF Bufs
  <2>2. \E i \in hits : \A j \in hits : i <= j
    <3> HIDE DEF hits
    <3> QED
      BY Zenon, <2>1, LeastExists
  <2>3. least \in hits
    BY Zenon, <2>2
  <2> QED
    BY Zenon, <2>3
<1>4. hits = {} => \A i \in 1..n : s[i] \notin S
  BY Zenon, <1>2
<1> HIDE DEF hits, least, w
<1>5. NONE \notin S
  BY Zenon, <1>0
<1> QED
  BY Zenon, <1>1, <1>3, <1>4, <1>5
-----------------------------------------------------------------------------
\* The LRU list holds all buffers, in the order s.
Order(s) ==
  /\ s \in [Bufs -> Bufs]
  /\ \A i, j \in Bufs : s[i] = s[j] => i = j
  /\ \A b \in Bufs : \E i \in Bufs : s[i] = b
  /\ head = s[1] /\ tail = s[NBUF]
  /\ \A i \in Bufs : next[s[i]] = IF i = NBUF THEN NONE ELSE s[i + 1]
  /\ \A i \in Bufs : prev[s[i]] = IF i = 1 THEN NONE ELSE s[i - 1]
ListInv == \E s \in [Bufs -> Bufs] : Order(s)

Reverse(s) == [i \in Bufs |-> s[NBUF + 1 - i]]

\* It is a chain from its head, and one from its tail.
LEMMA OrderIsChain ==
  ASSUME NEW s, Order(s)
  PROVE  Chain(s, NBUF, head, next) /\ Chain(Reverse(s), NBUF, tail, prev)
<1>0. NBUF \in Nat /\ NBUF # 0 /\ NBUF \in 0..NBUF /\ Bufs = 1..NBUF
  BY BufAssumption DEF Bufs
<1>1. Chain(s, NBUF, head, next)
  BY Zenon, <1>0 DEF Order, Chain
<1>2. \A i \in Bufs : NBUF + 1 - i \in Bufs /\ Reverse(s)[i] = s[NBUF + 1 - i]
  BY <1>0 DEF Reverse
<1>3. Reverse(s) \in [Bufs -> Bufs]
  BY <1>2 DEF Reverse, Order
<1>4. \A i, j \in Bufs : Reverse(s)[i] = Reverse(s)[j] => i = j
  <2> TAKE i, j \in Bufs
  <2> HAVE Reverse(s)[i] = Reverse(s)[j]
  <2>1. NBUF + 1 - i = NBUF + 1 - j
    <3>1. NBUF + 1 - i \in Bufs /\ NBUF + 1 - j \in Bufs /\ s[NBUF + 1 - i] = s[NBUF + 1 - j]
      BY Zenon, <1>2
    <3> QED
      BY Zenon, <3>1 DEF Order
  <2> QED
    BY <1>0, <2>1
<1>5. tail = Reverse(s)[1]
  BY <1>0, <1>2 DEF Order
<1>6. ASSUME NEW i \in Bufs PROVE prev[Reverse(s)[i]] = IF i = NBUF THEN NONE ELSE Reverse(s)[i + 1]
  <2>1. PICK m \in Bufs : m = NBUF + 1 - i
    BY Zenon, <1>2
  <2>2. Reverse(s)[i] = s[m] /\ prev[s[m]] = IF m = 1 THEN NONE ELSE s[m - 1]
    BY Zenon, <1>2, <2>1 DEF Order
  <2>3. m = 1 <=> i = NBUF
    BY <1>0, <2>1
  <2>4. i # NBUF => i + 1 \in Bufs /\ NBUF + 1 - (i + 1) = m - 1
    BY <1>0, <2>1
  <2>5. i # NBUF => Reverse(s)[i + 1] = s[m - 1]
    BY Zenon, <1>2, <2>4
  <2> QED
    BY Zenon, <2>2, <2>3, <2>5
<1> QED
  BY Zenon, <1>0, <1>1, <1>3, <1>4, <1>5, <1>6 DEF Chain

\* A buffer is found by bget() if there is one of the kind it looks for.
LEMMA SearchOfList ==
  ASSUME ListInv, NEW S \in SUBSET Bufs
  PROVE  /\ FirstIn(S, head, next) = NONE => S = {}
         /\ FirstIn(S, head, next) # NONE => FirstIn(S, head, next) \in S
         /\ FirstIn(S, tail, prev) # NONE => FirstIn(S, tail, prev) \in S
<1>1. PICK s \in [Bufs -> Bufs] : Order(s)
  BY Zenon DEF ListInv
<1>2. Chain(s, NBUF, head, next) /\ Chain(Reverse(s), NBUF, tail, prev)
  BY Zenon, <1>1, OrderIsChain
<1>3. FirstIn(S, head, next) = NONE => \A i \in Bufs : s[i] \notin S
  BY Zenon, <1>2, SearchOfChain DEF Bufs
<1>4. (\A i \in Bufs : s[i] \notin S) => S = {}
  <2>1. \A b \in Bufs : \E i \in Bufs : s[i] = b
    BY Zenon, <1>1 DEF Order
  <2> QED
    BY Zenon, <2>1
<1> QED
  BY Zenon, <1>2, <1>3, <1>4, SearchOfChain
-----------------------------------------------------------------------------
\* The list is whole.
LEMMA ListIsWhole ==
  ASSUME ListInv
  PROVE  ListWhole
<1>1. PICK s \in [Bufs -> Bufs] : Order(s)
  BY Zenon DEF ListInv
<1>2. Walk(head, next) = Padded(s, NBUF) /\ Walk(tail, prev) = Padded(Reverse(s), NBUF)
  BY Zenon, <1>1, OrderIsChain, WalkOfChain
<1>3. ASSUME NEW i \in Bufs
      PROVE  /\ i <= NBUF /\ NBUF + 1 - i \in Bufs /\ NBUF + 1 - i <= NBUF
  BY BufAssumption DEF Bufs
<1>4. ASSUME NEW i \in Bufs PROVE Padded(s, NBUF)[i] = s[i] /\ Padded(Reverse(s), NBUF)[i] = s[NBUF + 1 - i]
  BY Zenon, <1>3 DEF Padded, Reverse
<1>5. \A b \in Bufs : \E i \in Bufs : Padded(s, NBUF)[i] = b
  BY Zenon, <1>1, <1>4 DEF Order
<1>6. ASSUME NEW i \in Bufs PROVE Padded(Reverse(s), NBUF)[i] = Padded(s, NBUF)[NBUF + 1 - i]
  BY Zenon, <1>3, <1>4
<1> QED
  BY Zenon, <1>2, <1>5, <1>6 DEF ListWhole

\* The order once the buffer at position j is moved to the head.
Moved(s, j) == [i \in Bufs |-> IF i = 1 THEN s[j] ELSE IF i <= j THEN s[i - 1] ELSE s[i]]

\* The move of relse() keeps the list whole: b is taken from its place and put
\* before the old head.
LEMMA MoveKeepsList ==
  ASSUME TypeOK, ListInv, NEW b \in Bufs, b # head, MoveToHead(b)
  PROVE  /\ ListInv'
         /\ head' \in Bufs /\ tail' \in Bufs
         /\ prev' \in [Bufs -> Bufs \cup {NONE}] /\ next' \in [Bufs -> Bufs \cup {NONE}]
<1>0. NBUF \in Nat /\ NBUF > 1 /\ Bufs = 1..NBUF /\ NONE = 0 /\ NONE \notin Bufs
  BY BufAssumption DEF Bufs, NONE
<1>1. PICK s \in [Bufs -> Bufs] : Order(s)
  BY Zenon DEF ListInv
<1>2. PICK j \in Bufs : s[j] = b
  BY Zenon, <1>1 DEF Order
<1>3. /\ \A i, k \in Bufs : s[i] = s[k] => i = k
      /\ \A c \in Bufs : \E i \in Bufs : s[i] = c
      /\ head = s[1] /\ tail = s[NBUF]
      /\ \A i \in Bufs : next[s[i]] = IF i = NBUF THEN NONE ELSE s[i + 1]
      /\ \A i \in Bufs : prev[s[i]] = IF i = 1 THEN NONE ELSE s[i - 1]
  BY Zenon, <1>1 DEF Order
<1>4. j > 1 /\ j - 1 \in Bufs /\ (j # NBUF => j + 1 \in Bufs) /\ 1 \in Bufs /\ NBUF \in Bufs
  <2>1. j # 1
    BY Zenon, <1>2, <1>3
  <2> QED
    BY <1>0, <2>1
<1> DEFINE t == Moved(s, j)
<1>5. next[b] = (IF j = NBUF THEN NONE ELSE s[j + 1]) /\ prev[b] = s[j - 1] /\ prev[b] \in Bufs
  <2>1. j # 1
    BY <1>4
  <2> QED
    BY Zenon, <1>2, <1>3, <1>4, <2>1
<1>6. /\ next' \in [Bufs -> Bufs \cup {NONE}]
      /\ \A i \in Bufs : next'[s[i]] = IF i = j THEN s[1] ELSE IF i = j - 1 THEN next[b] ELSE next[s[i]]
  <2>1. prev[b] # NONE /\ next \in [Bufs -> Bufs \cup {NONE}] /\ head \in Bufs
    BY Zenon, <1>0, <1>5 DEF TypeOK
  <2>2. next' = [[next EXCEPT ![prev[b]] = next[b]] EXCEPT ![b] = head]
    BY Zenon, <2>1 DEF MoveToHead, Links
  <2>3. next[b] \in Bufs \cup {NONE}
    BY Zenon, <2>1
  <2>4. ASSUME NEW i \in Bufs
        PROVE  next'[s[i]] = IF s[i] = b THEN head ELSE IF s[i] = prev[b] THEN next[b] ELSE next[s[i]]
    BY Zenon, <2>1, <2>2, <1>5
  <2>5. ASSUME NEW i \in Bufs PROVE (s[i] = b <=> i = j) /\ (s[i] = prev[b] <=> i = j - 1)
    <3>1. s[i] = b <=> i = j
      BY Zenon, <1>2, <1>3
    <3>2. s[i] = s[j - 1] <=> i = j - 1
      BY Zenon, <1>3, <1>4
    <3> QED
      BY Zenon, <3>1, <3>2, <1>5
  <2> QED
    BY Zenon, <2>1, <2>2, <2>3, <2>4, <2>5, <1>3, <1>5
<1>7. /\ prev' \in [Bufs -> Bufs \cup {NONE}]
      /\ \A i \in Bufs : prev'[s[i]] = IF i = 1 THEN b ELSE IF i = j THEN NONE
                                       ELSE IF i = j + 1 THEN s[j - 1] ELSE prev[s[i]]
  <2>1. prev \in [Bufs -> Bufs \cup {NONE}] /\ head \in Bufs
    BY Zenon DEF TypeOK
  <2>2. PICK f : f = Links(prev, next[b], prev[b])
    OBVIOUS
  <2>3. prev' = [[f EXCEPT ![b] = NONE] EXCEPT ![head] = b]
    BY Zenon, <2>2 DEF MoveToHead
  <2>4. /\ f \in [Bufs -> Bufs \cup {NONE}]
        /\ \A i \in Bufs : f[s[i]] = IF i = j + 1 THEN s[j - 1] ELSE prev[s[i]]
    <3>1. CASE j = NBUF
      <4>1. f = prev
        BY Zenon, <2>2, <3>1, <1>5 DEF Links
      <4>2. \A i \in Bufs : i # j + 1
        BY <3>1, <1>0
      <4> QED
        BY Zenon, <4>1, <4>2, <2>1
    <3>2. CASE j # NBUF
      <4>1. f = [prev EXCEPT ![s[j + 1]] = s[j - 1]]
        BY Zenon, <2>2, <3>2, <1>5, <1>4, <1>0 DEF Links
      <4>2. \A i \in Bufs : s[i] = s[j + 1] <=> i = j + 1
        BY Zenon, <3>2, <1>3, <1>4
      <4> QED
        BY Zenon, <4>1, <4>2, <2>1, <1>5, <1>4, <3>2
    <3> QED
      BY Zenon, <3>1, <3>2
  <2>5. ASSUME NEW i \in Bufs PROVE (s[i] = b <=> i = j) /\ (s[i] = head <=> i = 1)
    BY Zenon, <1>2, <1>3, <1>4
  <2>6. ASSUME NEW i \in Bufs
        PROVE  prev'[s[i]] = IF s[i] = head THEN b ELSE IF s[i] = b THEN NONE ELSE f[s[i]]
    BY Zenon, <2>1, <2>3, <2>4
  <2> QED
    BY Zenon, <2>1, <2>3, <2>4, <2>5, <2>6
<1>8. t \in [Bufs -> Bufs] /\ t[1] = b
  <2>1. ASSUME NEW i \in Bufs PROVE i # 1 => i - 1 \in Bufs
    BY <1>0
  <2> QED
    BY Zenon, <2>1, <1>2, <1>4 DEF Moved
<1>9. ASSUME NEW i \in Bufs
      PROVE  /\ i # 1 /\ i <= j => i - 1 \in Bufs /\ i - 1 # j /\ t[i] = s[i - 1]
             /\ i > j => i # 1 /\ t[i] = s[i]
  BY <1>0, <1>4 DEF Moved
<1>10. \A i, k \in Bufs : t[i] = t[k] => i = k
  <2> DEFINE pos(i) == IF i = 1 THEN j ELSE IF i <= j THEN i - 1 ELSE i
  <2>1. ASSUME NEW i \in Bufs PROVE pos(i) \in Bufs /\ t[i] = s[pos(i)]
    BY <1>0, <1>4 DEF Moved
  <2>2. ASSUME NEW i \in Bufs, NEW k \in Bufs, pos(i) = pos(k) PROVE i = k
    BY <1>0, <1>4, <2>2
  <2> HIDE DEF pos, t
  <2> TAKE i, k \in Bufs
  <2> HAVE t[i] = t[k]
  <2>3. s[pos(i)] = s[pos(k)] /\ pos(i) \in Bufs /\ pos(k) \in Bufs
    BY Zenon, <2>1
  <2>4. pos(i) = pos(k)
    BY Zenon, <2>3, <1>3
  <2> QED
    BY Zenon, <2>2, <2>4
<1>11. \A c \in Bufs : \E i \in Bufs : t[i] = c
  <2> TAKE c \in Bufs
  <2>1. PICK k \in Bufs : s[k] = c
    BY Zenon, <1>3
  <2>2. CASE k = j
    BY Zenon, <1>8, <1>4, <1>2, <2>1, <2>2
  <2>3. CASE k < j
    <3>1. PICK m \in Bufs : m # 1 /\ m <= j /\ m - 1 = k
      <4>1. k + 1 \in Bufs /\ k + 1 # 1 /\ k + 1 <= j /\ (k + 1) - 1 = k
        BY <2>3, <1>0
      <4> QED
        BY Zenon, <4>1
    <3>2. t[m] = s[k]
      BY Zenon, <3>1, <1>9
    <3> QED
      BY Zenon, <3>2, <2>1
  <2>4. CASE k > j
    BY Zenon, <2>4, <1>9, <2>1
  <2>5. k = j \/ k < j \/ k > j
    BY <1>0
  <2> QED
    BY Zenon, <2>2, <2>3, <2>4, <2>5
<1>12. tail' = t[NBUF]
  <2>1. tail = b <=> j = NBUF
    BY Zenon, <1>2, <1>3, <1>4
  <2>2. t[NBUF] = IF j = NBUF THEN s[j - 1] ELSE s[NBUF]
    <3>1. NBUF # 1 /\ (j = NBUF => NBUF <= j) /\ (j # NBUF => NBUF > j)
      BY <1>0
    <3> QED
      BY Zenon, <3>1, <1>4, <1>9
  <2> QED
    BY Zenon, <2>1, <2>2, <1>3, <1>5 DEF MoveToHead, NewTail
<1> HIDE DEF t
<1>13. ASSUME NEW i \in Bufs PROVE next'[t[i]] = IF i = NBUF THEN NONE ELSE t[i + 1]
  <2>0. i # NBUF => \E m \in Bufs : m = i + 1
    BY <1>0
  <2>1. CASE i < j
    <3>1. PICK m \in Bufs : m = i + 1
      BY <2>0, <2>1, <1>0
    <3>2. m # 1 /\ m <= j /\ m - 1 = i /\ i # NBUF /\ i # j
      BY <2>1, <3>1, <1>0
    <3>3. t[m] = s[i]
      BY Zenon, <3>2, <1>9
    <3>4. CASE i = 1
      BY Zenon, <3>1, <3>2, <3>3, <3>4, <1>8, <1>6, <1>2
    <3>5. CASE i # 1
      <4>1. PICK k \in Bufs : k = i - 1 /\ k # j /\ k # j - 1 /\ k # NBUF /\ k + 1 = i
        <5>1. i - 1 \in Bufs /\ i - 1 # j /\ i - 1 # j - 1 /\ i - 1 # NBUF /\ i - 1 + 1 = i
          BY <2>1, <3>5, <1>0
        <5> QED
          BY Zenon, <5>1
      <4>2. i <= j
        BY <2>1, <1>0
      <4>3. t[i] = s[k] /\ next'[s[k]] = next[s[k]] /\ next[s[k]] = s[i]
        <5>1. t[i] = s[k]
          BY Zenon, <3>5, <4>1, <4>2, <1>9
        <5>2. next'[s[k]] = next[s[k]]
          BY Zenon, <4>1, <1>6
        <5>3. next[s[k]] = s[k + 1]
          BY Zenon, <4>1, <1>3
        <5> QED
          BY Zenon, <4>1, <5>1, <5>2, <5>3
      <4> QED
        BY Zenon, <3>1, <3>2, <3>3, <4>3
    <3> QED
      BY Zenon, <3>4, <3>5
  <2>2. CASE i = j
    <3>1. i # 1 /\ i <= j /\ j - 1 # j
      BY <2>2, <1>0, <1>4
    <3>2. t[i] = s[j - 1] /\ next'[s[j - 1]] = next[b]
      BY Zenon, <2>2, <3>1, <1>9, <1>6, <1>4
    <3>3. j # NBUF => t[j + 1] = s[j + 1]
      <4>1. j + 1 > j
        BY <1>0
      <4> QED
        BY Zenon, <4>1, <1>4, <1>9
    <3> QED
      BY Zenon, <2>2, <3>2, <3>3, <1>5
  <2>3. CASE i > j
    <3>1. i # j /\ i # j - 1 /\ (i # NBUF => i + 1 \in Bufs /\ i + 1 > j)
      BY <2>3, <1>0
    <3>2. t[i] = s[i] /\ (i # NBUF => t[i + 1] = s[i + 1])
      BY Zenon, <2>3, <3>1, <1>9
    <3>3. next'[s[i]] = next[s[i]]
      BY Zenon, <3>1, <1>6
    <3> QED
      BY Zenon, <3>2, <3>3, <1>3
  <2>4. i < j \/ i = j \/ i > j
    BY <1>0
  <2> QED
    BY Zenon, <2>1, <2>2, <2>3, <2>4
<1>14. ASSUME NEW i \in Bufs PROVE prev'[t[i]] = IF i = 1 THEN NONE ELSE t[i - 1]
  <2>1. CASE i = 1
    <3>1. j # 1
      BY <1>4
    <3> QED
      BY Zenon, <2>1, <3>1, <1>8, <1>7, <1>2
  <2>2. CASE i # 1
    <3>1. PICK k \in Bufs : k = i - 1
      BY <2>2, <1>0
    <3>2. CASE i <= j
      <4>1. t[i] = s[k] /\ k # j
        BY Zenon, <2>2, <3>1, <3>2, <1>9
      <4>2. CASE k = 1
        BY Zenon, <2>2, <3>1, <4>1, <4>2, <1>8, <1>7
      <4>3. CASE k # 1
        <5>1. k <= j /\ k # j + 1
          BY <3>1, <3>2, <1>0
        <5>2. t[k] = s[k - 1] /\ prev'[s[k]] = prev[s[k]] /\ prev[s[k]] = s[k - 1]
          BY Zenon, <4>1, <4>3, <5>1, <1>9, <1>7, <1>3
        <5> QED
          BY Zenon, <2>2, <3>1, <4>1, <5>2
      <4> QED
        BY Zenon, <4>2, <4>3
    <3>3. CASE i > j
      <4>1. t[i] = s[i] /\ i # j
        <5>1. i # j
          BY <3>3, <1>0
        <5> QED
          BY Zenon, <3>3, <5>1, <1>9
      <4>2. CASE i = j + 1
        <5>1. k = j /\ j # 1 /\ j <= j
          BY <3>1, <4>2, <1>0, <1>4
        <5>2. t[k] = s[j - 1]
          BY Zenon, <5>1, <1>9
        <5> QED
          BY Zenon, <2>2, <3>1, <4>1, <4>2, <5>2, <1>7
      <4>3. CASE i # j + 1
        <5>1. k > j
          BY <3>1, <3>3, <4>3, <1>0
        <5>2. t[k] = s[k] /\ prev'[s[i]] = prev[s[i]] /\ prev[s[i]] = s[i - 1]
          BY Zenon, <2>2, <4>1, <4>3, <5>1, <1>9, <1>7, <1>3
        <5> QED
          BY Zenon, <2>2, <3>1, <4>1, <5>2
      <4> QED
        BY Zenon, <4>2, <4>3
    <3>4. i <= j \/ i > j
      BY <1>0
    <3> QED
      BY Zenon, <3>2, <3>3, <3>4
  <2> QED
    BY Zenon, <2>1, <2>2
<1>15. head' = t[1]
  BY Zenon, <1>8 DEF MoveToHead
<1>16. Order(t)'
  BY Zenon, <1>8, <1>10, <1>11, <1>12, <1>13, <1>14, <1>15 DEF Order
<1>17. head' \in Bufs /\ tail' \in Bufs
  BY Zenon, <1>4, <1>8, <1>12, <1>15
<1> QED
  BY Zenon, <1>6, <1>7, <1>8, <1>16, <1>17 DEF ListInv
-----------------------------------------------------------------------------
\* The disk's queue is a chain of the buffers whose transfer a process waits for.
Waited(b) == \E p \in Procs : pc[p] = "io" /\ buf[p] = b
Queued(s, n) ==
  /\ Chain(s, n, queue, qnext)
  /\ \A b \in Bufs : (\E i \in 1..n : s[i] = b) <=> Waited(b)
QueueInv == \E n \in 0..NBUF : \E s \in [1..n -> Bufs] : Queued(s, n)

\* A chain of buffers that leaves one out is shorter than the cache.
LEMMA ChainHasRoom ==
  ASSUME NEW s, NEW n, NEW first, NEW link, Chain(s, n, first, link),
         NEW b \in Bufs, \A i \in 1..n : s[i] # b
  PROVE  n < NBUF
<1>0. NBUF \in Nat /\ n \in 0..NBUF /\ s \in [1..n -> Bufs] /\ Bufs = 1..NBUF
  BY BufAssumption DEF Chain, Bufs
<1>1. SUFFICES ASSUME n = NBUF PROVE FALSE
  BY <1>0
<1>2. IsFiniteSet(Bufs) /\ Cardinality(Bufs) = NBUF
  BY <1>0, FS_Interval
<1>3. IsFiniteSet(Bufs \ {b}) /\ Cardinality(Bufs \ {b}) = NBUF - 1
  BY <1>2, FS_RemoveElement
<1>4. s \in [Bufs -> Bufs \ {b}]
  BY <1>0, <1>1
<1>5. \E i, j \in Bufs : i # j /\ s[i] = s[j]
  <2>1. Cardinality(Bufs \ {b}) < Cardinality(Bufs)
    BY <1>0, <1>2, <1>3
  <2> QED
    BY Zenon, <1>2, <1>3, <1>4, <2>1, FS_PigeonHole
<1> QED
  BY Zenon, <1>0, <1>1, <1>5 DEF Chain

\* The queue is as QueueExact says.
LEMMA QueueIsExact ==
  ASSUME QueueInv, drive = queue, \A p \in Pending : buf[p] \in Bufs
  PROVE  QueueExact
<1>1. PICK n \in 0..NBUF, s \in UNION {[1..m -> Bufs] : m \in 0..NBUF} : Queued(s, n)
  BY Zenon DEF QueueInv
<1>2. Walk(queue, qnext) = Padded(s, n)
  BY Zenon, <1>1, WalkOfChain DEF Queued
<1>3. \A i \in 1..n : i \in Bufs /\ i <= n /\ s[i] \in Bufs /\ s[i] # NONE
  <2>1. \A i \in 1..n : i \in Bufs /\ i <= n
    BY <1>1, BufAssumption DEF Bufs
  <2>2. \A i \in 1..n : s[i] \in Bufs
    BY Zenon, <1>1 DEF Queued, Chain
  <2>3. NONE \notin Bufs
    BY DEF NONE, Bufs
  <2> QED
    BY Zenon, <2>1, <2>2, <2>3
<1>4. \A i \in Bufs : IF i \in 1..n THEN Padded(s, n)[i] = s[i] ELSE Padded(s, n)[i] = NONE
  <2>1. \A i \in Bufs : i \in 1..n <=> i <= n
    BY <1>1, BufAssumption DEF Bufs
  <2> QED
    BY Zenon, <2>1 DEF Padded
<1> DEFINE chain == Padded(s, n)
<1>5. \A b : b \in {chain[i] : i \in Bufs} \ {NONE} <=> b \in {buf[p] : p \in Pending}
  <2> TAKE b
  <2>1. b \in {chain[i] : i \in Bufs} \ {NONE} <=> \E i \in 1..n : s[i] = b
    BY Zenon, <1>3, <1>4
  <2>2. b \in Bufs => ((\E i \in 1..n : s[i] = b) <=> Waited(b))
    BY Zenon, <1>1 DEF Queued
  <2>3. b \in {buf[p] : p \in Pending} <=> Waited(b)
    BY Zenon DEF Pending, Waited
  <2>4. Waited(b) => b \in Bufs
    BY Zenon DEF Pending, Waited
  <2>5. (\E i \in 1..n : s[i] = b) => b \in Bufs
    BY Zenon, <1>3
  <2> QED
    BY Zenon, <2>1, <2>2, <2>3, <2>4, <2>5
<1>6. {chain[i] : i \in Bufs} \ {NONE} = {buf[p] : p \in Pending}
  <2> HIDE DEF chain
  <2> QED
    BY Zenon, <1>5
<1>7. ASSUME NEW i \in Bufs, NEW j \in Bufs, chain[i] = chain[j] PROVE i = j \/ chain[i] = NONE
  <2>1. \A k, l \in 1..n : s[k] = s[l] => k = l
    BY Zenon, <1>1 DEF Queued, Chain
  <2> QED
    BY Zenon, <1>3, <1>4, <1>7, <2>1
<1> QED
  BY Zenon, <1>2, <1>6, <1>7 DEF QueueExact

\* What the head of the queue is, and its end.
LEMMA QueueEnds ==
  ASSUME NEW n \in 0..NBUF, NEW s, Queued(s, n), queue # NONE
  PROVE  /\ n \in Nat /\ n > 0 /\ 1 \in 1..n /\ n \in 1..n
         /\ queue = s[1] /\ queue \in Bufs
         /\ QueueTail = s[n]
<1>0. Chain(s, n, queue, qnext) /\ NBUF \in Nat
  BY Zenon, BufAssumption DEF Queued
<1>1. n \in Nat /\ n > 0 /\ 1 \in 1..n /\ n \in 1..n
  <2>1. n # 0
    BY Zenon, <1>0 DEF Chain
  <2> QED
    BY <1>0, <2>1
<1>2. queue = s[1] /\ \A i \in 1..n : s[i] \in Bufs
  <2>1. n # 0
    BY <1>1
  <2> QED
    BY Zenon, <1>0, <2>1 DEF Chain
<1>3. Walk(queue, qnext) = Padded(s, n)
  BY Zenon, <1>0, WalkOfChain
<1>4. /\ \A i \in 1..n : i \in Bufs /\ Padded(s, n)[i] = s[i]
      /\ \A i \in Bufs : i \in 1..n \/ Padded(s, n)[i] = NONE
  <2>1. \A i \in Bufs : i \in 1..n <=> i <= n
    BY <1>0, <1>1 DEF Bufs
  <2>2. \A i \in 1..n : i \in Bufs
    BY <1>0, <1>1 DEF Bufs
  <2> QED
    BY Zenon, <2>1, <2>2 DEF Padded
<1>5. NONE \notin Bufs
  BY DEF NONE, Bufs
<1>6. ASSUME NEW b \in Bufs
      PROVE  (\E i \in Bufs : Walk(queue, qnext)[i] = b) /\ qnext[b] = NONE <=> b = s[n]
  <2>1. (\E i \in Bufs : Walk(queue, qnext)[i] = b) <=> \E i \in 1..n : s[i] = b
    BY Zenon, <1>3, <1>4, <1>5
  <2>2. ASSUME NEW i \in 1..n PROVE qnext[s[i]] = NONE <=> i = n
    <3>1. qnext[s[i]] = IF i = n THEN NONE ELSE s[i + 1]
      BY Zenon, <1>0 DEF Chain
    <3>2. i # n => i + 1 \in 1..n
      BY <1>1
    <3> QED
      BY Zenon, <3>1, <3>2, <1>2, <1>5
  <2> QED
    BY Zenon, <2>1, <2>2, <1>1
<1>7. s[n] \in Bufs
  BY Zenon, <1>1, <1>2
<1>8. QueueTail = s[n]
  BY Zenon, <1>6, <1>7 DEF QueueTail
<1> QED
  BY Zenon, <1>1, <1>2, <1>8

\* A step that leaves the queue alone and nobody's transfer starts or ends.
LEMMA QueueStill ==
  ASSUME QueueInv, UNCHANGED <<queue, qnext>>, \A b \in Bufs : Waited(b)' <=> Waited(b)
  PROVE  QueueInv'
<1>1. PICK n \in 0..NBUF : \E s \in [1..n -> Bufs] : Queued(s, n)
  BY Zenon DEF QueueInv
<1>2. PICK s \in [1..n -> Bufs] : Queued(s, n)
  BY Zenon, <1>1
<1>3. Chain(s, n, queue, qnext) /\ \A b \in Bufs : (\E i \in 1..n : s[i] = b) <=> Waited(b)
  BY Zenon, <1>2 DEF Queued
<1>4. queue' = queue /\ qnext' = qnext
  BY Zenon
<1>5. Chain(s, n, queue', qnext')
  BY Zenon, <1>3, <1>4
<1>6. \A b \in Bufs : (\E i \in 1..n : s[i] = b) <=> Waited(b)'
  BY Zenon, <1>3
<1>7. Queued(s, n)'
  BY Zenon, <1>5, <1>6 DEF Queued, Chain
<1> QED
  BY Zenon, <1>7 DEF QueueInv

\* enqueue() puts b at the end, or makes it the queue.
LEMMA QueueAppend ==
  ASSUME TypeOK, QueueInv, NEW b \in Bufs, ~Waited(b),
         IF queue = NONE THEN queue' = b /\ qnext' = [qnext EXCEPT ![b] = NONE]
                         ELSE queue' = queue /\ qnext' = Enqueue(b),
         \A c \in Bufs : Waited(c)' <=> Waited(c) \/ c = b
  PROVE  QueueInv'
<1>1. PICK n \in 0..NBUF : \E s \in [1..n -> Bufs] : Queued(s, n)
  BY Zenon DEF QueueInv
<1>2. PICK s \in [1..n -> Bufs] : Queued(s, n)
  BY Zenon, <1>1
<1>3. /\ Chain(s, n, queue, qnext)
      /\ \A i, j \in 1..n : s[i] = s[j] => i = j
      /\ queue = IF n = 0 THEN NONE ELSE s[1]
      /\ \A i \in 1..n : qnext[s[i]] = IF i = n THEN NONE ELSE s[i + 1]
      /\ \A c \in Bufs : (\E i \in 1..n : s[i] = c) <=> Waited(c)
  BY Zenon, <1>2 DEF Queued, Chain
<1>4. \A i \in 1..n : s[i] # b
  BY Zenon, <1>3
<1>5. n < NBUF
  <2>1. Chain(s, n, queue, qnext)
    BY Zenon, <1>3
  <2> QED
    BY Zenon, <2>1, <1>4, ChainHasRoom
<1>6. n \in Nat /\ NBUF \in Nat /\ n + 1 \in 0..NBUF /\ n + 1 \in 1..(n + 1) /\ n + 1 # 0
  BY <1>1, <1>5, BufAssumption
<1>7. \A i \in 1..(n + 1) : i \in 1..n \/ i = n + 1
  BY <1>6
<1>8. \A i \in 1..n : i \in 1..(n + 1) /\ i # n + 1
  BY <1>6
<1> DEFINE t == [i \in 1..(n + 1) |-> IF i = n + 1 THEN b ELSE s[i]]
<1>9. t \in [1..(n + 1) -> Bufs] /\ t[n + 1] = b /\ \A i \in 1..n : t[i] = s[i]
  BY Zenon, <1>2, <1>6, <1>7, <1>8
<1> HIDE DEF t
<1>10. \A i, j \in 1..(n + 1) : t[i] = t[j] => i = j
  <2> TAKE i, j \in 1..(n + 1)
  <2> HAVE t[i] = t[j]
  <2>1. CASE i \in 1..n /\ j \in 1..n
    <3>1. s[i] = s[j]
      BY Zenon, <2>1, <1>9
    <3> QED
      BY Zenon, <2>1, <3>1, <1>3
  <2>2. CASE i = n + 1 \/ j = n + 1
    BY Zenon, <2>2, <1>4, <1>7, <1>9
  <2> QED
    BY Zenon, <2>1, <2>2, <1>7
<1>11. \A c \in Bufs : (\E i \in 1..(n + 1) : t[i] = c) <=> Waited(c)'
  <2> TAKE c \in Bufs
  <2>1. (\E i \in 1..(n + 1) : t[i] = c) <=> (\E i \in 1..n : s[i] = c) \/ c = b
    BY Zenon, <1>6, <1>7, <1>8, <1>9
  <2> QED
    BY Zenon, <2>1, <1>3
<1>12. queue' = t[1] /\ \A i \in 1..(n + 1) : qnext'[t[i]] = IF i = n + 1 THEN NONE ELSE t[i + 1]
  <2>0. qnext \in [Bufs -> Bufs \cup {NONE}] /\ NONE \notin Bufs
    BY DEF TypeOK, NONE, Bufs
  <2>1. CASE n = 0
    <3>1. queue = NONE /\ t[1] = b /\ \A i \in 1..(n + 1) : i = n + 1 /\ t[i] = b
      BY <2>1, <1>3, <1>9
    <3>2. queue' = b /\ qnext'[b] = NONE
      BY Zenon, <2>0, <3>1
    <3> QED
      BY Zenon, <3>1, <3>2
  <2>2. CASE n # 0
    <3>1. queue # NONE
      BY <2>0, <2>2, <1>2, <1>3, <1>6
    <3>2. 1 \in 1..n /\ n \in 1..n /\ queue = s[1] /\ QueueTail = s[n]
      BY Zenon, <3>1, <1>1, <1>2, QueueEnds
    <3>3. queue' = queue /\ qnext' = [[qnext EXCEPT ![b] = NONE] EXCEPT ![s[n]] = b]
      BY Zenon, <3>1, <3>2 DEF Enqueue
    <3>4. s[n] \in Bufs /\ s[n] # b
      BY Zenon, <3>2, <1>2, <1>4
    <3>5. /\ qnext'[b] = NONE /\ qnext'[s[n]] = b
          /\ \A c \in Bufs : c # b /\ c # s[n] => qnext'[c] = qnext[c]
      BY Zenon, <2>0, <3>3, <3>4
    <3>6. ASSUME NEW i \in 1..n PROVE qnext'[s[i]] = t[i + 1]
      <4>1. CASE i = n
        BY Zenon, <4>1, <3>5, <1>9
      <4>2. CASE i # n
        <5>1. i + 1 \in 1..n
          BY <4>2, <1>6
        <5>2. s[i] # s[n] /\ s[i] # b /\ s[i] \in Bufs
          BY Zenon, <4>2, <3>2, <1>2, <1>3, <1>4
        <5> QED
          BY Zenon, <4>2, <5>1, <5>2, <3>5, <1>3, <1>9
      <4> QED
        BY Zenon, <4>1, <4>2
    <3>7. queue' = t[1]
      BY Zenon, <3>2, <3>3, <1>9
    <3>8. ASSUME NEW i \in 1..(n + 1) PROVE qnext'[t[i]] = IF i = n + 1 THEN NONE ELSE t[i + 1]
      <4>1. CASE i \in 1..n
        BY Zenon, <4>1, <3>6, <1>8, <1>9
      <4>2. CASE i = n + 1
        BY Zenon, <4>2, <3>5, <1>9
      <4> QED
        BY Zenon, <4>1, <4>2, <1>7
    <3> QED
      BY Zenon, <3>7, <3>8
  <2> QED
    BY Zenon, <2>1, <2>2
<1>13. Queued(t, n + 1)'
  BY Zenon, <1>6, <1>9, <1>10, <1>11, <1>12 DEF Queued, Chain
<1> QED
  BY Zenon, <1>6, <1>9, <1>13 DEF QueueInv

\* sd::interrupt takes the head off.
LEMMA QueueDrop ==
  ASSUME QueueInv, queue # NONE, queue' = qnext[queue], qnext' = qnext,
         \A c \in Bufs : Waited(c)' <=> Waited(c) /\ c # queue
  PROVE  QueueInv'
<1>1. PICK n \in 0..NBUF : \E s \in [1..n -> Bufs] : Queued(s, n)
  BY Zenon DEF QueueInv
<1>2. PICK s \in [1..n -> Bufs] : Queued(s, n)
  BY Zenon, <1>1
<1>3. /\ \A i, j \in 1..n : s[i] = s[j] => i = j
      /\ \A i \in 1..n : qnext[s[i]] = IF i = n THEN NONE ELSE s[i + 1]
      /\ \A c \in Bufs : (\E i \in 1..n : s[i] = c) <=> Waited(c)
  BY Zenon, <1>2 DEF Queued, Chain
<1>4. n \in Nat /\ n > 0 /\ 1 \in 1..n /\ queue = s[1] /\ queue \in Bufs
  BY Zenon, <1>1, <1>2, QueueEnds
<1>5. NBUF \in Nat /\ n - 1 \in 0..NBUF /\ \A i \in 1..(n - 1) : i \in Int /\ i + 1 \in 1..n /\ i + 1 # 1
  BY <1>1, <1>4, BufAssumption
<1> DEFINE t == [i \in 1..(n - 1) |-> s[i + 1]]
<1>6. t \in [1..(n - 1) -> Bufs] /\ \A i \in 1..(n - 1) : t[i] = s[i + 1]
  BY Zenon, <1>2, <1>5
<1> HIDE DEF t
<1>7. ASSUME NEW i \in 1..(n - 1), NEW j \in 1..(n - 1), t[i] = t[j] PROVE i = j
  <2>1. i + 1 \in 1..n /\ j + 1 \in 1..n /\ s[i + 1] = s[j + 1]
    BY Zenon, <1>5, <1>6, <1>7
  <2>2. i + 1 = j + 1
    BY Zenon, <2>1, <1>3
  <2> QED
    BY <2>2, <1>5
<1>8. queue' = IF n - 1 = 0 THEN NONE ELSE t[1]
  <2>1. queue' = IF 1 = n THEN NONE ELSE s[1 + 1]
    BY Zenon, <1>3, <1>4
  <2>2. (n - 1 = 0 <=> 1 = n) /\ (1 # n => 1 \in 1..(n - 1))
    BY <1>4
  <2> QED
    BY Zenon, <2>1, <2>2, <1>6
<1>9. ASSUME NEW i \in 1..(n - 1) PROVE qnext'[t[i]] = IF i = n - 1 THEN NONE ELSE t[i + 1]
  <2>1. qnext'[t[i]] = IF i + 1 = n THEN NONE ELSE s[i + 1 + 1]
    BY Zenon, <1>3, <1>5, <1>6
  <2>2. (i + 1 = n <=> i = n - 1) /\ (i # n - 1 => i + 1 \in 1..(n - 1))
    BY <1>4, <1>5
  <2> QED
    BY Zenon, <2>1, <2>2, <1>6
<1>10. ASSUME NEW c \in Bufs PROVE (\E i \in 1..(n - 1) : t[i] = c) <=> Waited(c)'
  <2>1. ASSUME NEW i \in 1..(n - 1), t[i] = c PROVE Waited(c) /\ c # queue
    <3>1. i + 1 \in 1..n /\ i + 1 # 1 /\ s[i + 1] = c
      BY Zenon, <2>1, <1>5, <1>6
    <3>2. Waited(c)
      BY Zenon, <3>1, <1>3
    <3>3. s[i + 1] # s[1]
      BY Zenon, <3>1, <1>3, <1>4
    <3> QED
      BY Zenon, <3>1, <3>2, <3>3, <1>4
  <2>2. ASSUME Waited(c), c # queue PROVE \E i \in 1..(n - 1) : t[i] = c
    <3>1. PICK k \in 1..n : s[k] = c
      BY Zenon, <2>2, <1>3
    <3>2. k # 1
      BY Zenon, <2>2, <3>1, <1>4
    <3>3. k - 1 \in 1..(n - 1) /\ k - 1 + 1 = k
      BY <3>2, <1>4
    <3>4. t[k - 1] = c
      BY Zenon, <3>1, <3>3, <1>6
    <3> QED
      BY Zenon, <3>3, <3>4
  <2> QED
    BY Zenon, <2>1, <2>2
<1>11. Queued(t, n - 1)'
  BY Zenon, <1>5, <1>6, <1>7, <1>8, <1>9, <1>10 DEF Queued, Chain
<1> QED
  BY Zenon, <1>5, <1>6, <1>11 DEF QueueInv
=============================================================================
