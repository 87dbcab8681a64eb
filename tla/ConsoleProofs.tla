---------------------------- MODULE ConsoleProofs ----------------------------
(***************************************************************************)
(* The inductive invariant of Console, for any capacity, word size, screen *)
(* and keys, and the proof that the ring implements LineQueue.             *)
(***************************************************************************)
EXTENDS Console, RingArith, SequenceTheorems, TLAPS

Index == 0..(WORD - 1)
Lengths == 0..CAPACITY

\* The codes of the keyboard controller.
Codes == {"E0", "up", "down"} \X ({""} \cup {key[2] : key \in Keys})

ConsoleType ==
  /\ buffer \in [0..(CAPACITY - 1) -> Bytes]
  /\ read_index \in Index /\ write_index \in Index /\ edit_index \in Index
  /\ state \in [Procs -> {"idle", "running", "asleep"}]
  /\ left \in [Procs -> Nat] /\ killed \in [Procs -> BOOLEAN]
  /\ fifo \in Seq(Codes) /\ held \in SUBSET Keys
  /\ modkeys \in SUBSET {"CTL", "ALT", "SHIFT", "CAPSLOCK", "E0ESC"}

CursorInv == cursor[1] \in 0..(HEIGHT - 1) /\ cursor[2] \in 0..(WIDTH - 1)

\* The three indices are in order, and a line that fills the ring is entered.
Ordered(r, w, e) ==
  /\ Minus(w, r) + Minus(e, w) <= CAPACITY
  /\ Minus(e, w) < CAPACITY

\* A read under way has bytes to go; one that sleeps found the ring empty.
ReadsInv ==
  \A p \in Procs : /\ state[p] # "idle" => left[p] # 0
                   /\ state[p] = "asleep" => read_index = write_index

\* Code i of the fifo is of an extended key: 0xE0 is in front of it.
Extended(i) == IF i = 1 THEN "E0ESC" \in modkeys ELSE fifo[i - 1][1] = "E0"
\* It changes modifier m.
Changes(i, m) ==
  /\ i \in 1..Len(fifo) /\ fifo[i][1] # "E0"
  /\ m \in ShiftCode(Extended(i), fifo[i][2])
\* No escape is left over at the end of the codes.
EscapeInv ==
  /\ fifo = <<>> => "E0ESC" \notin modkeys
  /\ fifo # <<>> => fifo[Len(fifo)][1] # "E0"
\* When the codes are read, getb does not believe in m.
Gone(m) ==
  \/ m \notin modkeys /\ \A i \in Nat : ~Changes(i, m)
  \/ \E i \in Nat : /\ Changes(i, m) /\ fifo[i][1] = "up"
                    /\ \A j \in Nat : Changes(j, m) => j <= i
Holds(m) == \E key \in held : m \in ShiftCode(key[1], key[2])
KeysInv == \A m \in {"CTL", "ALT", "SHIFT"} : Holds(m) \/ Gone(m)

ConsoleInv ==
  /\ ConsoleType /\ CursorInv /\ Ordered(read_index, write_index, edit_index)
  /\ ReadsInv /\ EscapeInv /\ KeysInv
-----------------------------------------------------------------------------
(* The indices, as numbers.                                                *)

\* The ring fits into the numbers that its indices are, a whole number of
\* times.
LEMMA RingConstants ==
  /\ WORD \in Nat \ {0} /\ CAPACITY \in Nat \ {0} /\ WORD > CAPACITY
  /\ WORD % CAPACITY = 0 /\ WORD % WORD = 0
  BY ConsoleAssumption

\* Indices that differ by WORD stand for the same cell.
LEMMA SameRest ==
  ASSUME NEW a \in Nat, NEW b \in Nat, a = b \/ a = b - WORD
  PROVE  a % WORD = b % WORD /\ a % CAPACITY = b % CAPACITY
<1>1. CASE a = b
  BY Zenon, <1>1
<1>2. CASE a = b - WORD
  <2>1. b >= WORD
    BY <1>2, RingConstants
  <2>2. (b - WORD) % WORD = b % WORD /\ (b - WORD) % CAPACITY = b % CAPACITY
    BY Zenon, <2>1, RingConstants, ModDrop
  <2> QED
    BY Zenon, <1>2, <2>2
<1> QED
  BY Zenon, <1>1, <1>2

\* The rest of a number that is at most once too large.
LEMMA RestOf ==
  ASSUME NEW a \in 0..(2 * WORD - 1)
  PROVE  /\ a % WORD \in Index
         /\ a % WORD = a \/ a % WORD = a - WORD
         /\ (a % WORD) % CAPACITY = a % CAPACITY
<1>0. WORD \in Nat \ {0} /\ a \in Nat
  BY RingConstants
<1>1. a % WORD \in 0..(WORD - 1)
  BY <1>0, ModRange
<1>2. a % WORD = a \/ a % WORD = a - WORD
  <2>1. CASE a < WORD
    <3>1. a = WORD * 0 + a /\ a \in 0..(WORD - 1)
      BY <1>0, <2>1
    <3> QED
      BY <1>0, <3>1, ModUnique
  <2>2. CASE a >= WORD
    <3>1. a = WORD * 1 + (a - WORD) /\ a - WORD \in 0..(WORD - 1)
      BY <1>0, <2>2
    <3> QED
      BY <1>0, <3>1, ModUnique
  <2> QED
    BY <1>0, <2>1, <2>2
<1>3. PICK b : b = a % WORD
  BY Zenon
<1>4. b \in Nat /\ (b = a \/ b = a - WORD)
  BY <1>0, <1>1, <1>2, <1>3
<1>5. b % CAPACITY = a % CAPACITY
  BY Zenon, <1>0, <1>4, SameRest
<1> QED
  BY Zenon, <1>1, <1>2, <1>3, <1>5 DEF Index

\* What the difference of two indices says.
LEMMA MinusIs ==
  ASSUME NEW a \in Index, NEW b \in Index
  PROVE  /\ Minus(a, b) \in Index
         /\ a = b + Minus(a, b) \/ a = b + Minus(a, b) - WORD
<1>0. WORD \in Nat \ {0} /\ a \in 0..(WORD - 1) /\ b \in 0..(WORD - 1)
  BY Zenon, RingConstants DEF Index
<1>1. PICK c : c = a + WORD - b
  BY Zenon
<1>2. c \in 0..(2 * WORD - 1)
  BY <1>0, <1>1
<1>3. PICK u : u = Minus(a, b)
  BY Zenon
<1>4. u \in Index /\ (u = c \/ u = c - WORD)
  BY Zenon, <1>1, <1>2, <1>3, RestOf DEF Minus
<1>5. a = b + u \/ a = b + u - WORD
  BY <1>0, <1>1, <1>4 DEF Index
<1> QED
  BY Zenon, <1>3, <1>4, <1>5

\* Only one length leads from one index to another.
LEMMA MinusUnique ==
  ASSUME NEW a \in Index, NEW b \in Index, NEW v \in Index, a = b + v \/ a = b + v - WORD
  PROVE  Minus(a, b) = v
<1>1. PICK u : u = Minus(a, b)
  BY Zenon
<1>2. u \in Index /\ (a = b + u \/ a = b + u - WORD)
  BY Zenon, <1>1, MinusIs
<1>3. u = v
  BY <1>2, RingConstants DEF Index
<1> QED
  BY Zenon, <1>1, <1>3

\* What the sum of an index and a length says; its cell is that of the sum.
LEMMA PlusIs ==
  ASSUME NEW a \in Index, NEW k \in Index
  PROVE  /\ Plus(a, k) \in Index
         /\ Plus(a, k) = a + k \/ Plus(a, k) = a + k - WORD
         /\ Plus(a, k) % CAPACITY = (a + k) % CAPACITY
<1>1. PICK c : c = a + k
  BY Zenon
<1>2. c \in 0..(2 * WORD - 1)
  BY <1>1, RingConstants DEF Index
<1>3. PICK d : d = Plus(a, k)
  BY Zenon
<1>4. d = c % WORD
  BY Zenon, <1>1, <1>3 DEF Plus
<1>5. d \in Index /\ (d = c \/ d = c - WORD) /\ d % CAPACITY = c % CAPACITY
  BY Zenon, <1>2, <1>4, RestOf
<1>6. d = a + k \/ d = a + k - WORD
  BY <1>1, <1>5, RingConstants DEF Index
<1>7. d % CAPACITY = (a + k) % CAPACITY
  BY Zenon, <1>1, <1>5
<1> QED
  BY Zenon, <1>3, <1>5, <1>6, <1>7

\* The lengths of what is entered and of the line, for indices in order.
At(r, w, e, u, v) ==
  /\ r \in Index /\ w \in Index /\ e \in Index /\ u \in Lengths /\ v \in Lengths
  /\ u + v <= CAPACITY
  /\ w = r + u \/ w = r + u - WORD
  /\ e = w + v \/ e = w + v - WORD

\* The differences that the code computes are the lengths.
LEMMA AtLengths ==
  ASSUME NEW r, NEW w, NEW e, NEW u, NEW v, At(r, w, e, u, v)
  PROVE  Minus(w, r) = u /\ Minus(e, w) = v /\ Minus(e, r) = u + v
<1>1. /\ WORD \in Nat \ {0} /\ CAPACITY \in Nat \ {0} /\ WORD > CAPACITY
      /\ r \in 0..(WORD - 1) /\ w \in 0..(WORD - 1) /\ e \in 0..(WORD - 1)
      /\ u \in 0..CAPACITY /\ v \in 0..CAPACITY /\ u + v <= CAPACITY
      /\ w = r + u \/ w = r + u - WORD
      /\ e = w + v \/ e = w + v - WORD
  BY Zenon, RingConstants DEF At, Index, Lengths
<1>2. PICK s : s = u + v
  BY Zenon
<1>3. s \in 0..(WORD - 1) /\ u \in 0..(WORD - 1) /\ v \in 0..(WORD - 1) /\ (e = r + s \/ e = r + s - WORD)
  BY <1>1, <1>2
<1>4. Minus(w, r) = u
  BY Zenon, <1>1, <1>3, MinusUnique DEF Index
<1>5. Minus(e, w) = v
  BY Zenon, <1>1, <1>3, MinusUnique DEF Index
<1>6. Minus(e, r) = s
  BY Zenon, <1>1, <1>3, MinusUnique DEF Index
<1> QED
  BY Zenon, <1>2, <1>4, <1>5, <1>6

\* What is entered or the line is empty when its indices are the same.
Empties(r, w, u) == r = w <=> u = 0
\* The code's comparisons of indices are comparisons of lengths with zero.
LEMMA AtEmpty ==
  ASSUME NEW r, NEW w, NEW e, NEW u, NEW v, At(r, w, e, u, v)
  PROVE  Empties(r, w, u) /\ Empties(w, e, v)
  BY RingConstants DEF At, Index, Lengths, Empties

\* Indices in order have lengths.
LEMMA OrderedAt ==
  ASSUME NEW r \in Index, NEW w \in Index, NEW e \in Index, Ordered(r, w, e)
  PROVE  At(r, w, e, Minus(w, r), Minus(e, w)) /\ Minus(e, w) < CAPACITY
<1>1. PICK u : u = Minus(w, r)
  BY Zenon
<1>2. PICK v : v = Minus(e, w)
  BY Zenon
<1>3. /\ u \in Index /\ v \in Index /\ (w = r + u \/ w = r + u - WORD) /\ (e = w + v \/ e = w + v - WORD)
      /\ u + v <= CAPACITY /\ v < CAPACITY
  BY Zenon, <1>1, <1>2, MinusIs DEF Ordered
<1>4. u \in Lengths /\ v \in Lengths
  BY <1>3, RingConstants DEF Index, Lengths
<1> QED
  BY Zenon, <1>1, <1>2, <1>3, <1>4 DEF At

\* Indices with lengths are in order.
LEMMA AtOrdered ==
  ASSUME NEW r, NEW w, NEW e, NEW u, NEW v, At(r, w, e, u, v), v < CAPACITY
  PROVE  r \in Index /\ w \in Index /\ e \in Index /\ Ordered(r, w, e)
<1>1. Minus(w, r) = u /\ Minus(e, w) = v
  BY Zenon, AtLengths
<1> QED
  BY Zenon, <1>1 DEF At, Ordered

\* The byte behind edit index e is the last that fits when it is stored.
Fills(r, e, n) == Plus(e, 1) = Plus(r, CAPACITY) <=> n = CAPACITY

\* One more byte in the line; it is the last that fits, or not.
LEMMA AtStore ==
  ASSUME NEW r, NEW w, NEW e, NEW u, NEW v, At(r, w, e, u, v), u + v < CAPACITY
  PROVE  /\ At(r, w, Plus(e, 1), u, v + 1)
         /\ At(r, Plus(e, 1), Plus(e, 1), u + v + 1, 0)
         /\ Fills(r, e, u + v + 1)
<1>1. /\ WORD \in Nat \ {0} /\ CAPACITY \in Nat \ {0} /\ WORD > CAPACITY
      /\ r \in 0..(WORD - 1) /\ w \in 0..(WORD - 1) /\ e \in 0..(WORD - 1)
      /\ u \in 0..CAPACITY /\ v \in 0..CAPACITY /\ u + v < CAPACITY
      /\ w = r + u \/ w = r + u - WORD
      /\ e = w + v \/ e = w + v - WORD
  BY Zenon, RingConstants DEF At, Index, Lengths
<1>2. 1 \in Index /\ CAPACITY \in Index /\ e \in Index /\ r \in Index
  BY <1>1 DEF Index
<1>3. PICK d : d = Plus(e, 1)
  BY Zenon
<1>4. PICK c : c = Plus(r, CAPACITY)
  BY Zenon
<1>5. /\ d \in 0..(WORD - 1) /\ (d = e + 1 \/ d = e + 1 - WORD)
      /\ c \in 0..(WORD - 1) /\ (c = r + CAPACITY \/ c = r + CAPACITY - WORD)
  BY Zenon, <1>2, <1>3, <1>4, PlusIs DEF Index
<1>6. At(r, w, d, u, v + 1)
  BY <1>1, <1>5 DEF At, Index, Lengths
<1>7. At(r, d, d, u + v + 1, 0)
  BY <1>1, <1>5 DEF At, Index, Lengths
<1>8. d = c <=> u + v + 1 = CAPACITY
  BY <1>1, <1>5
<1> QED
  BY Zenon, <1>3, <1>4, <1>6, <1>7, <1>8 DEF Fills

\* The last n bytes of the line go.
LEMMA AtErase ==
  ASSUME NEW r, NEW w, NEW e, NEW u, NEW v, At(r, w, e, u, v), NEW n \in 1..v
  PROVE  At(r, w, Minus(e, n), u, v - n)
<1>1. /\ WORD \in Nat \ {0} /\ CAPACITY \in Nat \ {0} /\ WORD > CAPACITY
      /\ r \in 0..(WORD - 1) /\ w \in 0..(WORD - 1) /\ e \in 0..(WORD - 1)
      /\ u \in 0..CAPACITY /\ v \in 0..CAPACITY /\ u + v <= CAPACITY
      /\ w = r + u \/ w = r + u - WORD
      /\ e = w + v \/ e = w + v - WORD
  BY Zenon, RingConstants DEF At, Index, Lengths
<1>2. n \in Index /\ e \in Index
  BY <1>1 DEF Index
<1>3. PICK d : d = Minus(e, n)
  BY Zenon
<1>4. d \in 0..(WORD - 1) /\ (e = n + d \/ e = n + d - WORD)
  BY Zenon, <1>2, <1>3, MinusIs DEF Index
<1>5. At(r, w, d, u, v - n)
  BY <1>1, <1>4 DEF At, Index, Lengths
<1> QED
  BY Zenon, <1>3, <1>5

\* The first byte that was entered is taken.
LEMMA AtTake ==
  ASSUME NEW r, NEW w, NEW e, NEW u, NEW v, At(r, w, e, u, v), u # 0
  PROVE  At(Plus(r, 1), w, e, u - 1, v)
<1>1. /\ WORD \in Nat \ {0} /\ CAPACITY \in Nat \ {0} /\ WORD > CAPACITY
      /\ r \in 0..(WORD - 1) /\ w \in 0..(WORD - 1) /\ e \in 0..(WORD - 1)
      /\ u \in 0..CAPACITY /\ v \in 0..CAPACITY /\ u + v <= CAPACITY
      /\ w = r + u \/ w = r + u - WORD
      /\ e = w + v \/ e = w + v - WORD
  BY Zenon, RingConstants DEF At, Index, Lengths
<1>2. 1 \in Index /\ r \in Index
  BY <1>1 DEF Index
<1>3. PICK d : d = Plus(r, 1)
  BY Zenon
<1>4. d \in 0..(WORD - 1) /\ (d = r + 1 \/ d = r + 1 - WORD)
  BY Zenon, <1>2, <1>3, PlusIs DEF Index
<1>5. At(d, w, e, u - 1, v)
  BY <1>1, <1>4 DEF At, Index, Lengths
<1> QED
  BY Zenon, <1>3, <1>5
-----------------------------------------------------------------------------
(* The cells of the ring, as sequences.                                    *)

\* The cell of byte k, counted from index r.
Cell(r, k) == (r + k) % CAPACITY
SliceOf(buf, from, n) == [i \in 1..n |-> buf[Plus(from, i - 1) % CAPACITY]]

\* Bytes less than CAPACITY apart lie in different cells.
LEMMA CellsApart ==
  ASSUME NEW r \in Index, NEW j \in 0..(CAPACITY - 1), NEW k \in 0..(CAPACITY - 1), j # k
  PROVE  Cell(r, j) # Cell(r, k)
<1>1. CAPACITY \in Nat \ {0} /\ r \in Nat /\ r + j \in Nat /\ r + k \in Nat
  BY RingConstants DEF Index
<1>2. PICK a \in Nat : a = r + j
  BY Zenon, <1>1
<1>3. PICK b \in Nat : b = r + k
  BY Zenon, <1>1
<1>4. \/ a < b /\ b < a + CAPACITY
      \/ b < a /\ a < b + CAPACITY
  BY <1>1, <1>2, <1>3
<1>5. a % CAPACITY # b % CAPACITY
  <2>1. CASE a < b /\ b < a + CAPACITY
    BY Zenon, <1>1, <2>1, ModApart
  <2>2. CASE b < a /\ a < b + CAPACITY
    BY Zenon, <1>1, <2>2, ModApart
  <2> QED
    BY Zenon, <1>4, <2>1, <2>2
<1> QED
  BY Zenon, <1>2, <1>3, <1>5 DEF Cell

\* The cell of an index, in the ring and counted from another index.
LEMMA CellIs ==
  ASSUME NEW r \in Index, NEW k \in 0..CAPACITY
  PROVE  /\ Plus(r, k) % CAPACITY = Cell(r, k) /\ Cell(r, k) \in 0..(CAPACITY - 1)
         /\ r % CAPACITY = Cell(r, 0)
<1>1. CAPACITY \in Nat \ {0} /\ r \in Nat /\ r + k \in Nat /\ k \in Index /\ r + 0 = r
  BY RingConstants DEF Index
<1>2. (r + k) % CAPACITY \in 0..(CAPACITY - 1)
  BY Zenon, <1>1, ModRange
<1> QED
  BY Zenon, <1>1, <1>2, PlusIs DEF Cell

\* Index w is u bytes behind index r.
Behind(r, w, u) == w = r + u \/ w = r + u - WORD

\* The cell of a byte does not depend on the index it is counted from.
LEMMA CellFrom ==
  ASSUME NEW r \in Index, NEW w \in Index, NEW u \in 0..CAPACITY, NEW k \in 0..CAPACITY,
         Behind(r, w, u)
  PROVE  Cell(w, k) = Cell(r, u + k)
<1>1. CAPACITY \in Nat \ {0} /\ WORD \in Nat \ {0}
  BY RingConstants
<1>2. PICK a \in Nat : a = w + k
  BY <1>1 DEF Index
<1>3. PICK b \in Nat : b = r + (u + k)
  BY <1>1 DEF Index
<1>4. a = b \/ a = b - WORD
  BY <1>1, <1>2, <1>3 DEF Index, Behind
<1>5. a % CAPACITY = b % CAPACITY
  BY Zenon, <1>4, SameRest
<1> QED
  BY Zenon, <1>2, <1>3, <1>5 DEF Cell

\* A slice of the ring is a sequence of bytes.
LEMMA SliceIs ==
  ASSUME NEW buf \in [0..(CAPACITY - 1) -> Bytes], NEW r \in Index, NEW n \in Lengths
  PROVE  /\ SliceOf(buf, r, n) \in Seq(Bytes) /\ Len(SliceOf(buf, r, n)) = n
         /\ \A i \in 1..n : SliceOf(buf, r, n)[i] = buf[Cell(r, i - 1)]
<1>1. CAPACITY \in Nat \ {0} /\ n \in 0..CAPACITY /\ n \in Nat
  BY RingConstants DEF Lengths
<1>2. ASSUME NEW i \in 1..n
      PROVE  SliceOf(buf, r, n)[i] = buf[Cell(r, i - 1)] /\ buf[Cell(r, i - 1)] \in Bytes
  <2>1. i - 1 \in 0..CAPACITY
    BY <1>1
  <2>2. Plus(r, i - 1) % CAPACITY = Cell(r, i - 1) /\ Cell(r, i - 1) \in 0..(CAPACITY - 1)
    BY Zenon, <2>1, CellIs
  <2>3. SliceOf(buf, r, n)[i] = buf[Plus(r, i - 1) % CAPACITY]
    BY Zenon DEF SliceOf
  <2> QED
    BY Zenon, <2>2, <2>3
<1>3. PICK s : s = SliceOf(buf, r, n)
  BY Zenon
<1>4. DOMAIN s = 1..n /\ s = [i \in 1..n |-> s[i]]
  BY Zenon, <1>3 DEF SliceOf
<1>5. \A i \in 1..n : s[i] \in Bytes
  BY Zenon, <1>2, <1>3
<1>6. s \in Seq(Bytes) /\ Len(s) = n
  BY <1>1, <1>4, <1>5
<1> QED
  BY Zenon, <1>2, <1>3, <1>6

\* The bytes buf and buf2 agree on the n cells from byte j on.
Agree(buf, buf2, r, j, n) == \A k \in j..(n - 1) : buf2[Cell(r, k)] = buf[Cell(r, k)]

Contents == [0..(CAPACITY - 1) -> Bytes]

\* A slice whose cells are left alone is the same sequence.
LEMMA SliceKeep ==
  ASSUME NEW buf \in Contents, NEW buf2 \in Contents, NEW r \in Index, NEW n \in Lengths,
         Agree(buf, buf2, r, 0, n)
  PROVE  SliceOf(buf2, r, n) = SliceOf(buf, r, n)
<1>1. PICK s : s = SliceOf(buf, r, n)
  BY Zenon
<1>2. PICK t : t = SliceOf(buf2, r, n)
  BY Zenon
<1>3. /\ s \in Seq(Bytes) /\ Len(s) = n /\ \A i \in 1..n : s[i] = buf[Cell(r, i - 1)]
      /\ t \in Seq(Bytes) /\ Len(t) = n /\ \A i \in 1..n : t[i] = buf2[Cell(r, i - 1)]
  BY Zenon, <1>1, <1>2, SliceIs DEF Contents
<1>4. \A i \in 1..n : i - 1 \in 0..(n - 1)
  BY DEF Lengths
<1>5. \A i \in 1..n : t[i] = s[i]
  BY Zenon, <1>3, <1>4 DEF Agree
<1>6. s = t
  BY <1>3, <1>5, SeqEqual
<1> QED
  BY Zenon, <1>1, <1>2, <1>6

\* A byte written behind a slice is appended to it.
LEMMA SliceAppend ==
  ASSUME NEW buf \in Contents, NEW buf2 \in Contents, NEW r \in Index, NEW n \in Lengths, n < CAPACITY,
         Agree(buf, buf2, r, 0, n), NEW b \in Bytes, buf2[Cell(r, n)] = b
  PROVE  SliceOf(buf2, r, n + 1) = Append(SliceOf(buf, r, n), b)
<1>0. n \in Nat /\ n + 1 \in Lengths
  BY RingConstants DEF Lengths
<1>1. PICK s : s = SliceOf(buf, r, n)
  BY Zenon
<1>2. PICK t : t = SliceOf(buf2, r, n + 1)
  BY Zenon
<1>3. /\ s \in Seq(Bytes) /\ Len(s) = n /\ \A i \in 1..n : s[i] = buf[Cell(r, i - 1)]
      /\ t \in Seq(Bytes) /\ Len(t) = n + 1 /\ \A i \in 1..(n + 1) : t[i] = buf2[Cell(r, i - 1)]
  BY Zenon, <1>0, <1>1, <1>2, SliceIs DEF Contents
<1>4. \A i \in 1..(n + 1) : (i \in 1..n /\ i - 1 \in 0..(n - 1)) \/ (i = n + 1 /\ i - 1 = n)
  BY <1>0
<1>5. \A i \in 1..(n + 1) : t[i] = IF i = n + 1 THEN b ELSE s[i]
  <2>1. ASSUME NEW i \in 1..(n + 1) PROVE t[i] = IF i = n + 1 THEN b ELSE s[i]
    <3>1. CASE i \in 1..n /\ i - 1 \in 0..(n - 1)
      <4>1. t[i] = s[i]
        BY Zenon, <1>3, <3>1 DEF Agree
      <4>2. i # n + 1
        BY <1>0, <3>1
      <4> QED
        BY Zenon, <4>1, <4>2
    <3>2. CASE i = n + 1 /\ i - 1 = n
      BY Zenon, <1>3, <3>2
    <3> QED
      BY Zenon, <1>4, <3>1, <3>2
  <2> QED
    BY Zenon, <2>1
<1>6. PICK q : q = Append(s, b)
  BY Zenon
<1>7. q \in Seq(Bytes) /\ Len(q) = n + 1 /\ \A i \in 1..(n + 1) : q[i] = IF i = n + 1 THEN b ELSE s[i]
  BY <1>0, <1>3, <1>6
<1>8. \A i \in 1..(n + 1) : t[i] = q[i]
  BY Zenon, <1>5, <1>7
<1>9. t = q
  BY <1>3, <1>7, <1>8, SeqEqual
<1> QED
  BY Zenon, <1>1, <1>2, <1>6, <1>9

\* A slice that begins one index later is the tail.
LEMMA SliceTail ==
  ASSUME NEW buf \in Contents, NEW buf2 \in Contents, NEW r \in Index, NEW n \in Lengths, n # 0,
         Agree(buf, buf2, r, 1, n)
  PROVE  SliceOf(buf2, Plus(r, 1), n - 1) = Tail(SliceOf(buf, r, n))
<1>0. n \in Nat /\ n - 1 \in Lengths /\ 1 \in Index /\ 1 \in 0..CAPACITY
  BY RingConstants DEF Lengths, Index
<1>a. PICK d : d = Plus(r, 1)
  BY Zenon
<1>b. d \in Index /\ Behind(r, d, 1)
  BY Zenon, <1>0, <1>a, PlusIs DEF Behind
<1>1. PICK s : s = SliceOf(buf, r, n)
  BY Zenon
<1>2. PICK t : t = SliceOf(buf2, d, n - 1)
  BY Zenon
<1>3. /\ s \in Seq(Bytes) /\ Len(s) = n /\ \A i \in 1..n : s[i] = buf[Cell(r, i - 1)]
      /\ t \in Seq(Bytes) /\ Len(t) = n - 1 /\ \A i \in 1..(n - 1) : t[i] = buf2[Cell(d, i - 1)]
  BY Zenon, <1>0, <1>1, <1>2, <1>b, SliceIs DEF Contents
<1>4. \A i \in 1..(n - 1) : t[i] = s[i + 1]
  <2>1. ASSUME NEW i \in 1..(n - 1) PROVE t[i] = s[i + 1]
    <3>a. PICK j : j = i + 1
      BY Zenon
    <3>1. i \in 1..(n - 1) /\ i - 1 \in 0..CAPACITY /\ j \in 1..n /\ j - 1 = i /\ 1 + (i - 1) = i
      BY <1>0, <3>a, RingConstants DEF Lengths
    <3>2. Cell(d, i - 1) = Cell(r, 1 + (i - 1))
      BY <1>0, <1>b, <3>1, CellFrom
    <3>b. t[i] = buf2[Cell(d, i - 1)] /\ s[j] = buf[Cell(r, j - 1)]
      BY Zenon, <1>3, <3>1
    <3>3. t[i] = buf2[Cell(r, i)] /\ s[i + 1] = buf[Cell(r, i)]
      BY Zenon, <3>1, <3>2, <3>a, <3>b
    <3> QED
      BY Zenon, <3>1, <3>3 DEF Agree
  <2> QED
    BY Zenon, <2>1
<1>5. PICK q : q = Tail(s)
  BY Zenon
<1>6. q \in Seq(Bytes) /\ Len(q) = n - 1 /\ \A i \in 1..(n - 1) : q[i] = s[i + 1]
  BY <1>0, <1>3, <1>5
<1>7. \A i \in 1..(n - 1) : t[i] = q[i]
  BY Zenon, <1>4, <1>6
<1>8. t = q
  BY <1>3, <1>6, <1>7, SeqEqual
<1> QED
  BY Zenon, <1>a, <1>1, <1>2, <1>5, <1>8

\* A slice that ends earlier is the front.
LEMMA SliceFront ==
  ASSUME NEW buf \in Contents, NEW buf2 \in Contents, NEW r \in Index, NEW n \in Lengths, NEW m \in 0..n,
         Agree(buf, buf2, r, 0, m)
  PROVE  SliceOf(buf2, r, m) = SubSeq(SliceOf(buf, r, n), 1, m)
<1>0. n \in Nat /\ m \in Nat /\ m <= n /\ m \in Lengths
  BY RingConstants DEF Lengths
<1>1. PICK s : s = SliceOf(buf, r, n)
  BY Zenon
<1>2. PICK t : t = SliceOf(buf2, r, m)
  BY Zenon
<1>3. /\ s \in Seq(Bytes) /\ Len(s) = n /\ \A i \in 1..n : s[i] = buf[Cell(r, i - 1)]
      /\ t \in Seq(Bytes) /\ Len(t) = m /\ \A i \in 1..m : t[i] = buf2[Cell(r, i - 1)]
  BY Zenon, <1>0, <1>1, <1>2, SliceIs DEF Contents
<1>4. \A i \in 1..m : i \in 1..n /\ i - 1 \in 0..(m - 1)
  BY <1>0
<1>5. \A i \in 1..m : t[i] = s[i]
  BY Zenon, <1>3, <1>4 DEF Agree
<1>6. PICK q : q = SubSeq(s, 1, m)
  BY Zenon
<1>7. q \in Seq(Bytes) /\ Len(q) = m /\ \A i \in 1..m : q[i] = s[i]
  BY <1>0, <1>3, <1>6
<1>8. \A i \in 1..m : t[i] = q[i]
  BY Zenon, <1>5, <1>7
<1>9. t = q
  BY <1>3, <1>7, <1>8, SeqEqual
<1> QED
  BY Zenon, <1>1, <1>2, <1>6, <1>9

Concats(buf, r, w, u, v) == SliceOf(buf, r, u + v) = SliceOf(buf, r, u) \o SliceOf(buf, w, v)

\* The slices on both sides of write_index join to the slice of all.
LEMMA SliceConcat ==
  ASSUME NEW buf \in Contents, NEW r \in Index, NEW w \in Index, NEW u \in Lengths, NEW v \in Lengths,
         u + v \in Lengths, Behind(r, w, u)
  PROVE  Concats(buf, r, w, u, v)
<1>m. PICK m : m = u + v
  BY Zenon
<1>0. u \in Nat /\ v \in Nat /\ m \in Lengths /\ u \in 0..CAPACITY /\ m = u + v
  BY <1>m, RingConstants DEF Lengths
<1>1. PICK s : s = SliceOf(buf, r, u)
  BY Zenon
<1>2. PICK t : t = SliceOf(buf, w, v)
  BY Zenon
<1>3. PICK q : q = SliceOf(buf, r, m)
  BY Zenon
<1>4. /\ s \in Seq(Bytes) /\ Len(s) = u /\ \A i \in 1..u : s[i] = buf[Cell(r, i - 1)]
      /\ t \in Seq(Bytes) /\ Len(t) = v /\ \A i \in 1..v : t[i] = buf[Cell(w, i - 1)]
      /\ q \in Seq(Bytes) /\ Len(q) = m /\ \A i \in 1..m : q[i] = buf[Cell(r, i - 1)]
  BY Zenon, <1>0, <1>1, <1>2, <1>3, SliceIs DEF Contents
<1>5. \A i \in 1..m : q[i] = IF i <= u THEN s[i] ELSE t[i - u]
  <2>1. ASSUME NEW i \in 1..m PROVE q[i] = IF i <= u THEN s[i] ELSE t[i - u]
    <3>1. CASE i <= u
      <4>1. i \in 1..u
        BY <1>0, <3>1
      <4> QED
        BY Zenon, <1>4, <3>1, <4>1
    <3>2. CASE ~(i <= u)
      <4>1. PICK j : j = i - u
        BY Zenon
      <4>2. j \in 1..v /\ j - 1 \in 0..CAPACITY /\ u + (j - 1) = i - 1
        BY <1>0, <3>2, <4>1, RingConstants DEF Lengths
      <4>3. Cell(w, j - 1) = Cell(r, u + (j - 1))
        BY <1>0, <4>2, CellFrom
      <4>a. q[i] = buf[Cell(r, i - 1)] /\ t[j] = buf[Cell(w, j - 1)]
        BY Zenon, <1>4, <4>2
      <4>4. q[i] = t[j]
        BY Zenon, <4>2, <4>3, <4>a
      <4> QED
        BY Zenon, <3>2, <4>1, <4>4
    <3> QED
      BY Zenon, <3>1, <3>2
  <2> QED
    BY Zenon, <2>1
<1>6. PICK z : z = s \o t
  BY Zenon
<1>7. z \in Seq(Bytes) /\ Len(z) = m /\ \A i \in 1..m : z[i] = IF i <= u THEN s[i] ELSE t[i - u]
  <2>1. /\ s \o t \in Seq(Bytes) /\ Len(s \o t) = Len(s) + Len(t)
        /\ \A i \in 1..(Len(s) + Len(t)) : (s \o t)[i] = IF i <= Len(s) THEN s[i] ELSE t[i - Len(s)]
    BY Zenon, <1>4, ConcatProperties
  <2> QED
    BY Zenon, <1>0, <1>4, <1>6, <2>1
<1>8. \A i \in 1..m : q[i] = z[i]
  BY Zenon, <1>5, <1>7
<1>9. q = z
  BY <1>4, <1>7, <1>8, SeqEqual
<1> QED
  BY Zenon, <1>m, <1>1, <1>2, <1>3, <1>6, <1>9 DEF Concats

\* A slice between an index and itself is empty.
LEMMA SliceEmpty ==
  ASSUME NEW buf \in Contents, NEW r \in Index
  PROVE  SliceOf(buf, r, 0) = <<>>
<1>1. 0 \in Lengths
  BY RingConstants DEF Lengths
<1>2. PICK s : s = SliceOf(buf, r, 0)
  BY Zenon
<1>3. s \in Seq(Bytes) /\ Len(s) = 0
  BY Zenon, <1>1, <1>2, SliceIs DEF Contents
<1>4. s = <<>>
  BY <1>3, EmptySeq
<1> QED
  BY Zenon, <1>2, <1>4
-----------------------------------------------------------------------------
(* The steps of the ring.  A cell that is written is none of those that    *)
(* are kept, as at most CAPACITY bytes lie between the indices.            *)

\* The cells of what is kept, counted from the start of the line.
LEMMA AgreeLine ==
  ASSUME NEW buf, NEW buf2, NEW r \in Index, NEW w \in Index, NEW u \in Lengths, NEW n \in Lengths,
         NEW m, m = u + n, m <= CAPACITY, Behind(r, w, u), Agree(buf, buf2, r, 0, m)
  PROVE  Agree(buf, buf2, w, 0, n) /\ Agree(buf, buf2, r, 0, u)
<1>1. ASSUME NEW k \in 0..(n - 1) PROVE buf2[Cell(w, k)] = buf[Cell(w, k)]
  <2>1. k \in 0..CAPACITY /\ u \in 0..CAPACITY /\ u + k \in 0..(m - 1)
    BY RingConstants DEF Lengths
  <2>2. Cell(w, k) = Cell(r, u + k)
    BY <2>1, CellFrom
  <2> QED
    BY Zenon, <2>1, <2>2 DEF Agree
<1>2. \A k \in 0..(u - 1) : k \in 0..(m - 1)
  BY DEF Lengths
<1> QED
  BY Zenon, <1>1, <1>2 DEF Agree

\* A byte is stored behind the line.
Stored(buf, buf2, r, w, u, v, b) ==
  /\ SliceOf(buf2, r, u) = SliceOf(buf, r, u)
  /\ SliceOf(buf2, w, v + 1) = Append(SliceOf(buf, w, v), b)
  /\ SliceOf(buf2, r, u + (v + 1)) = SliceOf(buf, r, u) \o Append(SliceOf(buf, w, v), b)

\* Storing a byte behind the line appends it, and joins it to what is
\* entered.
LEMMA RingStore ==
  ASSUME NEW r, NEW w, NEW e, NEW u, NEW v, At(r, w, e, u, v), u + v < CAPACITY,
         NEW buf \in Contents, NEW b \in Bytes, NEW buf2, buf2 = [buf EXCEPT ![e % CAPACITY] = b]
  PROVE  buf2 \in Contents /\ Stored(buf, buf2, r, w, u, v, b)
<1>1. /\ r \in Index /\ w \in Index /\ e \in Index /\ u \in Lengths /\ v \in Lengths
      /\ Behind(r, w, u) /\ Behind(w, e, v)
  BY Zenon DEF At, Behind
<1>0. PICK m : m = u + v
  BY Zenon
<1>n. PICK n : n = v + 1
  BY Zenon
<1>2. /\ m \in 0..CAPACITY /\ v \in 0..CAPACITY /\ v < CAPACITY /\ n \in Lengths
      /\ u + n \in Lengths /\ m <= CAPACITY /\ u \in 0..CAPACITY
      /\ 0 \in 0..CAPACITY /\ v + 0 = v
  BY <1>0, <1>n, <1>1, RingConstants DEF Lengths
<1>3. PICK c : c = e % CAPACITY
  BY Zenon
<1>4. c = Cell(e, 0) /\ c \in 0..(CAPACITY - 1)
  BY Zenon, <1>1, <1>2, <1>3, CellIs
<1>5. c = Cell(w, v)
  <2>1. Cell(e, 0) = Cell(w, v + 0)
    BY <1>1, <1>2, CellFrom
  <2> QED
    BY Zenon, <1>2, <1>4, <2>1
<1>6. c = Cell(r, m)
  <2>1. Cell(w, v) = Cell(r, u + v)
    BY <1>1, <1>2, CellFrom
  <2> QED
    BY Zenon, <1>0, <1>5, <2>1
<1>7. buf2 \in Contents /\ buf2[c] = b /\ \A d \in 0..(CAPACITY - 1) : d # c => buf2[d] = buf[d]
  BY <1>3, <1>4 DEF Contents
<1>8. Agree(buf, buf2, r, 0, m)
  <2>1. ASSUME NEW k \in 0..(m - 1) PROVE buf2[Cell(r, k)] = buf[Cell(r, k)]
    <3>1. /\ k \in 0..(CAPACITY - 1) /\ m \in 0..(CAPACITY - 1) /\ k # m /\ k \in 0..CAPACITY
      BY <1>0, <1>1, RingConstants DEF Lengths
    <3>2. Cell(r, k) # c /\ Cell(r, k) \in 0..(CAPACITY - 1)
      BY Zenon, <1>1, <1>6, <3>1, CellsApart, CellIs
    <3> QED
      BY Zenon, <1>7, <3>2
  <2> QED
    BY Zenon, <2>1 DEF Agree
<1>9. Agree(buf, buf2, w, 0, v) /\ Agree(buf, buf2, r, 0, u)
  BY Zenon, <1>1, <1>2, <1>8, <1>0, AgreeLine
<1>10. SliceOf(buf2, r, u) = SliceOf(buf, r, u)
  BY Zenon, <1>1, <1>7, <1>9, SliceKeep
<1>11. SliceOf(buf2, w, n) = Append(SliceOf(buf, w, v), b)
  <2>1. /\ buf2[Cell(w, v)] = b /\ buf2 \in Contents /\ w \in Index /\ v \in Lengths
        /\ v < CAPACITY /\ Agree(buf, buf2, w, 0, v)
    BY Zenon, <1>1, <1>2, <1>5, <1>7, <1>9
  <2>2. SliceOf(buf2, w, v + 1) = Append(SliceOf(buf, w, v), b)
    BY Zenon, <2>1, SliceAppend
  <2> QED
    BY Zenon, <1>n, <2>2
<1>12. SliceOf(buf2, r, u + n) = SliceOf(buf2, r, u) \o SliceOf(buf2, w, n)
  <2>1. /\ buf2 \in Contents /\ r \in Index /\ w \in Index /\ u \in Lengths /\ n \in Lengths
        /\ u + n \in Lengths /\ Behind(r, w, u)
    BY Zenon, <1>1, <1>2, <1>7
  <2>2. Concats(buf2, r, w, u, n)
    BY Zenon, <2>1, SliceConcat
  <2> QED
    BY Zenon, <2>2 DEF Concats
<1> QED
  BY Zenon, <1>n, <1>7, <1>10, <1>11, <1>12 DEF Stored

\* The n cells from index d on.
Cells(d, n) == {Plus(d, k - 1) % CAPACITY : k \in 1..n}
\* buf2 is buf outside of these cells.
Outside(buf, buf2, d, n) == \A i \in 0..(CAPACITY - 1) : i \notin Cells(d, n) => buf2[i] = buf[i]

\* The line is cut to m bytes.
Erased(buf, buf2, r, w, u, v, m) ==
  /\ SliceOf(buf2, r, u) = SliceOf(buf, r, u)
  /\ SliceOf(buf2, w, m) = SubSeq(SliceOf(buf, w, v), 1, m)

\* Clearing the last cells of the line leaves its front and all that is
\* entered.
LEMMA RingErase ==
  ASSUME NEW r, NEW w, NEW e, NEW u, NEW v, At(r, w, e, u, v), NEW n \in 1..v,
         NEW buf \in Contents, NEW buf2 \in Contents, Outside(buf, buf2, Minus(e, n), n)
  PROVE  Erased(buf, buf2, r, w, u, v, v - n)
<1>1. /\ r \in Index /\ w \in Index /\ e \in Index /\ u \in Lengths /\ v \in Lengths
      /\ Behind(r, w, u)
      /\ u + v <= CAPACITY
  BY Zenon DEF At, Behind
<1>2. PICK m : m = v - n
  BY Zenon
<1>3. PICK d : d = Minus(e, n)
  BY Zenon
<1>4. At(r, w, d, u, m)
  BY Zenon, <1>2, <1>3, AtErase
<1>5. d \in Index /\ m \in Lengths /\ Behind(w, d, m)
  BY Zenon, <1>4 DEF At, Behind
<1>0. PICK l : l = u + m
  BY Zenon
<1>6. m \in 0..v /\ n \in 1..v /\ m + n = v /\ l <= CAPACITY /\ l \in 0..CAPACITY /\ u \in 0..CAPACITY /\ l + n = u + v
  BY <1>0, <1>1, <1>2, RingConstants DEF Lengths
<1>7. Behind(r, d, l)
  <2>1. /\ d \in 0..(WORD - 1) /\ r \in 0..(WORD - 1) /\ w \in 0..(WORD - 1) /\ u \in 0..CAPACITY /\ m \in 0..CAPACITY
    BY Zenon, <1>1, <1>5, <1>6 DEF Index, Lengths
  <2> QED
    BY <1>0, <1>1, <1>5, <1>6, <2>1, RingConstants DEF Behind
<1>8. Agree(buf, buf2, r, 0, l)
  <2>1. ASSUME NEW k \in 0..(l - 1) PROVE buf2[Cell(r, k)] = buf[Cell(r, k)]
    <3>1. k \in 0..(CAPACITY - 1) /\ k \in 0..CAPACITY
      BY <1>1, <1>6, RingConstants DEF Lengths
    <3>2. Cell(r, k) \in 0..(CAPACITY - 1)
      BY Zenon, <1>1, <3>1, CellIs
    <3>3. ASSUME NEW j \in 1..n PROVE Plus(d, j - 1) % CAPACITY # Cell(r, k)
      <4>0. PICK i : i = j - 1
        BY Zenon
      <4>1. i \in 0..CAPACITY /\ l + i \in 0..(CAPACITY - 1) /\ l + i # k
        BY <1>1, <1>6, <4>0, RingConstants DEF Lengths
      <4>2. Plus(d, i) % CAPACITY = Cell(d, i)
        BY Zenon, <1>5, <4>1, CellIs
      <4>3. Cell(d, i) = Cell(r, l + i)
        BY <1>1, <1>5, <1>6, <1>7, <4>1, CellFrom
      <4>4. Cell(r, l + i) # Cell(r, k)
        BY Zenon, <1>1, <3>1, <4>1, CellsApart
      <4> QED
        BY Zenon, <4>0, <4>2, <4>3, <4>4
    <3>4. Cell(r, k) \notin Cells(d, n)
      BY Zenon, <3>3 DEF Cells
    <3> QED
      BY Zenon, <1>3, <3>2, <3>4 DEF Outside
  <2> QED
    BY Zenon, <2>1 DEF Agree
<1>9. Agree(buf, buf2, w, 0, m) /\ Agree(buf, buf2, r, 0, u)
  BY Zenon, <1>1, <1>5, <1>6, <1>8, <1>0, AgreeLine
<1>10. SliceOf(buf2, r, u) = SliceOf(buf, r, u)
  BY Zenon, <1>1, <1>9, SliceKeep
<1>11. SliceOf(buf2, w, m) = SubSeq(SliceOf(buf, w, v), 1, m)
  BY <1>1, <1>6, <1>9, SliceFront
<1> QED
  BY Zenon, <1>2, <1>10, <1>11 DEF Erased

\* The first entered byte is taken.
Taken(buf, buf2, r, w, u, v) ==
  /\ SliceOf(buf2, Plus(r, 1), u - 1) = Tail(SliceOf(buf, r, u))
  /\ SliceOf(buf2, w, v) = SliceOf(buf, w, v)

\* Clearing the first entered cell leaves the rest.
LEMMA RingTake ==
  ASSUME NEW r, NEW w, NEW e, NEW u, NEW v, At(r, w, e, u, v), u # 0,
         NEW buf \in Contents, NEW buf2 \in Contents, Outside(buf, buf2, r, 1)
  PROVE  Taken(buf, buf2, r, w, u, v)
<1>1. /\ r \in Index /\ w \in Index /\ u \in Lengths /\ v \in Lengths
      /\ Behind(r, w, u)
      /\ u + v <= CAPACITY
  BY Zenon DEF At, Behind
<1>2. /\ 0 \in 0..CAPACITY /\ 0 \in 0..(CAPACITY - 1) /\ u \in 0..CAPACITY
      /\ u - 1 \in 0..CAPACITY
  BY <1>1, RingConstants DEF Lengths
<1>3. Cells(r, 1) = {Cell(r, 0)}
  <2>1. 1..1 = {1} /\ 1 - 1 = 0
    OBVIOUS
  <2>2. Plus(r, 0) % CAPACITY = Cell(r, 0)
    BY Zenon, <1>1, <1>2, CellIs
  <2> QED
    BY <2>1, <2>2 DEF Cells
<1>4. ASSUME NEW k \in 1..(u + v - 1) PROVE buf2[Cell(r, k)] = buf[Cell(r, k)]
  <2>1. k \in 0..(CAPACITY - 1) /\ k \in 0..CAPACITY /\ k # 0
    BY <1>1, RingConstants DEF Lengths
  <2>2. Cell(r, k) \in 0..(CAPACITY - 1) /\ Cell(r, k) # Cell(r, 0)
    BY Zenon, <1>1, <1>2, <2>1, CellIs, CellsApart
  <2>3. Cell(r, k) \notin Cells(r, 1)
    BY Zenon, <1>3, <2>2
  <2> QED
    BY Zenon, <2>2, <2>3 DEF Outside
<1>5. Agree(buf, buf2, r, 1, u)
  <2>1. \A k \in 1..(u - 1) : k \in 1..(u + v - 1)
    BY <1>1 DEF Lengths
  <2> QED
    BY Zenon, <1>4, <2>1 DEF Agree
<1>6. Agree(buf, buf2, w, 0, v)
  <2>1. ASSUME NEW k \in 0..(v - 1) PROVE buf2[Cell(w, k)] = buf[Cell(w, k)]
    <3>1. k \in 0..CAPACITY /\ u + k \in 1..(u + v - 1)
      BY <1>1, RingConstants DEF Lengths
    <3>2. Cell(w, k) = Cell(r, u + k)
      BY <1>1, <1>2, <3>1, CellFrom
    <3> QED
      BY Zenon, <1>4, <3>1, <3>2
  <2> QED
    BY Zenon, <2>1 DEF Agree
<1> QED
  BY Zenon, <1>1, <1>5, <1>6, SliceTail, SliceKeep DEF Taken
-----------------------------------------------------------------------------
(* The ring under the operations.                                          *)

RingInv ==
  /\ buffer \in Contents
  /\ read_index \in Index /\ write_index \in Index /\ edit_index \in Index
  /\ Ordered(read_index, write_index, edit_index)

\* The entered bytes and the line, as sequences with these lengths.
Sliced(buf, r, w, e, u, v) ==
  /\ SliceOf(buf, r, Minus(w, r)) = SliceOf(buf, r, u) /\ Len(SliceOf(buf, r, u)) = u
  /\ SliceOf(buf, w, Minus(e, w)) = SliceOf(buf, w, v) /\ Len(SliceOf(buf, w, v)) = v

\* The slices between the indices have the lengths between them.
LEMMA SlicesAre ==
  ASSUME NEW r, NEW w, NEW e, NEW u, NEW v, At(r, w, e, u, v), NEW buf \in Contents
  PROVE  Sliced(buf, r, w, e, u, v)
<1>1. Minus(w, r) = u /\ Minus(e, w) = v
  BY Zenon, AtLengths
<1>2. r \in Index /\ w \in Index /\ u \in Lengths /\ v \in Lengths
  BY Zenon DEF At
<1>3. Len(SliceOf(buf, r, u)) = u /\ Len(SliceOf(buf, w, v)) = v
  BY Zenon, <1>2, SliceIs DEF Contents
<1> QED
  BY Zenon, <1>1, <1>3 DEF Sliced

\* The indices of the ring have lengths.
LEMMA RingAt ==
  ASSUME RingInv
  PROVE  \E r, w, e, u, v :
           /\ r = read_index /\ w = write_index /\ e = edit_index
           /\ At(r, w, e, u, v) /\ v < CAPACITY
<1>1. At(read_index, write_index, edit_index, Minus(write_index, read_index), Minus(edit_index, write_index))
      /\ Minus(edit_index, write_index) < CAPACITY
  BY Zenon, OrderedAt DEF RingInv
<1> QED
  BY Zenon, <1>1

\* A stored byte is added to the line, or enters it.
LEMMA StoreRing ==
  ASSUME RingInv, NEW b \in Bytes, ~IsFull, Store(b)
  PROVE  RingInv' /\ Lines!Type(b)
<1>1. PICK r, w, e, u, v : /\ r = read_index /\ w = write_index /\ e = edit_index
                           /\ At(r, w, e, u, v) /\ v < CAPACITY
  BY Zenon, RingAt
<1>2. PICK buf : buf = buffer
  BY Zenon
<1>3. PICK buf2 : buf2 = buffer'
  BY Zenon
<1>4. PICK d : d = Plus(e, 1)
  BY Zenon
<1>5. /\ buf \in Contents /\ buf2 = [buf EXCEPT ![e % CAPACITY] = b]
      /\ edit_index' = d /\ read_index' = r
  BY Zenon, <1>1, <1>2, <1>3, <1>4 DEF Store, RingInv
<1>6. u \in Lengths /\ v \in Lengths /\ u + v <= CAPACITY /\ r \in Index /\ w \in Index
  BY Zenon, <1>1 DEF At
<1>7. u + v < CAPACITY
  <2>1. Minus(e, r) = u + v
    BY Zenon, <1>1, AtLengths
  <2>2. u + v # CAPACITY
    BY Zenon, <1>1, <2>1 DEF IsFull
  <2> QED
    BY <1>6, <2>2, RingConstants DEF Lengths
<1>8. /\ At(r, w, d, u, v + 1)
      /\ At(r, d, d, u + v + 1, 0)
      /\ d = Plus(r, CAPACITY) <=> u + v + 1 = CAPACITY
  <2>1. At(r, w, Plus(e, 1), u, v + 1) /\ At(r, Plus(e, 1), Plus(e, 1), u + v + 1, 0) /\ Fills(r, e, u + v + 1)
    BY Zenon, <1>1, <1>7, AtStore
  <2> QED
    BY Zenon, <1>4, <2>1 DEF Fills
<1>9. /\ buf2 \in Contents
      /\ SliceOf(buf2, r, u) = SliceOf(buf, r, u)
      /\ SliceOf(buf2, w, v + 1) = Append(SliceOf(buf, w, v), b)
      /\ SliceOf(buf2, r, u + (v + 1)) = SliceOf(buf, r, u) \o Append(SliceOf(buf, w, v), b)
  <2>1. buf2 \in Contents /\ Stored(buf, buf2, r, w, u, v, b)
    BY Zenon, <1>1, <1>5, <1>7, RingStore
  <2> QED
    BY Zenon, <2>1 DEF Stored
<1>10. PICK line : line = SliceOf(buf, w, v)
  BY Zenon
<1>11. PICK queue : queue = SliceOf(buf, r, u)
  BY Zenon
<1>12. /\ Slice(write_index, edit_index) = line /\ Len(line) = v
       /\ Slice(read_index, write_index) = queue /\ Len(queue) = u
  <2>1. /\ SliceOf(buf, r, Minus(w, r)) = queue /\ Len(queue) = u
        /\ SliceOf(buf, w, Minus(e, w)) = line /\ Len(line) = v
    <3>1. Sliced(buf, r, w, e, u, v)
      BY Zenon, <1>1, <1>5, SlicesAre
    <3> QED
      BY Zenon, <1>10, <1>11, <3>1 DEF Sliced
  <2> QED
    BY Zenon, <1>1, <1>2, <2>1 DEF Slice, SliceOf
<1>13. /\ u + v + 1 = CAPACITY <=> Len(line) + Len(queue) + 1 = CAPACITY
       /\ Len(line) + Len(queue) < CAPACITY /\ u + v + 1 = u + (v + 1)
  BY <1>6, <1>7, <1>12, RingConstants DEF Lengths
<1>14. CASE b \in {"NL", "^D"} \/ d = Plus(r, CAPACITY)
  <2>1. write_index' = d
    BY Zenon, <1>1, <1>4, <1>14 DEF Store
  <2>2. 0 < CAPACITY /\ d \in Index
    <3>1. d \in Index
      BY Zenon, <1>8 DEF At
    <3>2. 0 < CAPACITY
      BY RingConstants
    <3> QED
      BY Zenon, <3>1, <3>2
  <2>3. RingInv'
    BY Zenon, <1>3, <1>5, <1>8, <1>9, <2>1, <2>2, AtOrdered DEF RingInv
  <2>4. /\ SliceOf(buf2, r, Minus(d, r)) = SliceOf(buf2, r, u + v + 1)
        /\ SliceOf(buf2, d, Minus(d, d)) = SliceOf(buf2, d, 0)
    <3>1. Sliced(buf2, r, d, d, u + v + 1, 0)
      BY Zenon, <1>8, <1>9, SlicesAre
    <3> QED
      BY Zenon, <3>1 DEF Sliced
  <2>5. SliceOf(buf2, d, 0) = <<>>
    BY Zenon, <1>9, <2>2, SliceEmpty
  <2>6. Slice(write_index, edit_index)' = <<>> /\ Slice(read_index, write_index)' = queue \o Append(line, b)
    BY Zenon, <1>3, <1>5, <1>9, <1>10, <1>11, <1>13, <2>1, <2>4, <2>5 DEF Slice, SliceOf
  <2>7. b \in {"NL", "^D"} \/ Len(line) + Len(queue) + 1 = CAPACITY
    BY Zenon, <1>8, <1>13, <1>14
  <2> QED
    BY Zenon, <1>12, <1>13, <2>3, <2>6, <2>7 DEF Lines!Type
<1>15. CASE ~(b \in {"NL", "^D"} \/ d = Plus(r, CAPACITY))
  <2>1. write_index' = w
    BY Zenon, <1>1, <1>4, <1>15 DEF Store
  <2>2. v + 1 < CAPACITY
    BY <1>6, <1>7, <1>8, <1>15, RingConstants DEF Lengths
  <2>3. RingInv'
    BY Zenon, <1>3, <1>5, <1>8, <1>9, <2>1, <2>2, AtOrdered DEF RingInv
  <2>4. /\ SliceOf(buf2, r, Minus(w, r)) = SliceOf(buf2, r, u)
        /\ SliceOf(buf2, w, Minus(d, w)) = SliceOf(buf2, w, v + 1)
    <3>1. Sliced(buf2, r, w, d, u, v + 1)
      BY Zenon, <1>8, <1>9, SlicesAre
    <3> QED
      BY Zenon, <3>1 DEF Sliced
  <2>6. Slice(write_index, edit_index)' = Append(line, b) /\ Slice(read_index, write_index)' = queue
    BY Zenon, <1>3, <1>5, <1>9, <1>10, <1>11, <2>1, <2>4 DEF Slice, SliceOf
  <2>7. ~(b \in {"NL", "^D"} \/ Len(line) + Len(queue) + 1 = CAPACITY)
    BY Zenon, <1>8, <1>13, <1>15
  <2> QED
    BY Zenon, <1>12, <1>13, <2>3, <2>6, <2>7 DEF Lines!Type
<1> QED
  BY Zenon, <1>14, <1>15

\* Clearing leaves the other cells alone.
LEMMA ClearedIs ==
  ASSUME buffer \in Contents, NEW d, NEW n
  PROVE  Cleared(d, n) \in Contents /\ Outside(buffer, Cleared(d, n), d, n)
<1>1. DOMAIN buffer = 0..(CAPACITY - 1) /\ \A i \in 0..(CAPACITY - 1) : buffer[i] \in Bytes
  BY Zenon DEF Contents
<1>2. "x" \in Bytes
  BY DEF Bytes
<1>3. PICK f : f = Cleared(d, n)
  BY Zenon
<1>4. f = [i \in 0..(CAPACITY - 1) |-> IF i \in Cells(d, n) THEN "x" ELSE buffer[i]]
  <2>1. \A i : i \in Cells(d, n) <=> \E k \in 1..n : i = Plus(d, k - 1) % CAPACITY
    BY Zenon DEF Cells
  <2> QED
    BY <1>1, <1>3, <2>1 DEF Cleared
<1>5. \A i \in 0..(CAPACITY - 1) : f[i] = IF i \in Cells(d, n) THEN "x" ELSE buffer[i]
  BY Zenon, <1>4
<1>6. f \in Contents
  <2>1. ASSUME NEW i \in 0..(CAPACITY - 1) PROVE (IF i \in Cells(d, n) THEN "x" ELSE buffer[i]) \in Bytes
    BY Zenon, <1>1, <1>2
  <2> QED
    BY Zenon, <1>4, <2>1 DEF Contents
<1> QED
  BY Zenon, <1>3, <1>5, <1>6 DEF Outside

\* Backspaces take bytes off the end of the line.
LEMMA EraseRing ==
  ASSUME RingInv, NEW n, n \in 1..Minus(edit_index, write_index), Backspaces(n)
  PROVE  RingInv' /\ Lines!Erase(n)
<1>1. PICK r, w, e, u, v : /\ r = read_index /\ w = write_index /\ e = edit_index
                           /\ At(r, w, e, u, v) /\ v < CAPACITY
  BY Zenon, RingAt
<1>2. PICK buf : buf = buffer
  BY Zenon
<1>3. PICK buf2 : buf2 = buffer'
  BY Zenon
<1>4. PICK d : d = Minus(e, n)
  BY Zenon
<1>5. v = Minus(e, w) /\ u \in Lengths /\ v \in Lengths /\ n \in 1..v
  <2>1. v = Minus(e, w) /\ u \in Lengths /\ v \in Lengths
    <3>1. Minus(e, w) = v
      BY Zenon, <1>1, AtLengths
    <3> QED
      BY Zenon, <1>1, <3>1 DEF At
  <2> QED
    BY Zenon, <1>1, <2>1
<1>6. buffer' = Cleared(d, n) /\ edit_index' = d /\ read_index' = r /\ write_index' = w
  BY Zenon, <1>1, <1>4 DEF Backspaces
<1>7. buf \in Contents /\ buf2 \in Contents /\ Outside(buf, buf2, d, n)
  BY Zenon, <1>2, <1>3, <1>6, ClearedIs DEF RingInv
<1>8. At(r, w, d, u, v - n)
  BY Zenon, <1>1, <1>4, <1>5, AtErase
<1>9. /\ SliceOf(buf2, r, u) = SliceOf(buf, r, u)
      /\ SliceOf(buf2, w, v - n) = SubSeq(SliceOf(buf, w, v), 1, v - n)
  <2>1. Erased(buf, buf2, r, w, u, v, v - n)
    BY Zenon, <1>1, <1>4, <1>5, <1>7, RingErase
  <2> QED
    BY Zenon, <2>1 DEF Erased
<1>10. v - n < CAPACITY /\ n <= v
  BY <1>1, <1>5, RingConstants DEF Lengths
<1>11. RingInv'
  BY Zenon, <1>3, <1>6, <1>7, <1>8, <1>10, AtOrdered DEF RingInv
<1>12. PICK line : line = SliceOf(buf, w, v)
  BY Zenon
<1>13. PICK queue : queue = SliceOf(buf, r, u)
  BY Zenon
<1>14. Sliced(buf, r, w, e, u, v)
  BY Zenon, <1>1, <1>7, SlicesAre
<1>15. Sliced(buf2, r, w, d, u, v - n)
  BY Zenon, <1>7, <1>8, SlicesAre
<1>16. /\ Slice(write_index, edit_index) = line /\ Len(line) = v
       /\ Slice(read_index, write_index) = queue
  BY Zenon, <1>1, <1>2, <1>12, <1>13, <1>14 DEF Slice, SliceOf, Sliced
<1>17. Slice(write_index, edit_index)' = SubSeq(line, 1, v - n)
  <2>1. SliceOf(buf2, w, Minus(d, w)) = SubSeq(line, 1, v - n)
    BY Zenon, <1>9, <1>12, <1>15 DEF Sliced
  <2> QED
    BY Zenon, <1>3, <1>6, <2>1 DEF Slice, SliceOf
<1>18. Slice(read_index, write_index)' = queue
  <2>1. SliceOf(buf2, r, Minus(w, r)) = queue
    BY Zenon, <1>9, <1>13, <1>15 DEF Sliced
  <2> QED
    BY Zenon, <1>3, <1>6, <2>1 DEF Slice, SliceOf
<1> QED
  BY Zenon, <1>10, <1>11, <1>16, <1>17, <1>18 DEF Lines!Erase

\* A read takes the first byte that was entered.
LEMMA TakeRing ==
  ASSUME RingInv, ~IsEmpty, read_index' = Plus(read_index, 1), buffer' = Cleared(read_index, 1),
         write_index' = write_index, edit_index' = edit_index
  PROVE  RingInv' /\ Lines!Take
<1>1. PICK r, w, e, u, v : /\ r = read_index /\ w = write_index /\ e = edit_index
                           /\ At(r, w, e, u, v) /\ v < CAPACITY
  BY Zenon, RingAt
<1>2. PICK buf : buf = buffer
  BY Zenon
<1>3. PICK buf2 : buf2 = buffer'
  BY Zenon
<1>4. PICK d : d = Plus(r, 1)
  BY Zenon
<1>5. u # 0 /\ u \in Lengths
  <2>1. Empties(r, w, u)
    BY Zenon, <1>1, AtEmpty
  <2> QED
    BY Zenon, <1>1, <2>1 DEF IsEmpty, At, Empties
<1>6. buffer' = Cleared(r, 1) /\ edit_index' = e /\ read_index' = d /\ write_index' = w
  BY Zenon, <1>1, <1>4
<1>7. buf \in Contents /\ buf2 \in Contents /\ Outside(buf, buf2, r, 1)
  BY Zenon, <1>2, <1>3, <1>6, ClearedIs DEF RingInv
<1>8. At(d, w, e, u - 1, v)
  BY Zenon, <1>1, <1>4, <1>5, AtTake
<1>9. /\ SliceOf(buf2, d, u - 1) = Tail(SliceOf(buf, r, u))
      /\ SliceOf(buf2, w, v) = SliceOf(buf, w, v)
  <2>1. Taken(buf, buf2, r, w, u, v)
    BY Zenon, <1>1, <1>5, <1>7, RingTake
  <2> QED
    BY Zenon, <1>4, <2>1 DEF Taken
<1>10. RingInv'
  BY Zenon, <1>1, <1>3, <1>6, <1>7, <1>8, AtOrdered DEF RingInv
<1>11. PICK line : line = SliceOf(buf, w, v)
  BY Zenon
<1>12. PICK queue : queue = SliceOf(buf, r, u)
  BY Zenon
<1>13. Sliced(buf, r, w, e, u, v)
  BY Zenon, <1>1, <1>7, SlicesAre
<1>14. Sliced(buf2, d, w, e, u - 1, v)
  BY Zenon, <1>7, <1>8, SlicesAre
<1>15. /\ Slice(write_index, edit_index) = line
       /\ Slice(read_index, write_index) = queue /\ Len(queue) = u
  BY Zenon, <1>1, <1>2, <1>11, <1>12, <1>13 DEF Slice, SliceOf, Sliced
<1>16. Slice(write_index, edit_index)' = line
  <2>1. SliceOf(buf2, w, Minus(e, w)) = line
    BY Zenon, <1>9, <1>11, <1>14 DEF Sliced
  <2> QED
    BY Zenon, <1>3, <1>6, <2>1 DEF Slice, SliceOf
<1>17. Slice(read_index, write_index)' = Tail(queue)
  <2>1. SliceOf(buf2, d, Minus(w, d)) = Tail(queue)
    BY Zenon, <1>9, <1>12, <1>14 DEF Sliced
  <2> QED
    BY Zenon, <1>3, <1>6, <2>1 DEF Slice, SliceOf
<1>18. queue # <<>>
  BY <1>5, <1>15
<1> QED
  BY Zenon, <1>10, <1>15, <1>16, <1>17, <1>18 DEF Lines!Take
-----------------------------------------------------------------------------
(* The cursor.                                                             *)

OnScreen(c) == c[1] \in 0..(HEIGHT - 1) /\ c[2] \in 0..(WIDTH - 1)

\* A newline scrolls at the last line.
LEMMA NewlineOn ==
  ASSUME NEW c, OnScreen(c)
  PROVE  OnScreen(Newline(c))
  BY ConsoleAssumption DEF OnScreen, Newline

\* No byte takes the cursor off the screen.
LEMMA PutbOn ==
  ASSUME NEW c, OnScreen(c), NEW b
  PROVE  OnScreen(Putb(c, b))
<1>1. OnScreen(Newline(c))
  BY Zenon, NewlineOn
<1>2. OnScreen(Glyph(c))
  BY <1>1, ConsoleAssumption DEF OnScreen, Glyph
<1>3. OnScreen(Tab(c))
  <2>1. PICK k : k = c[2] % TABSTOP
    BY Zenon
  <2>2. k \in 0..(TABSTOP - 1)
    BY <2>1, ConsoleAssumption, ModRange DEF OnScreen
  <2>3. Tab(c) = IF c[2] + TABSTOP - k >= WIDTH THEN Newline(c) ELSE <<c[1], c[2] + TABSTOP - k>>
    BY Zenon, <2>1 DEF Tab
  <2>4. CASE c[2] + TABSTOP - k >= WIDTH
    BY Zenon, <1>1, <2>3, <2>4
  <2>5. CASE ~(c[2] + TABSTOP - k >= WIDTH)
    <3>1. c[2] + TABSTOP - k \in 0..(WIDTH - 1)
      BY <2>2, <2>5, ConsoleAssumption DEF OnScreen
    <3> QED
      BY <2>3, <2>5, <3>1 DEF OnScreen
  <2> QED
    BY Zenon, <2>4, <2>5
<1>4. OnScreen(IF c[2] > 0 THEN <<c[1], c[2] - 1>> ELSE c)
  BY ConsoleAssumption DEF OnScreen
<1> QED
  BY Zenon, <1>1, <1>2, <1>3, <1>4 DEF Putb
-----------------------------------------------------------------------------
(* Reader::put.                                                            *)

Inputs == {"x", "NL", "CR", "TAB", "^D", "^U", "^P", "BS", "DEL"}
States == [Procs -> {"idle", "running", "asleep"}]

\* The entered bytes and the line change as LineQueue allows.
Same == /\ Slice(write_index, edit_index)' = Slice(write_index, edit_index)
        /\ Slice(read_index, write_index)' = Slice(read_index, write_index)
Queues == Lines!Next \/ Same

\* What a step of the ring and the cursor keeps.
Kept == RingInv /\ OnScreen(cursor) /\ state \in States /\ ReadsInv

\* A step that leaves the ring alone is a stutter of the queue.
LEMMA SameRing ==
  ASSUME UNCHANGED ring
  PROVE  Same /\ (RingInv => RingInv')
  BY Zenon DEF ring, Same, Slice, RingInv

\* After a wakeup nobody is asleep, and no read has begun or ended.
LEMMA WakeupState ==
  ASSUME state \in States, NEW b, Wakeup(b)
  PROVE  /\ state' \in States
         /\ \A p \in Procs : state'[p] # "asleep" /\ (state'[p] # "idle" => state[p] # "idle")
<1>1. \A p \in Procs : state'[p] = IF state[p] = "asleep" THEN "running" ELSE state[p]
  BY Zenon DEF Wakeup
<1>2. \A p \in Procs : state[p] \in {"idle", "running", "asleep"}
  BY Zenon DEF States
<1>3. \A p \in Procs : state'[p] \in {"idle", "running"} /\ (state'[p] # "idle" => state[p] # "idle")
  BY <1>1, <1>2
<1>4. state' = [p \in Procs |-> IF state[p] = "asleep" THEN "running" ELSE state[p]]
  BY Zenon DEF Wakeup
<1>5. state' \in States
  BY <1>1, <1>2, <1>4 DEF States
<1> QED
  BY <1>3, <1>5

\* A byte is stored: the readers are woken when it enters the line.
LEMMA StoreKept ==
  ASSUME Kept, NEW b \in Bytes, ~IsFull, Store(b), left' = left
  PROVE  Kept' /\ Queues
<1>1. RingInv' /\ Lines!Type(b)
  BY Zenon, StoreRing DEF Kept
<1>2. Queues
  BY Zenon, <1>1 DEF Queues, Lines!Next
<1>3. OnScreen(cursor)'
  <2>1. cursor' = Putb(cursor, b)
    BY Zenon DEF Store
  <2>2. OnScreen(Putb(cursor, b))
    BY Zenon, PutbOn DEF Kept
  <2> QED
    BY Zenon, <2>1, <2>2 DEF OnScreen
<1>4. state' \in States /\ ReadsInv'
  <2>1. CASE Wakeup(b)
    BY Zenon, <2>1, WakeupState DEF Kept, ReadsInv
  <2>2. CASE UNCHANGED <<write_index, state>>
    <3>1. write_index' = write_index /\ state' = state /\ read_index' = read_index
      BY Zenon, <2>2 DEF Store
    <3> QED
      BY Zenon, <3>1 DEF Kept, ReadsInv
  <2> QED
    BY Zenon, <2>1, <2>2 DEF Store
<1> QED
  BY Zenon, <1>1, <1>2, <1>3, <1>4 DEF Kept

\* Backspace and kill-line do not reach entered input.
LEMMA EraseKept ==
  ASSUME Kept, NEW n, n \in {1, Minus(edit_index, write_index)}, Erasable(edit_index), Backspaces(n), left' = left
  PROVE  Kept' /\ Queues
<1>1. PICK r, w, e, u, v : /\ r = read_index /\ w = write_index /\ e = edit_index
                           /\ At(r, w, e, u, v) /\ v < CAPACITY
  BY Zenon, RingAt DEF Kept
<1>2. Minus(e, w) = v
  BY Zenon, <1>1, AtLengths
<1>3. v \in Lengths /\ v # 0
  <2>1. Empties(w, e, v)
    BY Zenon, <1>1, AtEmpty
  <2> QED
    BY Zenon, <1>1, <2>1 DEF Erasable, Empties, At
<1>4. n \in {1, v} /\ n \in 1..v /\ n \in Nat
  <2>1. n \in {1, v}
    BY Zenon, <1>1, <1>2
  <2> QED
    BY <1>3, <2>1 DEF Lengths
<1>5. RingInv' /\ Lines!Erase(n)
  <2>1. n \in 1..Minus(edit_index, write_index)
    BY Zenon, <1>1, <1>2, <1>4
  <2> QED
    BY Zenon, <2>1, EraseRing DEF Kept
<1>6. Len(Slice(write_index, edit_index)) = v
  <2>1. Sliced(buffer, r, w, e, u, v)
    BY Zenon, <1>1, SlicesAre DEF Kept, RingInv
  <2> QED
    BY Zenon, <1>1, <2>1 DEF Sliced, Slice, SliceOf
<1>7. Queues
  <2>1. n \in {1, Len(Slice(write_index, edit_index))}
    BY Zenon, <1>4, <1>6
  <2> QED
    BY Zenon, <1>5, <2>1 DEF Queues, Lines!Next
<1>8. OnScreen(cursor)'
  <2>1. cursor' = <<cursor[1], IF n > cursor[2] THEN 0 ELSE cursor[2] - n>>
    BY Zenon DEF Backspaces
  <2>2. cursor[1] \in 0..(HEIGHT - 1) /\ cursor[2] \in 0..(WIDTH - 1)
    BY Zenon DEF Kept, OnScreen
  <2>3. PICK m : m = IF n > cursor[2] THEN 0 ELSE cursor[2] - n
    BY Zenon
  <2>4. m \in 0..(WIDTH - 1)
    BY <1>4, <2>2, <2>3, ConsoleAssumption
  <2>5. cursor'[1] = cursor[1] /\ cursor'[2] = m
    BY <2>1, <2>3
  <2> QED
    BY Zenon, <2>2, <2>4, <2>5 DEF OnScreen
<1>9. state' \in States /\ ReadsInv'
  <2>1. write_index' = write_index /\ state' = state /\ read_index' = read_index
    BY Zenon DEF Backspaces
  <2> QED
    BY Zenon, <2>1 DEF Kept, ReadsInv
<1> QED
  BY Zenon, <1>5, <1>7, <1>8, <1>9 DEF Kept

\* Nothing of the ring or the display changes.
LEMMA StillKept ==
  ASSUME Kept, UNCHANGED <<ring, state, cursor>>, left' = left
  PROVE  Kept' /\ Queues
<1>1. ring' = ring /\ state' = state /\ cursor' = cursor
  BY Zenon
<1>2. Same /\ RingInv'
  BY Zenon, <1>1, SameRing DEF Kept
<1>3. read_index' = read_index /\ write_index' = write_index
  BY Zenon, <1>1 DEF ring
<1>4. OnScreen(cursor)' /\ state' \in States /\ ReadsInv'
  BY Zenon, <1>1, <1>3 DEF Kept, OnScreen, ReadsInv
<1> QED
  BY Zenon, <1>2, <1>4 DEF Kept, Queues

\* Every byte that is put.
LEMMA PutKept ==
  ASSUME Kept, NEW b \in Inputs, Put(b), left' = left
  PROVE  Kept' /\ Queues
<1>1. CASE b \in {"BS", "DEL"} /\ Erasable(edit_index) /\ Backspaces(1)
  BY Zenon, <1>1, EraseKept
<1>2. CASE b = "^U" /\ Erasable(edit_index) /\ Backspaces(Minus(edit_index, write_index))
  BY Zenon, <1>2, EraseKept
<1>3. CASE UNCHANGED <<ring, state, cursor>>
  BY Zenon, <1>3, StillKept
<1>4. CASE b \notin {"BS", "DEL", "^U", "^P"} /\ ~IsFull /\ Store(IF b = "CR" THEN "NL" ELSE b)
  <2>1. PICK c : c = IF b = "CR" THEN "NL" ELSE b
    BY Zenon
  <2>2. c \in Bytes
    BY <1>4, <2>1 DEF Inputs, Bytes
  <2>3. ~IsFull /\ Store(c)
    BY Zenon, <1>4, <2>1
  <2> QED
    BY Zenon, <2>2, <2>3, StoreKept
<1> QED
  BY Zenon, <1>1, <1>2, <1>3, <1>4 DEF Put
-----------------------------------------------------------------------------
(* The keyboard: what getb believes about a modifier, once it has read the *)
(* codes that wait, is what was done to the keys.                          *)

\* The keys that are modifiers.
LEMMA ShiftIs ==
  ASSUME NEW ext, NEW k, NEW m
  PROVE  m \in ShiftCode(ext, k) <=> \/ k = "ctl" /\ m = "CTL"
                                     \/ k = "alt" /\ m = "ALT"
                                     \/ k = "shift" /\ ~ext /\ m = "SHIFT"
<1>1. CASE k = "ctl"
  BY <1>1 DEF ShiftCode
<1>2. CASE k = "alt"
  BY <1>2 DEF ShiftCode
<1>3. CASE k = "shift" /\ ~ext
  BY <1>3 DEF ShiftCode
<1>4. CASE k # "ctl" /\ k # "alt" /\ ~(k = "shift" /\ ~ext)
  BY <1>4 DEF ShiftCode
<1> QED
  BY <1>1, <1>2, <1>3, <1>4

\* The key k changes modifier m, extended or not.
Shifts(ext, k, m) == m \in ShiftCode(ext, k)
\* The modifier of a key depends on the truth of the escape only.
LEMMA ShiftSame ==
  ASSUME NEW x, NEW y, x <=> y, NEW k, NEW m
  PROVE  Shifts(x, k, m) <=> Shifts(y, k, m)
  BY Zenon, ShiftIs DEF Shifts

KeysType ==
  /\ fifo \in Seq(Codes) /\ held \in SUBSET Keys
  /\ modkeys \in SUBSET {"CTL", "ALT", "SHIFT", "CAPSLOCK", "E0ESC"}

\* The three kinds of codes.
LEMMA CodesAre ==
  ASSUME NEW c \in Codes
  PROVE  c[1] \in {"E0", "up", "down"}
  BY DEF Codes

\* When a code is read, each of the others moves up by one.
LEMMA MovesUp ==
  ASSUME KeysType, fifo # <<>>, fifo' = Tail(fifo),
         ("E0ESC" \in modkeys') <=> fifo[1][1] = "E0",
         NEW i \in Nat, i # 0, NEW m
  PROVE  /\ Changes(i, m)' <=> Changes(i + 1, m)
         /\ Changes(i, m)' => fifo'[i] = fifo[i + 1]
<1>1. PICK n \in Nat : n = Len(fifo) /\ n # 0
  BY DEF KeysType
<1>2. Len(fifo') = n - 1 /\ \A j \in 1..(n - 1) : fifo'[j] = fifo[j + 1]
  BY <1>1 DEF KeysType
<1>3. i \in 1..(n - 1) <=> i + 1 \in 1..n
  BY <1>1
<1>4. CASE i \notin 1..(n - 1)
  BY Zenon, <1>1, <1>2, <1>3, <1>4 DEF Changes
<1>5. CASE i \in 1..(n - 1)
  <2>1. fifo'[i] = fifo[i + 1]
    BY Zenon, <1>2, <1>5
  <2>2. Extended(i)' <=> Extended(i + 1)
    <3>1. i + 1 # 1 /\ i + 1 - 1 = i
      BY <1>5
    <3>0. Extended(i + 1) <=> fifo[i][1] = "E0"
      BY <3>1 DEF Extended
    <3>2. CASE i = 1
      <4>1. Extended(i)' <=> "E0ESC" \in modkeys'
        BY Zenon, <3>2 DEF Extended
      <4>2. fifo[i][1] = "E0" <=> fifo[1][1] = "E0"
        BY Zenon, <3>2
      <4> QED
        BY Zenon, <3>0, <4>1, <4>2
    <3>3. CASE i # 1
      <4>1. i - 1 \in 1..(n - 1) /\ i - 1 + 1 = i
        BY <1>1, <1>5, <3>3
      <4>2. fifo'[i - 1] = fifo[i]
        BY Zenon, <1>2, <4>1
      <4> QED
        BY Zenon, <3>0, <3>3, <4>2 DEF Extended
    <3> QED
      BY Zenon, <3>2, <3>3
  <2>3. Shifts(Extended(i)', fifo[i + 1][2], m) <=> Shifts(Extended(i + 1), fifo[i + 1][2], m)
    BY Zenon, <2>2, ShiftSame
  <2>4. Changes(i, m)' <=> fifo[i + 1][1] # "E0" /\ Shifts(Extended(i)', fifo[i + 1][2], m)
    BY Zenon, <1>2, <1>5, <2>1 DEF Changes, Shifts
  <2>5. Changes(i + 1, m) <=> fifo[i + 1][1] # "E0" /\ Shifts(Extended(i + 1), fifo[i + 1][2], m)
    BY Zenon, <1>1, <1>3, <1>5 DEF Changes, Shifts
  <2> QED
    BY Zenon, <2>1, <2>3, <2>4, <2>5
<1> QED
  BY Zenon, <1>4, <1>5

\* Reading a code keeps what there is to know of a modifier.
LEMMA ReadGone ==
  ASSUME KeysType, fifo # <<>>, fifo' = Tail(fifo),
         ("E0ESC" \in modkeys') <=> fifo[1][1] = "E0",
         NEW m,
         ~Changes(1, m) => (m \in modkeys' => m \in modkeys),
         Changes(1, m) /\ fifo[1][1] = "up" => m \notin modkeys',
         Gone(m)
  PROVE  Gone(m)'
<1>1. ASSUME NEW i \in Nat, i # 0
      PROVE  (Changes(i, m)' <=> Changes(i + 1, m)) /\ (Changes(i, m)' => fifo'[i] = fifo[i + 1])
  BY Zenon, <1>1, MovesUp
<1>2. \A i \in Nat : Changes(i, m)' => i # 0
  BY DEF Changes
<1>3. \A i \in Nat : i + 1 \in Nat
  OBVIOUS
<1>4. CASE m \notin modkeys /\ \A i \in Nat : ~Changes(i, m)
  <2>1. m \notin modkeys'
    <3>1. 1 \in Nat
      OBVIOUS
    <3> QED
      BY Zenon, <1>4, <3>1
  <2>2. \A i \in Nat : ~Changes(i, m)'
    BY Zenon, <1>1, <1>2, <1>3, <1>4
  <2> QED
    BY Zenon, <2>1, <2>2 DEF Gone
<1>5. ASSUME NEW i \in Nat, Changes(i, m), fifo[i][1] = "up", \A j \in Nat : Changes(j, m) => j <= i
      PROVE  Gone(m)'
  <2>0. i # 0
    BY <1>5 DEF Changes
  <2>1. CASE i = 1
    <3>1. m \notin modkeys'
      BY Zenon, <1>5, <2>1
    <3>2. ASSUME NEW j \in Nat, Changes(j, m)' PROVE FALSE
      <4>1. j # 0 /\ j + 1 \in Nat /\ ~(j + 1 <= 1)
        BY <1>2, <3>2
      <4> QED
        BY Zenon, <1>1, <1>5, <2>1, <3>2, <4>1
    <3> QED
      BY Zenon, <3>1, <3>2 DEF Gone
  <2>2. CASE i # 1
    <3>1. PICK k \in Nat : k # 0 /\ k + 1 = i
      <4>1. i - 1 \in Nat /\ i - 1 # 0 /\ (i - 1) + 1 = i
        BY <2>0, <2>2
      <4> QED
        BY Zenon, <4>1
    <3>2. Changes(k, m)' /\ fifo'[k] = fifo[i]
      BY Zenon, <1>1, <1>5, <3>1
    <3>3. ASSUME NEW j \in Nat, Changes(j, m)' PROVE j <= k
      <4>1. j # 0 /\ j + 1 \in Nat
        BY <1>2, <3>3
      <4>2. j + 1 <= i
        BY Zenon, <1>1, <1>5, <3>3, <4>1
      <4> QED
        BY <3>1, <4>2
    <3>4. fifo'[k][1] = "up"
      BY Zenon, <1>5, <3>2
    <3> QED
      BY Zenon, <3>2, <3>3, <3>4 DEF Gone
  <2> QED
    BY Zenon, <2>1, <2>2
<1> QED
  BY Zenon, <1>4, <1>5 DEF Gone

Modifiers == {"CTL", "ALT", "SHIFT", "CAPSLOCK", "E0ESC"}

\* A release removes the key's modifiers and the escape.
LEMMA ReleasedIs ==
  ASSUME NEW k, NEW m
  PROVE  m \in Released(k) <=> m \in modkeys /\ m # "E0ESC" /\ ~Shifts("E0ESC" \in modkeys, k, m)
  BY Zenon DEF Released, Shifts

\* A press adds nothing but the key's modifiers and CAPSLOCK.
LEMMA PressedIs ==
  ASSUME NEW k, NEW m, m \in Pressed(k)
  PROVE  m # "E0ESC" /\ (m = "CAPSLOCK" \/ m \in modkeys \/ Shifts("E0ESC" \in modkeys, k, m))
<1>1. PICK t : t = ToggleCode("E0ESC" \in modkeys, k)
  BY Zenon
<1>2. \A x \in t : x = "CAPSLOCK"
  <2>1. CASE k = "caps" /\ ~("E0ESC" \in modkeys)
    BY Zenon, <1>1, <2>1 DEF ToggleCode
  <2>2. CASE ~(k = "caps" /\ ~("E0ESC" \in modkeys))
    BY Zenon, <1>1, <2>2 DEF ToggleCode
  <2> QED
    BY Zenon, <2>1, <2>2
<1>3. m \in t \/ (m \in modkeys /\ m # "E0ESC") \/ Shifts("E0ESC" \in modkeys, k, m)
  BY Zenon, <1>1 DEF Pressed, Shifts
<1>4. Shifts("E0ESC" \in modkeys, k, m) => m \in {"CTL", "ALT", "SHIFT"}
  BY Zenon, ShiftIs DEF Shifts
<1>5. m \in {"CTL", "ALT", "SHIFT", "CAPSLOCK"} => m # "E0ESC"
  OBVIOUS
<1> QED
  BY Zenon, <1>2, <1>3, <1>4, <1>5

\* getb reads one code.
LEMMA ReadKeys ==
  ASSUME KeysType, EscapeInv, KeysInv, KbdInterrupt
  PROVE  KeysType' /\ EscapeInv' /\ KeysInv'
<1>1. /\ fifo # <<>> /\ fifo' = Tail(fifo) /\ held' = held
  BY Zenon DEF KbdInterrupt
<1>2. PICK n \in Nat : n = Len(fifo) /\ n # 0
  BY <1>1 DEF KeysType
<1>3. /\ fifo' \in Seq(Codes) /\ Len(fifo') = n - 1 /\ Head(fifo) = fifo[1] /\ fifo[1] \in Codes
      /\ \A j \in 1..(n - 1) : fifo'[j] = fifo[j + 1]
  BY <1>1, <1>2 DEF KeysType
<1>4. PICK c : c = fifo[1]
  BY Zenon
<1>5. /\ c[1] \in {"E0", "up", "down"}
      /\ modkeys' = CASE c[1] = "E0" -> modkeys \cup {"E0ESC"}
                      [] c[1] = "up" -> Released(c[2])
                      [] OTHER -> Pressed(c[2])
  <2>1. c = Head(fifo)
    BY Zenon, <1>3, <1>4
  <2>2. c \in Codes
    BY Zenon, <1>3, <1>4
  <2> QED
    BY Zenon, <2>1, <2>2, CodesAre DEF KbdInterrupt
<1>6. \/ c[1] = "E0" /\ modkeys' = modkeys \cup {"E0ESC"}
      \/ c[1] = "up" /\ modkeys' = Released(c[2])
      \/ c[1] = "down" /\ modkeys' = Pressed(c[2])
  BY <1>5
<1>7. c[1] = "up" => c[1] # "E0"
  OBVIOUS
<1>8. c[1] = "down" => c[1] # "E0" /\ c[1] # "up"
  OBVIOUS
<1>9. ("E0ESC" \in modkeys') <=> c[1] = "E0"
  BY Zenon, <1>6, <1>7, <1>8, ReleasedIs, PressedIs
<1>10. modkeys' \in SUBSET Modifiers
  <2>1. modkeys \in SUBSET Modifiers
    BY Zenon DEF KeysType, Modifiers
  <2>2. "E0ESC" \in Modifiers /\ {"CAPSLOCK", "CTL", "ALT", "SHIFT"} \subseteq Modifiers
    BY Zenon DEF Modifiers
  <2>3. ASSUME NEW x \in Released(c[2]) PROVE x \in Modifiers
    BY Zenon, <2>1, ReleasedIs
  <2>4. ASSUME NEW x \in Pressed(c[2]) PROVE x \in Modifiers
    <3>1. x = "CAPSLOCK" \/ x \in modkeys \/ Shifts("E0ESC" \in modkeys, c[2], x)
      BY Zenon, PressedIs
    <3>2. Shifts("E0ESC" \in modkeys, c[2], x) => x \in {"CTL", "ALT", "SHIFT"}
      BY Zenon, ShiftIs DEF Shifts
    <3> QED
      BY Zenon, <2>1, <2>2, <3>1, <3>2
  <2> QED
    BY Zenon, <1>6, <2>1, <2>2, <2>3, <2>4
<1>11. KeysType'
  BY Zenon, <1>1, <1>3, <1>10 DEF KeysType, Modifiers
<1>12. EscapeInv'
  <2>1. fifo' = <<>> => n = 1
    <3>1. Len(<<>>) = 0
      OBVIOUS
    <3>2. fifo' = <<>> => n - 1 = 0
      BY Zenon, <1>3, <3>1
    <3>3. n \in Nat
      BY Zenon, <1>2
    <3>4. n - 1 = 0 => n = 1
      BY <3>3
    <3> QED
      BY Zenon, <3>2, <3>4
  <2>2. n = 1 => c[1] # "E0"
    BY Zenon, <1>1, <1>2, <1>4 DEF EscapeInv
  <2>3. ASSUME fifo' # <<>> PROVE fifo'[Len(fifo')][1] # "E0"
    <3>1. n - 1 \in 1..(n - 1) /\ (n - 1) + 1 = n
      BY <1>2, <1>3, <2>3
    <3>2. fifo'[Len(fifo')] = fifo[n]
      BY Zenon, <1>3, <3>1
    <3> QED
      BY Zenon, <1>1, <1>2, <3>2 DEF EscapeInv
  <2> QED
    BY Zenon, <1>9, <2>1, <2>2, <2>3 DEF EscapeInv
<1>13. ASSUME NEW m \in {"CTL", "ALT", "SHIFT"}, Gone(m)
       PROVE  Gone(m)'
  <2>1. m # "E0ESC" /\ m # "CAPSLOCK"
    OBVIOUS
  <2>2. Changes(1, m) <=> c[1] # "E0" /\ Shifts("E0ESC" \in modkeys, c[2], m)
    <3>1. 1 \in 1..Len(fifo)
      BY <1>2
    <3> QED
      BY Zenon, <1>4, <3>1 DEF Changes, Extended, Shifts
  <2>3. ~Changes(1, m) => (m \in modkeys' => m \in modkeys)
    BY Zenon, <1>6, <1>8, <2>1, <2>2, ReleasedIs, PressedIs
  <2>4. Changes(1, m) /\ c[1] = "up" => m \notin modkeys'
    BY Zenon, <1>6, <1>8, <2>2, ReleasedIs
  <2> QED
    BY Zenon, <1>1, <1>4, <1>9, <1>13, <2>3, <2>4, ReadGone
<1>14. KeysInv'
  BY Zenon, <1>1, <1>13 DEF KeysInv, Holds
<1> QED
  BY Zenon, <1>11, <1>12, <1>14

\* The codes of a key are queued behind the others; one of them changes
\* modifiers, those of the key.
LEMMA Queued ==
  ASSUME KeysType, EscapeInv, NEW key \in Keys, NEW dir \in {"up", "down"},
         fifo' = fifo \o Code(key, dir), modkeys' = modkeys
  PROVE  /\ fifo' \in Seq(Codes) /\ EscapeInv'
         /\ \E l \in Nat :
              /\ l > Len(fifo) /\ fifo'[l] = <<dir, key[2]>>
              /\ \A i \in Nat : \A m : i # l => (Changes(i, m)' <=> Changes(i, m))
              /\ \A i \in Nat : \A m : Changes(i, m)' => i <= l
              /\ \A m : Changes(l, m)' <=> Shifts(key[1], key[2], m)
              /\ \A i \in 1..Len(fifo) : fifo'[i] = fifo[i]
<1>1. PICK n \in Nat : n = Len(fifo)
  BY DEF KeysType
<1>2. key[1] \in BOOLEAN /\ dir # "E0"
  BY ConsoleAssumption
<1>3. PICK k : k = key[2]
  BY Zenon
<1>a. PICK a : a = <<"E0", "">>
  BY Zenon
<1>b. PICK b : b = <<dir, k>>
  BY Zenon
<1>4. b \in Codes /\ a \in Codes /\ a[1] = "E0" /\ b[1] = dir /\ b[2] = k
  BY <1>3, <1>a, <1>b DEF Codes
<1>5. PICK s : s = Code(key, dir)
  BY Zenon
<1>6. PICK d \in {1, 2} :
        /\ s \in Seq(Codes) /\ Len(s) = d /\ s[d] = b
        /\ key[1] <=> d = 2
        /\ d = 2 => s[1] = a
  <2>1. CASE key[1]
    <3>1. s = <<a, b>>
      BY Zenon, <1>3, <1>5, <1>a, <1>b, <2>1 DEF Code
    <3>2. s \in Seq(Codes) /\ Len(s) = 2 /\ s[2] = b /\ s[1] = a
      BY <1>4, <3>1
    <3> QED
      BY Zenon, <2>1, <3>2
  <2>2. CASE ~key[1]
    <3>1. s = <<b>>
      BY Zenon, <1>3, <1>5, <1>b, <2>2 DEF Code
    <3>2. s \in Seq(Codes) /\ Len(s) = 1 /\ s[1] = b /\ 1 # 2
      BY <1>4, <3>1
    <3> QED
      BY Zenon, <2>2, <3>2
  <2> QED
    BY Zenon, <2>1, <2>2
<1>d. d \in {1, 2}
  BY Zenon, <1>6
<1>7. PICK l \in Nat : l = n + d
  BY <1>1, <1>d
<1>8. /\ fifo' \in Seq(Codes) /\ Len(fifo') = l
      /\ \A i \in 1..n : fifo'[i] = fifo[i]
      /\ fifo'[l] = b
      /\ d = 2 => fifo'[n + 1] = a
  <2>1. /\ fifo \o s \in Seq(Codes) /\ Len(fifo \o s) = Len(fifo) + Len(s)
        /\ \A i \in 1..(Len(fifo) + Len(s)) : (fifo \o s)[i] = IF i <= Len(fifo) THEN fifo[i] ELSE s[i - Len(fifo)]
    <3>1. fifo \in Seq(Codes) /\ s \in Seq(Codes)
      BY Zenon, <1>6 DEF KeysType
    <3> QED
      BY Zenon, <3>1, ConcatProperties
  <2>2. /\ fifo' \in Seq(Codes) /\ Len(fifo') = n + d
        /\ \A i \in 1..(n + d) : fifo'[i] = IF i <= n THEN fifo[i] ELSE s[i - n]
    BY Zenon, <1>1, <1>5, <1>6, <2>1
  <2>3. \A i \in 1..n : i \in 1..(n + d) /\ i <= n
    BY <1>1, <1>d
  <2>4. l \in 1..(n + d) /\ ~(l <= n) /\ l - n = d /\ n + 1 \in 1..(n + d) /\ ~(n + 1 <= n) /\ (n + 1) - n = 1
    BY <1>1, <1>d, <1>7
  <2>5. fifo'[l] = s[l - n] /\ fifo'[n + 1] = s[(n + 1) - n]
    BY Zenon, <2>2, <2>4
  <2> QED
    BY Zenon, <1>6, <1>7, <2>2, <2>3, <2>4, <2>5
<1>9. fifo'[l][1] = dir /\ fifo'[l][2] = k /\ (d = 2 => fifo'[n + 1][1] = "E0")
  BY Zenon, <1>4, <1>8
<1>10. l # 0 /\ l > n /\ l \in 1..l
  BY <1>1, <1>d, <1>7
<1>11. EscapeInv'
  <2>1. fifo' # <<>>
    BY <1>8, <1>10
  <2> QED
    BY Zenon, <1>2, <1>8, <1>9, <2>1 DEF EscapeInv
<1>12. Extended(l)' <=> key[1]
  <2>1. CASE d = 2
    <3>1. l # 1 /\ l - 1 = n + 1
      BY <1>1, <1>7, <2>1
    <3>2. fifo'[l - 1][1] = "E0"
      BY Zenon, <1>9, <2>1, <3>1
    <3> QED
      BY Zenon, <1>6, <2>1, <3>1, <3>2 DEF Extended
  <2>2. CASE d = 1
    <3>1. l = n + 1 /\ 1 # 2
      BY <1>7, <2>2
    <3>2. CASE n = 0
      <4>1. fifo = <<>> /\ l = 1
        <5>1. fifo = <<>>
          BY Zenon, <1>1, <3>2, EmptySeq DEF KeysType
        <5>2. l = 1
          BY <3>1, <3>2
        <5> QED
          BY Zenon, <5>1, <5>2
      <4>2. "E0ESC" \notin modkeys'
        BY Zenon, <4>1 DEF EscapeInv
      <4> QED
        BY Zenon, <1>6, <2>2, <3>1, <4>1, <4>2 DEF Extended
    <3>3. CASE n # 0
      <4>1. fifo # <<>> /\ l # 1 /\ l - 1 = n /\ n \in 1..n
        BY <1>1, <3>1, <3>3 DEF KeysType
      <4>2. fifo'[n][1] # "E0"
        BY Zenon, <1>1, <1>8, <4>1 DEF EscapeInv
      <4>3. fifo'[l - 1][1] # "E0"
        BY Zenon, <4>1, <4>2
      <4> QED
        BY Zenon, <1>6, <2>2, <3>1, <4>1, <4>3 DEF Extended
    <3> QED
      BY Zenon, <3>2, <3>3
  <2> QED
    BY Zenon, <1>6, <2>1, <2>2
<1>13. ASSUME NEW m PROVE Changes(l, m)' <=> Shifts(key[1], key[2], m)
  <2>1. Shifts(Extended(l)', k, m) <=> Shifts(key[1], k, m)
    BY Zenon, <1>12, ShiftSame
  <2>2. Changes(l, m)' <=> Shifts(Extended(l)', k, m)
    BY Zenon, <1>2, <1>8, <1>9, <1>10 DEF Changes, Shifts
  <2> QED
    BY Zenon, <1>3, <2>1, <2>2
<1>14. ASSUME NEW i \in Nat, NEW m, i # l PROVE Changes(i, m)' <=> Changes(i, m)
  <2>1. CASE i \in 1..n
    <3>1. i \in 1..l
      BY <1>1, <1>10, <2>1
    <3>2. fifo'[i] = fifo[i]
      BY Zenon, <1>8, <2>1
    <3>3. Extended(i)' <=> Extended(i)
      <4>1. CASE i = 1
        BY Zenon, <4>1 DEF Extended
      <4>2. CASE i # 1
        <5>1. i - 1 \in 1..n
          BY <1>1, <2>1, <4>2
        <5> QED
          BY Zenon, <1>8, <4>2, <5>1 DEF Extended
      <4> QED
        BY Zenon, <4>1, <4>2
    <3>4. Shifts(Extended(i)', fifo[i][2], m) <=> Shifts(Extended(i), fifo[i][2], m)
      BY Zenon, <3>3, ShiftSame
    <3>5. Changes(i, m)' <=> fifo[i][1] # "E0" /\ Shifts(Extended(i)', fifo[i][2], m)
      BY Zenon, <1>8, <3>1, <3>2 DEF Changes, Shifts
    <3>6. Changes(i, m) <=> fifo[i][1] # "E0" /\ Shifts(Extended(i), fifo[i][2], m)
      BY Zenon, <1>1, <2>1 DEF Changes, Shifts
    <3> QED
      BY Zenon, <3>4, <3>5, <3>6
  <2>2. CASE i \notin 1..n
    <3>1. i \in 1..l => d = 2 /\ i = n + 1
      BY <1>1, <1>d, <1>7, <1>14, <2>2
    <3>2. ~Changes(i, m)'
      BY Zenon, <1>8, <1>9, <3>1 DEF Changes
    <3> QED
      BY Zenon, <1>1, <2>2, <3>2 DEF Changes
  <2> QED
    BY Zenon, <2>1, <2>2
<1>15. ASSUME NEW i \in Nat, NEW m, Changes(i, m)' PROVE i <= l
  <2>1. i \in 1..l
    BY Zenon, <1>8, <1>15 DEF Changes
  <2> QED
    BY <2>1
<1>16. /\ l > Len(fifo) /\ fifo'[l] = <<dir, key[2]>>
       /\ \A i \in 1..Len(fifo) : fifo'[i] = fifo[i]
  BY Zenon, <1>1, <1>3, <1>b, <1>8, <1>10
<1> QED
  BY Zenon, <1>8, <1>11, <1>13, <1>14, <1>15, <1>16

\* A key goes down or up.
LEMMA PressKeys ==
  ASSUME KeysType, EscapeInv, KeysInv, NEW key \in Keys, Press(key)
  PROVE  KeysType' /\ EscapeInv' /\ KeysInv'
<1>1. PICK dir \in {"up", "down"} :
        /\ fifo' = fifo \o Code(key, dir)
        /\ dir = "down" => held' = held \cup {key}
        /\ dir = "up" => held' = held \ {key}
  BY DEF Press
<1>2. modkeys' = modkeys
  BY Zenon DEF Press
<1>3. fifo' \in Seq(Codes) /\ EscapeInv'
  BY Zenon, <1>1, <1>2, Queued
<1>4. PICK l \in Nat :
        /\ l > Len(fifo) /\ fifo'[l] = <<dir, key[2]>>
        /\ \A i \in Nat : \A m : i # l => (Changes(i, m)' <=> Changes(i, m))
        /\ \A i \in Nat : \A m : Changes(i, m)' => i <= l
        /\ \A m : Changes(l, m)' <=> Shifts(key[1], key[2], m)
        /\ \A i \in 1..Len(fifo) : fifo'[i] = fifo[i]
  BY Zenon, <1>1, <1>2, Queued
<1>5. dir = "down" \/ dir = "up"
  BY Zenon, <1>1
<1>6. KeysType'
  BY Zenon, <1>1, <1>2, <1>3, <1>5 DEF KeysType
<1>7. ASSUME NEW m, Gone(m), ~Shifts(key[1], key[2], m) PROVE Gone(m)'
  <2>1. \A i \in Nat : Changes(i, m)' => Changes(i, m)
    BY Zenon, <1>4, <1>7
  <2>2. CASE m \notin modkeys /\ \A i \in Nat : ~Changes(i, m)
    BY Zenon, <1>2, <2>1, <2>2 DEF Gone
  <2>3. ASSUME NEW i \in Nat, Changes(i, m), fifo[i][1] = "up", \A j \in Nat : Changes(j, m) => j <= i
        PROVE  Gone(m)'
    <3>1. i \in 1..Len(fifo)
      BY Zenon, <2>3 DEF Changes
    <3>2. i # l
      BY <1>4, <3>1 DEF KeysType
    <3>3. Changes(i, m)' /\ fifo'[i][1] = "up"
      BY Zenon, <1>4, <2>3, <3>1, <3>2
    <3> QED
      BY Zenon, <2>1, <2>3, <3>3 DEF Gone
  <2> QED
    BY Zenon, <1>7, <2>2, <2>3 DEF Gone
<1>8. CASE dir = "down"
  <2>1. ASSUME NEW m \in {"CTL", "ALT", "SHIFT"} PROVE Holds(m)' \/ Gone(m)'
    <3>1. CASE Shifts(key[1], key[2], m)
      BY Zenon, <1>1, <1>8, <3>1 DEF Holds, Shifts
    <3>2. CASE Holds(m)
      BY Zenon, <1>1, <1>8, <3>2 DEF Holds
    <3> QED
      BY Zenon, <1>7, <3>1, <3>2 DEF KeysInv
  <2> QED
    BY Zenon, <1>3, <1>6, <2>1 DEF KeysInv
<1>9. CASE dir = "up"
  <2>1. ASSUME NEW m \in {"CTL", "ALT", "SHIFT"} PROVE Holds(m)' \/ Gone(m)'
    <3>1. CASE Shifts(key[1], key[2], m)
      <4>1. Changes(l, m)' /\ \A j \in Nat : Changes(j, m)' => j <= l
        BY Zenon, <1>4, <3>1
      <4>2. fifo'[l][1] = "up"
        BY <1>4, <1>9
      <4> QED
        BY Zenon, <4>1, <4>2 DEF Gone
    <3>2. CASE ~Shifts(key[1], key[2], m) /\ Holds(m)
      BY Zenon, <1>1, <1>9, <3>2 DEF Holds, Shifts
    <3> QED
      BY Zenon, <1>7, <3>1, <3>2 DEF KeysInv
  <2> QED
    BY Zenon, <1>3, <1>6, <2>1 DEF KeysInv
<1> QED
  BY Zenon, <1>5, <1>8, <1>9

\* The keyboard is left alone.
LEMMA StillKeys ==
  ASSUME KeysType, EscapeInv, KeysInv, UNCHANGED keyboard
  PROVE  KeysType' /\ EscapeInv' /\ KeysInv'
<1>1. fifo' = fifo /\ held' = held /\ modkeys' = modkeys
  BY Zenon DEF keyboard
<1>2. KeysType' /\ EscapeInv'
  BY Zenon, <1>1 DEF KeysType, EscapeInv
<1>3. KeysInv'
  <2>1. \A m : Holds(m)' <=> Holds(m)
    BY Zenon, <1>1 DEF Holds
  <2>2. \A i \in Nat : \A m : Changes(i, m)' <=> Changes(i, m)
    BY Zenon, <1>1 DEF Changes, Extended
  <2>3. \A m : Gone(m) => Gone(m)'
    BY Zenon, <1>1, <2>2 DEF Gone
  <2> QED
    BY Zenon, <2>1, <2>3 DEF KeysInv
<1> QED
  BY Zenon, <1>2, <1>3
-----------------------------------------------------------------------------
(* The inductive invariant.                                                *)

LeftType == left \in [Procs -> Nat] /\ killed \in [Procs -> BOOLEAN]

\* The parts of the invariant.
LEMMA InvParts ==
  ConsoleInv <=> Kept /\ LeftType /\ KeysType /\ EscapeInv /\ KeysInv
  BY Zenon DEF ConsoleInv, ConsoleType, CursorInv, Kept, RingInv, OnScreen, States, LeftType, KeysType, Contents
\* The parts of the invariant, after a step.
LEMMA InvPartsNext ==
  Kept' /\ LeftType' /\ KeysType' /\ EscapeInv' /\ KeysInv' => ConsoleInv'
  BY Zenon DEF ConsoleInv, ConsoleType, CursorInv, Kept, RingInv, OnScreen, States, LeftType, KeysType, Contents

\* One turn of the loop of Console::read.
LEMMA ReadByteKept ==
  ASSUME Kept, LeftType, NEW p \in Procs, ReadByte(p)
  PROVE  Kept' /\ LeftType' /\ Queues
<1>0. /\ state \in [Procs -> {"idle", "running", "asleep"}] /\ left \in [Procs -> Nat]
      /\ state[p] = "running" /\ left[p] # 0 /\ left[p] \in Nat
      /\ killed \in [Procs -> BOOLEAN] /\ killed' = killed
      /\ write_index' = write_index /\ edit_index' = edit_index /\ cursor' = cursor
  <2>1. state[p] = "running"
    BY Zenon DEF ReadByte
  <2>2. left[p] # 0
    BY <2>1 DEF Kept, ReadsInv
  <2> QED
    BY Zenon, <2>1, <2>2 DEF ReadByte, Kept, States, LeftType
<1>1. OnScreen(cursor)'
  BY Zenon, <1>0 DEF Kept, OnScreen
<1>2. CASE IsEmpty
  <2>1. /\ state' = [state EXCEPT ![p] = IF killed[p] THEN "idle" ELSE "asleep"]
        /\ left' = [left EXCEPT ![p] = IF killed[p] THEN 0 ELSE @]
        /\ buffer' = buffer /\ read_index' = read_index
    BY Zenon, <1>2 DEF ReadByte
  <2>2. RingInv' /\ Same
    BY Zenon, <1>0, <2>1 DEF Kept, RingInv, Same, Slice
  <2>3. CASE killed[p]
    <3>1. /\ state' = [state EXCEPT ![p] = "idle"] /\ left' = [left EXCEPT ![p] = 0]
      BY Zenon, <2>1, <2>3
    <3>2. state' \in States /\ left' \in [Procs -> Nat]
      BY <1>0, <3>1 DEF States
    <3>3. /\ state'[p] = "idle"
          /\ \A q \in Procs : q # p => state'[q] = state[q] /\ left'[q] = left[q]
      BY Zenon, <1>0, <3>1
    <3>4. ReadsInv'
      BY <1>0, <2>1, <3>3 DEF Kept, ReadsInv
    <3> QED
      BY Zenon, <1>0, <1>1, <2>2, <3>2, <3>4 DEF Kept, LeftType, Queues
  <2>4. CASE ~killed[p]
    <3>1. /\ state' = [state EXCEPT ![p] = "asleep"] /\ left' = left
      <4>1. left' = [left EXCEPT ![p] = left[p]] /\ state' = [state EXCEPT ![p] = "asleep"]
        BY Zenon, <2>1, <2>4
      <4> QED
        BY Zenon, <1>0, <4>1
    <3>2. state' \in States /\ left' \in [Procs -> Nat]
      BY <1>0, <3>1 DEF States
    <3>3. \A q \in Procs : q # p => state'[q] = state[q]
      BY Zenon, <1>0, <3>1
    <3>4. ReadsInv'
      BY Zenon, <1>0, <1>2, <2>1, <3>1, <3>3 DEF Kept, ReadsInv, IsEmpty
    <3> QED
      BY Zenon, <1>0, <1>1, <2>2, <3>2, <3>4 DEF Kept, LeftType, Queues
  <2> QED
    BY Zenon, <2>3, <2>4
<1>3. CASE ~IsEmpty
  <2>1. PICK ends \in BOOLEAN :
          /\ left[p] = 1 => ends
          /\ left' = [left EXCEPT ![p] = IF ends THEN 0 ELSE @ - 1]
          /\ state' = [state EXCEPT ![p] = IF ends THEN "idle" ELSE @]
          /\ read_index' = Plus(read_index, 1) /\ buffer' = Cleared(read_index, 1)
    BY Zenon, <1>3 DEF ReadByte
  <2>2. RingInv' /\ Lines!Take
    BY Zenon, <1>0, <1>3, <2>1, TakeRing DEF Kept
  <2>3. Queues
    BY Zenon, <2>2 DEF Queues, Lines!Next
  <2>4. \A q \in Procs : q # p => state'[q] = state[q] /\ left'[q] = left[q]
    BY Zenon, <1>0, <2>1
  <2>5. \A q \in Procs : state[q] # "asleep"
    BY Zenon, <1>3 DEF Kept, ReadsInv, IsEmpty
  <2>6. CASE ends
    <3>1. /\ state' = [state EXCEPT ![p] = "idle"] /\ left' = [left EXCEPT ![p] = 0]
      BY Zenon, <2>1, <2>6
    <3>2. state' \in States /\ left' \in [Procs -> Nat] /\ state'[p] = "idle"
      BY <1>0, <3>1 DEF States
    <3>3. ReadsInv'
      BY <1>0, <2>4, <2>5, <3>2 DEF Kept, ReadsInv
    <3> QED
      BY Zenon, <1>0, <1>1, <2>2, <2>3, <3>2, <3>3 DEF Kept, LeftType
  <2>7. CASE ~ends
    <3>1. state' = state /\ left' = [left EXCEPT ![p] = left[p] - 1] /\ left[p] # 1
      <4>1. state' = [state EXCEPT ![p] = state[p]] /\ left' = [left EXCEPT ![p] = left[p] - 1]
        BY Zenon, <2>1, <2>7
      <4> QED
        BY Zenon, <1>0, <2>1, <2>7, <4>1
    <3>2. left[p] - 1 \in Nat \ {0}
      BY <1>0, <3>1
    <3>3. state' \in States /\ left' \in [Procs -> Nat] /\ left'[p] = left[p] - 1
      BY <1>0, <3>1, <3>2 DEF States
    <3>4. ReadsInv'
      BY Zenon, <1>0, <2>4, <2>5, <3>1, <3>2, <3>3 DEF Kept, ReadsInv
    <3> QED
      BY Zenon, <1>0, <1>1, <2>2, <2>3, <3>3, <3>4 DEF Kept, LeftType
  <2> QED
    BY Zenon, <2>6, <2>7
<1> QED
  BY Zenon, <1>2, <1>3

\* The other steps of processes: a read begins, a kill.
LEMMA ReadKept ==
  ASSUME Kept, LeftType, NEW p \in Procs, NEW n \in Sizes, Read(p, n)
  PROVE  Kept' /\ LeftType' /\ Queues
<1>1. /\ state' = [state EXCEPT ![p] = "running"] /\ left' = [left EXCEPT ![p] = n]
      /\ ring' = ring /\ killed' = killed /\ cursor' = cursor
  BY Zenon DEF Read
<1>2. n \in Nat /\ n # 0
  BY ConsoleAssumption
<1>3. state' \in States /\ left' \in [Procs -> Nat]
  BY <1>1, <1>2 DEF Kept, States, LeftType
<1>4. /\ state'[p] = "running" /\ left'[p] = n
      /\ \A q \in Procs : q # p => state'[q] = state[q] /\ left'[q] = left[q]
  BY Zenon, <1>1 DEF Kept, States, LeftType
<1>5. RingInv' /\ Same /\ read_index' = read_index /\ write_index' = write_index
  BY Zenon, <1>1, SameRing DEF Kept, ring
<1>6. ReadsInv'
  <2>1. "running" # "asleep"
    OBVIOUS
  <2> QED
    BY Zenon, <1>2, <1>4, <1>5, <2>1 DEF Kept, ReadsInv
<1> QED
  BY Zenon, <1>1, <1>3, <1>5, <1>6 DEF Kept, LeftType, Queues, OnScreen

\* A kill makes a reader sleep on at worst, and only on an empty ring.
LEMMA KillKept ==
  ASSUME Kept, LeftType, NEW p \in Procs, Kill(p) \/ KillMissed(p)
  PROVE  Kept' /\ LeftType' /\ Queues
<1>1. /\ killed' = [killed EXCEPT ![p] = TRUE]
      /\ ring' = ring /\ left' = left /\ cursor' = cursor
  BY Zenon DEF Kill, KillMissed
<1>2. /\ state[p] # "idle" <=> state'[p] # "idle"
      /\ state'[p] = "asleep" => IsEmpty
      /\ \A q \in Procs : q # p => state'[q] = state[q]
      /\ state' \in States
  <2>1. CASE Kill(p)
    BY <2>1 DEF Kill, Kept, States
  <2>2. CASE KillMissed(p)
    BY <2>2 DEF KillMissed, Kept, States
  <2> QED
    BY Zenon, <2>1, <2>2
<1>3. killed' \in [Procs -> BOOLEAN]
  BY <1>1 DEF LeftType
<1>4. RingInv' /\ Same /\ read_index' = read_index /\ write_index' = write_index
  BY Zenon, <1>1, SameRing DEF Kept, ring
<1>5. ReadsInv'
  BY Zenon, <1>1, <1>2, <1>4 DEF Kept, ReadsInv, IsEmpty
<1> QED
  BY Zenon, <1>1, <1>2, <1>3, <1>4, <1>5 DEF Kept, LeftType, Queues, OnScreen

\* Output moves the cursor only.
LEMMA WriteKept ==
  ASSUME Kept, LeftType, NEW b, Write(b)
  PROVE  Kept' /\ LeftType' /\ Queues
<1>1. cursor' = Putb(cursor, b) /\ ring' = ring /\ state' = state /\ left' = left /\ killed' = killed
  BY Zenon DEF Write, reads
<1>2. OnScreen(cursor)'
  <2>1. OnScreen(Putb(cursor, b))
    BY Zenon, PutbOn DEF Kept
  <2> QED
    BY Zenon, <1>1, <2>1 DEF OnScreen
<1>3. RingInv' /\ Same /\ read_index' = read_index /\ write_index' = write_index
  BY Zenon, <1>1, SameRing DEF Kept, ring
<1> QED
  BY Zenon, <1>1, <1>2, <1>3 DEF Kept, LeftType, Queues, ReadsInv

\* A byte that getb returns is one that put knows.
LEMMA KbdKept ==
  ASSUME Kept, LeftType, KbdInterrupt
  PROVE  Kept' /\ LeftType' /\ Queues
<1>1. left' = left /\ killed' = killed
  BY Zenon DEF KbdInterrupt
<1>2. PICK c : c = Head(fifo)
  BY Zenon
<1>3. PICK b : b = IF "CTL" \in Pressed(c[2]) THEN CTL_MAP(c[2]) ELSE NORMAL_MAP(c[2])
  BY Zenon
<1>4. (Put(b) /\ b # "NO") \/ UNCHANGED <<ring, state, cursor>>
  BY Zenon, <1>2, <1>3 DEF KbdInterrupt
<1>5. b \in Inputs \cup {"NO"}
  <2>1. CTL_MAP(c[2]) \in Inputs \cup {"NO"}
    BY DEF CTL_MAP, Inputs
  <2>2. NORMAL_MAP(c[2]) \in Inputs \cup {"NO"}
    BY DEF NORMAL_MAP, Inputs
  <2> QED
    BY Zenon, <1>3, <2>1, <2>2
<1>6. Kept' /\ Queues
  <2>1. CASE Put(b) /\ b # "NO"
    BY Zenon, <1>1, <1>5, <2>1, PutKept
  <2>2. CASE UNCHANGED <<ring, state, cursor>>
    BY Zenon, <1>1, <2>2, StillKept
  <2> QED
    BY Zenon, <1>4, <2>1, <2>2
<1> QED
  BY Zenon, <1>1, <1>6 DEF LeftType

\* The initial states satisfy the invariant and map to LineQueue's.
LEMMA InitConsole ==
  ASSUME Init
  PROVE  ConsoleInv /\ Lines!Init
<1>1. At(0, 0, 0, 0, 0) /\ 0 < CAPACITY /\ 0 \in Index
  BY RingConstants DEF At, Index, Lengths
<1>2. buffer \in Contents /\ read_index = 0 /\ write_index = 0 /\ edit_index = 0
  BY DEF Init, Contents, Bytes
<1>3. Ordered(0, 0, 0)
  BY Zenon, <1>1, AtOrdered
<1>4. RingInv
  BY Zenon, <1>1, <1>2, <1>3 DEF RingInv
<1>5. OnScreen(cursor)
  BY ConsoleAssumption DEF Init, OnScreen
<1>6. state \in States /\ ReadsInv /\ LeftType
  <2>1. "idle" # "asleep"
    OBVIOUS
  <2>2. \A p \in Procs : state[p] = "idle"
    BY Zenon DEF Init
  <2>3. ReadsInv
    BY Zenon, <2>1, <2>2 DEF ReadsInv
  <2> QED
    BY <2>3 DEF Init, States, LeftType
<1>7. KeysType /\ EscapeInv
  <2>1. <<>> \in Seq(Codes)
    BY EmptySeq
  <2> QED
    BY Zenon, <2>1 DEF Init, KeysType, EscapeInv
<1>8. KeysInv
  <2>1. ASSUME NEW m, NEW i \in Nat PROVE ~Changes(i, m)
    <3>1. fifo = <<>>
      BY Zenon DEF Init
    <3>2. i \notin 1..Len(<<>>)
      OBVIOUS
    <3> QED
      BY Zenon, <3>1, <3>2 DEF Changes
  <2> QED
    BY Zenon, <2>1 DEF KeysInv, Gone, Init
<1>9. Lines!Init
  <2>1. Sliced(buffer, 0, 0, 0, 0, 0)
    BY Zenon, <1>1, <1>2, SlicesAre
  <2>2. SliceOf(buffer, 0, 0) = <<>>
    BY Zenon, <1>1, <1>2, SliceEmpty
  <2>3. Slice(0, 0) = <<>>
    BY Zenon, <2>1, <2>2 DEF Sliced, Slice, SliceOf
  <2> QED
    BY Zenon, <1>2, <2>3 DEF Lines!Init
<1> QED
  BY Zenon, <1>4, <1>5, <1>6, <1>7, <1>8, <1>9, InvParts DEF Kept

\* Every step keeps the invariant and is a step or a stutter of LineQueue.
LEMMA NextConsole ==
  ASSUME ConsoleInv, [Next]_vars
  PROVE  ConsoleInv' /\ Queues
<1>1. Kept /\ LeftType /\ KeysType /\ EscapeInv /\ KeysInv
  BY Zenon, InvParts
<1>2. ASSUME UNCHANGED keyboard PROVE KeysType' /\ EscapeInv' /\ KeysInv'
  BY Zenon, <1>1, <1>2, StillKeys
<1>3. ASSUME NEW b \in UartBytes, UartInterrupt(b) PROVE ConsoleInv' /\ Queues
  <2>1. Put(b) /\ left' = left /\ killed' = killed /\ UNCHANGED keyboard
    BY Zenon, <1>3 DEF UartInterrupt
  <2>2. b \in Inputs
    BY Zenon, ConsoleAssumption DEF Inputs
  <2>3. Kept' /\ Queues
    BY Zenon, <1>1, <2>1, <2>2, PutKept
  <2>4. LeftType'
    BY Zenon, <1>1, <2>1 DEF LeftType
  <2> QED
    BY Zenon, <1>2, <2>1, <2>3, <2>4, InvPartsNext
<1>4. ASSUME NEW key \in Keys, Press(key) PROVE ConsoleInv' /\ Queues
  <2>1. KeysType' /\ EscapeInv' /\ KeysInv'
    BY Zenon, <1>1, <1>4, PressKeys
  <2>2. ring' = ring /\ state' = state /\ left' = left /\ killed' = killed /\ cursor' = cursor
    BY Zenon, <1>4 DEF Press, reads
  <2>3. Kept' /\ Queues
    BY Zenon, <1>1, <2>2, StillKept
  <2>4. LeftType'
    BY Zenon, <1>1, <2>2 DEF LeftType
  <2> QED
    BY Zenon, <2>1, <2>3, <2>4, InvPartsNext
<1>5. ASSUME KbdInterrupt PROVE ConsoleInv' /\ Queues
  <2>1. KeysType' /\ EscapeInv' /\ KeysInv'
    BY Zenon, <1>1, <1>5, ReadKeys
  <2>2. Kept' /\ LeftType' /\ Queues
    BY Zenon, <1>1, <1>5, KbdKept
  <2> QED
    BY Zenon, <2>1, <2>2, InvPartsNext
<1>6. ASSUME NEW b \in Output, Write(b) PROVE ConsoleInv' /\ Queues
  <2>1. UNCHANGED keyboard
    BY Zenon, <1>6 DEF Write
  <2>2. Kept' /\ LeftType' /\ Queues
    BY Zenon, <1>1, <1>6, WriteKept
  <2> QED
    BY Zenon, <1>2, <2>1, <2>2, InvPartsNext
<1>7. ASSUME NEW p \in Procs, ReadByte(p) PROVE ConsoleInv' /\ Queues
  <2>1. UNCHANGED keyboard
    BY Zenon, <1>7 DEF ReadByte
  <2>2. Kept' /\ LeftType' /\ Queues
    BY Zenon, <1>1, <1>7, ReadByteKept
  <2> QED
    BY Zenon, <1>2, <2>1, <2>2, InvPartsNext
<1>8. ASSUME NEW p \in Procs, Kill(p) \/ KillMissed(p) PROVE ConsoleInv' /\ Queues
  <2>1. UNCHANGED keyboard
    BY Zenon, <1>8 DEF Kill, KillMissed
  <2>2. Kept' /\ LeftType' /\ Queues
    BY Zenon, <1>1, <1>8, KillKept
  <2> QED
    BY Zenon, <1>2, <2>1, <2>2, InvPartsNext
<1>9. ASSUME NEW p \in Procs, NEW n \in Sizes, Read(p, n) PROVE ConsoleInv' /\ Queues
  <2>1. UNCHANGED keyboard
    BY Zenon, <1>9 DEF Read
  <2>2. Kept' /\ LeftType' /\ Queues
    BY Zenon, <1>1, <1>9, ReadKept
  <2> QED
    BY Zenon, <1>2, <2>1, <2>2, InvPartsNext
<1>10. ASSUME UNCHANGED vars PROVE ConsoleInv' /\ Queues
  <2>1. ring' = ring /\ reads' = reads /\ UNCHANGED keyboard /\ cursor' = cursor
    BY Zenon, <1>10 DEF vars
  <2>2. state' = state /\ left' = left /\ killed' = killed
    BY Zenon, <2>1 DEF reads
  <2>3. Kept' /\ Queues
    BY Zenon, <1>1, <2>1, <2>2, StillKept
  <2>4. LeftType'
    BY Zenon, <1>1, <2>2 DEF LeftType
  <2> QED
    BY Zenon, <1>2, <2>1, <2>3, <2>4, InvPartsNext
<1> QED
  BY Zenon, <1>3, <1>4, <1>5, <1>6, <1>7, <1>8, <1>9, <1>10 DEF Next

\* ConsoleInv is an inductive invariant: it holds after every sequence of
\* interrupts, reads, kills and writes.
THEOREM ConsoleCorrect == Spec => []ConsoleInv
<1>1. Init => ConsoleInv
  BY Zenon, InitConsole
<1>2. ConsoleInv /\ [Next]_vars => ConsoleInv'
  BY Zenon, NextConsole
<1> QED
  BY <1>1, <1>2, PTL DEF Spec
-----------------------------------------------------------------------------
(* The properties.                                                         *)

\* The invariant implies that the cursor is on the screen.
LEMMA InvScreen ==
  ConsoleInv => CursorOnScreen
<1> SUFFICES ASSUME ConsoleInv PROVE CursorOnScreen
  OBVIOUS
<1>1. {read_index, write_index, edit_index} \subseteq 0..(WORD - 1)
  BY Zenon DEF ConsoleInv, ConsoleType, Index
<1> QED
  BY Zenon, <1>1 DEF ConsoleInv, ConsoleType, CursorInv, CursorOnScreen, TypeOK

\* The invariant implies that sleepers have nothing to read.
LEMMA InvSleepers ==
  ConsoleInv => SleepersHaveNothing
<1> SUFFICES ASSUME ConsoleInv, NEW p \in Procs, state[p] = "asleep" PROVE IsEmpty /\ ~IsFull
  BY Zenon DEF SleepersHaveNothing
<1>1. Kept
  BY Zenon, InvParts
<1>2. IsEmpty
  BY Zenon, <1>1 DEF Kept, ReadsInv, IsEmpty
<1>3. PICK r, w, e, u, v : /\ r = read_index /\ w = write_index /\ e = edit_index
                           /\ At(r, w, e, u, v) /\ v < CAPACITY
  BY Zenon, <1>1, RingAt DEF Kept
<1>4. Empties(r, w, u)
  BY Zenon, <1>3, AtEmpty
<1>5. u = 0
  BY Zenon, <1>2, <1>3, <1>4 DEF IsEmpty, Empties
<1>6. Minus(e, r) = u + v
  BY Zenon, <1>3, AtLengths
<1>7. u + v # CAPACITY
  <2>1. v \in 0..CAPACITY
    BY Zenon, <1>3 DEF At, Lengths
  <2> QED
    BY <1>3, <1>5, <2>1, RingConstants
<1> QED
  BY Zenon, <1>2, <1>3, <1>6, <1>7 DEF IsFull

\* The invariant implies that modifiers are held.
LEMMA InvModifiers ==
  ConsoleInv => ModifiersHeld
<1> SUFFICES ASSUME ConsoleInv, fifo = <<>>
             PROVE  /\ "CTL" \in modkeys => \E ext \in BOOLEAN : <<ext, "ctl">> \in held
                    /\ "ALT" \in modkeys => \E ext \in BOOLEAN : <<ext, "alt">> \in held
                    /\ "SHIFT" \in modkeys => <<FALSE, "shift">> \in held
  BY Zenon DEF ModifiersHeld
<1>1. KeysType /\ KeysInv
  BY Zenon, InvParts
<1>2. ASSUME NEW m, NEW i \in Nat PROVE ~Changes(i, m)
  <2>1. i \notin 1..Len(<<>>)
    OBVIOUS
  <2> QED
    BY Zenon, <2>1 DEF Changes
<1>3. ASSUME NEW m \in {"CTL", "ALT", "SHIFT"}, m \in modkeys
      PROVE  \E key \in held : /\ key = <<key[1], key[2]>> /\ key[1] \in BOOLEAN
                               /\ \/ key[2] = "ctl" /\ m = "CTL"
                                  \/ key[2] = "alt" /\ m = "ALT"
                                  \/ key[2] = "shift" /\ ~key[1] /\ m = "SHIFT"
  <2>1. Holds(m)
    BY Zenon, <1>1, <1>2, <1>3 DEF KeysInv, Gone
  <2>2. PICK key \in held : m \in ShiftCode(key[1], key[2])
    BY Zenon, <2>1 DEF Holds
  <2>3. key \in Keys
    BY Zenon, <1>1 DEF KeysType
  <2>4. key = <<key[1], key[2]>> /\ key[1] \in BOOLEAN
    BY Zenon, <2>3, ConsoleAssumption
  <2>5. \/ key[2] = "ctl" /\ m = "CTL"
        \/ key[2] = "alt" /\ m = "ALT"
        \/ key[2] = "shift" /\ ~key[1] /\ m = "SHIFT"
    BY Zenon, <2>2, ShiftIs
  <2> QED
    BY Zenon, <2>4, <2>5
<1>4. ASSUME "CTL" \in modkeys PROVE \E ext \in BOOLEAN : <<ext, "ctl">> \in held
  <2>1. PICK key \in held : key = <<key[1], key[2]>> /\ key[1] \in BOOLEAN /\ key[2] = "ctl"
    BY <1>3, <1>4
  <2> QED
    BY Zenon, <2>1
<1>5. ASSUME "ALT" \in modkeys PROVE \E ext \in BOOLEAN : <<ext, "alt">> \in held
  <2>1. PICK key \in held : key = <<key[1], key[2]>> /\ key[1] \in BOOLEAN /\ key[2] = "alt"
    BY <1>3, <1>5
  <2> QED
    BY Zenon, <2>1
<1>6. ASSUME "SHIFT" \in modkeys PROVE <<FALSE, "shift">> \in held
  <2>1. PICK key \in held : key = <<key[1], key[2]>> /\ key[1] \in BOOLEAN /\ key[2] = "shift" /\ ~key[1]
    BY <1>3, <1>6
  <2>2. key[1] = FALSE
    BY Zenon, <2>1
  <2> QED
    BY Zenon, <2>1, <2>2
<1> QED
  BY Zenon, <1>4, <1>5, <1>6

\* The cursor never leaves the screen, whatever is typed, erased or printed:
\* the slice in set_cursor does not panic.
THEOREM CursorStaysOnScreen == Spec => []CursorOnScreen
  BY ConsoleCorrect, InvScreen, PTL

\* A reader never sleeps on entered input, nor on a ring so full that nothing
\* can be entered: every path that enters a line wakes the readers.
THEOREM NoLostWakeup == Spec => []SleepersHaveNothing
  BY ConsoleCorrect, InvSleepers, PTL

\* getb's idea of a modifier is the keyboard's once the codes are read, also
\* for the two extended keys and with repeats.
THEOREM ModifiersAreHeld == Spec => []ModifiersHeld
  BY ConsoleCorrect, InvModifiers, PTL

\* The ring of CAPACITY bytes with its three wrapping indices implements the
\* queue behind an editable line: put types, edits and enters as LineQueue
\* says, and a read takes the first entered byte.
THEOREM RingImplementsLineQueue == Spec => ImplementsLineQueue
<1>1. Init => Lines!Init
  BY Zenon, InitConsole
<1>2. ConsoleInv /\ [Next]_vars =>
        [Lines!Next]_<<Slice(write_index, edit_index), Slice(read_index, write_index)>>
  <2>1. ConsoleInv /\ [Next]_vars => Queues
    BY Zenon, NextConsole
  <2>2. Queues => [Lines!Next]_<<Slice(write_index, edit_index), Slice(read_index, write_index)>>
    BY Zenon DEF Queues, Same
  <2> QED
    BY Zenon, <2>1, <2>2
<1> QED
  BY <1>1, <1>2, ConsoleCorrect, PTL DEF Spec, ImplementsLineQueue, Lines!Spec
=============================================================================
