------------------------------ MODULE BufProofs -------------------------------
(*****************************************************************************)
(* The inductive invariant of BufCache: the list of all buffers, the queue   *)
(* of the buffers that are waited for, who has and who owns which buffer,    *)
(* how far it is, and what it holds.  What it gives: the properties of the   *)
(* runs for every number of processes, buffers and blocks, and the           *)
(* refinement of BlockStore.                                                 *)
(*****************************************************************************)
EXTENDS BufLists

Locked == {"read", "rdwr", "io", "checkio", "use"}

\* A process has the locks of the buffer it reached and of the outer one.
Owns(p, b) == (buf[p] = b /\ pc[p] \in Locked) \/ outer[p] = b
Has(p) == IF pc[p] = "idle" THEN buf[p] = NONE /\ outer[p] = NONE
          ELSE buf[p] \in Bufs /\ outer[p] # buf[p]
HoldInv ==
  /\ \A p \in Procs : Has(p)
  /\ \A p \in Procs, b \in Bufs : owner[b] = p <=> Owns(p, b)

\* How far the buffers of a process are.
Stage(p) ==
  /\ pc[p] = "use" => "VALID" \in flags[buf[p]]
  /\ outer[p] # NONE => "VALID" \in flags[outer[p]]
  /\ pc[p] \in {"rdwr", "io"} => flags[buf[p]] # {"VALID"}
  /\ pc[p] = "checkio" => flags[buf[p]] = {"VALID"}
StageInv == \A p \in Procs : Stage(p)

\* A block has one buffer, and a clean one is what the disk holds.
BlockInv ==
  /\ \A b \in Bufs : flags[b] \in {{}, {"VALID"}, {"VALID", "DIRTY"}}
  /\ \A b \in Bufs : ref_cnt[b] # 0 \/ flags[b] # {} => blockno[b] \in Blocks
  /\ \A b, c \in Bufs : blockno[b] = blockno[c] /\ blockno[b] # NoBlock => b = c
  /\ \A b \in Bufs : flags[b] = {"VALID"} => data[b] = disk[blockno[b]]

\* A command that is done has moved its block.
DriveInv ==
  /\ drive = queue
  /\ irq => drive # NONE /\ data[drive] = disk[blockno[drive]]

CacheInv ==
  /\ TypeOK /\ ListInv /\ QueueInv /\ RefExact
  /\ HoldInv /\ StageInv /\ BlockInv /\ DriveInv /\ NoPanic
-----------------------------------------------------------------------------
\* What bget() finds: the buffer of block k if there is one, and a buffer that
\* nobody has and that is not dirty.
LEMMA SearchFinds ==
  ASSUME TypeOK, ListInv, NEW k \in Blocks
  PROVE  /\ Cached(k) # NONE => Cached(k) \in Bufs /\ blockno[Cached(k)] = k
         /\ Cached(k) = NONE => \A b \in Bufs : blockno[b] # k
         /\ Victim # NONE => Victim \in Bufs /\ ref_cnt[Victim] = 0 /\ "DIRTY" \notin flags[Victim]
<1> DEFINE C == {b \in Bufs : blockno[b] = k}
           V == {b \in Bufs : ref_cnt[b] = 0 /\ "DIRTY" \notin flags[b]}
<1>1. C \in SUBSET Bufs /\ V \in SUBSET Bufs
  BY Zenon
<1>2. Cached(k) = FirstIn(C, head, next) /\ Victim = FirstIn(V, tail, prev)
  BY Zenon DEF Cached, Victim
<1>3. /\ Cached(k) = NONE => C = {}
      /\ Cached(k) # NONE => Cached(k) \in C
      /\ Victim # NONE => Victim \in V
  <2> HIDE DEF C, V
  <2> QED
    BY Zenon, <1>1, <1>2, SearchOfList
<1> QED
  BY Zenon, <1>3

\* A buffer that some process has is counted, and one that is not counted no
\* process has.
LEMMA Counted ==
  ASSUME TypeOK, RefExact, NEW b \in Bufs
  PROVE  /\ ref_cnt[b] = 0 => \A p \in Procs : buf[p] # b /\ outer[p] # b
         /\ \A p \in Procs : buf[p] = b \/ outer[p] = b => ref_cnt[b] # 0
<1> DEFINE S == {p \in Procs : buf[p] = b \/ outer[p] = b}
<1>1. ref_cnt[b] = Cardinality(S)
  BY Zenon DEF RefExact
<1>2. S \in SUBSET Procs /\ IsFiniteSet(Procs)
  BY Zenon, BufAssumption
<1>3. IsFiniteSet(S)
  <2> HIDE DEF S
  <2> QED
    BY Zenon, <1>2, FS_Subset
<1>4. Cardinality(S) = 0 <=> S = {}
  BY Zenon, <1>3, FS_EmptySet
<1> QED
  BY Zenon, <1>1, <1>4

\* A buffer has one owner.
LEMMA OneOwner ==
  ASSUME HoldInv, NEW p \in Procs, NEW q \in Procs, NEW b \in Bufs, Owns(p, b), Owns(q, b)
  PROVE  p = q /\ owner[b] = p
<1>1. owner[b] = p
  BY Zenon DEF HoldInv
<1>2. owner[b] = q
  BY Zenon DEF HoldInv
<1> QED
  BY Zenon, <1>1, <1>2

\* Where a process is that does not sit idle: it has a buffer; past acquire()
\* it owns it.
LEMMA InHand ==
  ASSUME HoldInv, NEW p \in Procs, pc[p] # "idle"
  PROVE  /\ buf[p] \in Bufs /\ outer[p] # buf[p]
         /\ owner[buf[p]] = p <=> pc[p] \in Locked
<1>1. buf[p] \in Bufs /\ outer[p] # buf[p]
  BY Zenon DEF HoldInv, Has
<1>2. owner[buf[p]] = p <=> Owns(p, buf[p])
  BY Zenon, <1>1 DEF HoldInv
<1> QED
  BY Zenon, <1>1, <1>2 DEF Owns
-----------------------------------------------------------------------------
\* No assert of the three files fails.
LEMMA KeepsNoPanic ==
  ASSUME CacheInv, Next
  PROVE  panic' = FALSE /\ NoPanic'
<1>0. HoldInv /\ StageInv /\ panic = FALSE
  BY Zenon DEF CacheInv, NoPanic, TypeOK
<1>1. ASSUME NEW p \in Procs, AcquireSleeps(p) PROVE panic' = FALSE
  <2>1. pc[p] = "lock" /\ panic' = (owner[buf[p]] = p)
    BY Zenon, <1>1 DEF AcquireSleeps, At
  <2>2. pc[p] # "idle" /\ pc[p] \notin Locked
    BY Zenon, <2>1 DEF Locked
  <2> QED
    BY Zenon, <1>0, <2>1, <2>2, InHand
<1>2. ASSUME NEW p \in Procs, Rdwr(p) PROVE panic' = FALSE
  <2>1. pc[p] = "rdwr" /\ panic' = (owner[buf[p]] # p \/ flags[buf[p]] = {"VALID"})
    BY Zenon, <1>2 DEF Rdwr, At
  <2>2. pc[p] # "idle" /\ pc[p] \in Locked
    BY Zenon, <2>1 DEF Locked
  <2>3. flags[buf[p]] # {"VALID"}
    BY Zenon, <1>0, <2>1 DEF StageInv, Stage
  <2> QED
    BY Zenon, <1>0, <2>1, <2>2, <2>3, InHand
<1>3. ASSUME NEW p \in Procs, pc[p] = "use", panic' = (owner[buf[p]] # p) PROVE panic' = FALSE
  <2>1. pc[p] # "idle" /\ pc[p] \in Locked
    BY Zenon, <1>3 DEF Locked
  <2> QED
    BY Zenon, <1>0, <1>3, <2>1, InHand
<1>4. ASSUME NEW p \in Procs, Release(p) PROVE panic' = FALSE
  BY Zenon, <1>3, <1>4 DEF Release, At
<1>5. ASSUME NEW p \in Procs, NEW v \in Vals, Log(p, v) PROVE panic' = FALSE
  BY Zenon, <1>3, <1>5 DEF Log, At
<1>6. ASSUME NEW p \in Procs, NEW v \in Vals, Write(p, v) PROVE panic' = FALSE
  BY Zenon, <1>3, <1>6 DEF Write, At
<1>7. ASSUME UNCHANGED panic PROVE panic' = FALSE
  BY Zenon, <1>0, <1>7
<1>8. ASSUME NEW p \in Procs, Step(p) \/ Acquire(p) PROVE panic' = FALSE
  <2>1. \/ AcquireSleeps(p) \/ Rdwr(p) \/ Release(p)
        \/ Read(p) \/ RdwrTest(p) \/ Relse(p) \/ Acquire(p)
    BY Zenon, <1>8 DEF Step
  <2>2. Read(p) \/ RdwrTest(p) \/ Relse(p) \/ Acquire(p) => UNCHANGED panic
    BY Zenon DEF Read, RdwrTest, Relse, Acquire
  <2> QED
    BY Zenon, <1>1, <1>2, <1>4, <1>7, <2>1, <2>2
<1>9. ASSUME NEW p \in Procs, NEW k \in Blocks, BgetHit(p, k) \/ BgetRecycles(p, k) PROVE UNCHANGED panic
  BY Zenon, <1>9 DEF BgetHit, BgetRecycles
<1>10. Transfer \/ Interrupt => UNCHANGED panic
  BY Zenon DEF Transfer, Interrupt
<1>11. panic' = FALSE
  BY Zenon, <1>5, <1>6, <1>7, <1>8, <1>9, <1>10 DEF Next
<1> QED
  BY Zenon, <1>11 DEF NoPanic

\* Only relse() touches the list.
LEMMA KeepsList ==
  ASSUME CacheInv, Next
  PROVE  ListInv'
<1>0. TypeOK /\ ListInv /\ HoldInv
  BY Zenon DEF CacheInv
<1>1. ASSUME UNCHANGED list PROVE ListInv'
  BY Zenon, <1>0, <1>1 DEF ListInv, Order, list
<1>2. ASSUME NEW p \in Procs, Relse(p) PROVE ListInv'
  <2>1. pc[p] # "idle"
    BY Zenon, <1>2 DEF Relse, At
  <2>2. buf[p] \in Bufs
    BY Zenon, <1>0, <2>1, InHand
  <2>3. UNCHANGED list \/ (buf[p] # head /\ MoveToHead(buf[p]))
    BY Zenon, <1>2 DEF Relse
  <2> QED
    BY Zenon, <1>0, <1>1, <2>2, <2>3, MoveKeepsList
<1>3. ASSUME NEW p \in Procs, Step(p) \/ Acquire(p) PROVE ListInv'
  <2>1. Relse(p) \/ UNCHANGED list
    BY Zenon, <1>3 DEF Step, AcquireSleeps, Read, Rdwr, RdwrTest, Release, Acquire
  <2> QED
    BY Zenon, <1>1, <1>2, <2>1
<1>4. ASSUME NEW p \in Procs, NEW k \in Blocks, BgetHit(p, k) \/ BgetRecycles(p, k) PROVE UNCHANGED list
  BY Zenon, <1>4 DEF BgetHit, BgetRecycles
<1>5. ASSUME NEW p \in Procs, NEW v \in Vals, Log(p, v) \/ Write(p, v) PROVE UNCHANGED list
  BY Zenon, <1>5 DEF Log, Write
<1>6. Transfer \/ Interrupt => UNCHANGED list
  BY Zenon DEF Transfer, Interrupt
<1> QED
  BY Zenon, <1>1, <1>3, <1>4, <1>5, <1>6 DEF Next

\* The drive works for a process: on a buffer it waits for and of a block.
LEMMA DriveWorks ==
  ASSUME CacheInv, drive # NONE
  PROVE  /\ drive \in Bufs /\ queue = drive /\ blockno[drive] \in Blocks
         /\ \E p \in Procs : pc[p] = "io" /\ buf[p] = drive
<1>0. TypeOK /\ QueueInv /\ RefExact /\ BlockInv /\ DriveInv
  BY Zenon DEF CacheInv
<1>1. queue = drive
  BY Zenon, <1>0 DEF DriveInv
<1>2. PICK n \in 0..NBUF : \E s \in [1..n -> Bufs] : Queued(s, n)
  BY Zenon, <1>0 DEF QueueInv
<1>3. PICK s \in [1..n -> Bufs] : Queued(s, n)
  BY Zenon, <1>2
<1>4. 1 \in 1..n /\ queue = s[1] /\ queue \in Bufs
  BY Zenon, <1>1, <1>3, QueueEnds
<1>5. \E p \in Procs : pc[p] = "io" /\ buf[p] = drive
  BY Zenon, <1>1, <1>3, <1>4 DEF Queued, Waited
<1>6. ref_cnt[drive] # 0
  BY Zenon, <1>0, <1>1, <1>4, <1>5, Counted
<1>7. blockno[drive] \in Blocks
  BY Zenon, <1>0, <1>1, <1>4, <1>6 DEF BlockInv
<1> QED
  BY Zenon, <1>1, <1>4, <1>5, <1>7

\* The values a step gives are of their types.
LEMMA KeepsTypes ==
  ASSUME CacheInv, Next
  PROVE  TypeOK'
<1>0. TypeOK /\ ListInv /\ HoldInv /\ RefExact
  BY Zenon DEF CacheInv
<1> DEFINE ListType == /\ head \in Bufs /\ tail \in Bufs
                       /\ prev \in [Bufs -> Bufs \cup {NONE}] /\ next \in [Bufs -> Bufs \cup {NONE}]
           BufType == /\ blockno \in [Bufs -> Blocks \cup {NoBlock}]
                      /\ flags \in [Bufs -> SUBSET {"VALID", "DIRTY"}]
                      /\ ref_cnt \in [Bufs -> Nat] /\ data \in [Bufs -> Vals]
                      /\ owner \in [Bufs -> Procs \cup {NoProc}]
           DiskType == /\ queue \in Bufs \cup {NONE} /\ drive \in Bufs \cup {NONE} /\ irq \in BOOLEAN
                       /\ qnext \in [Bufs -> Bufs \cup {NONE}]
                       /\ disk \in [Blocks -> Vals]
           ProcType == /\ pc \in [Procs -> Points]
                       /\ buf \in [Procs -> Bufs \cup {NONE}] /\ outer \in [Procs -> Bufs \cup {NONE}]
<1>1. TypeOK <=> ListType /\ BufType /\ DiskType /\ ProcType /\ panic \in BOOLEAN
  BY Zenon DEF TypeOK
<1>2. TypeOK' <=> ListType' /\ BufType' /\ DiskType' /\ ProcType' /\ panic' \in BOOLEAN
  BY Zenon DEF TypeOK
<1>3. ASSUME UNCHANGED list PROVE ListType'
  BY Zenon, <1>0, <1>1, <1>3 DEF list
<1>4. ASSUME UNCHANGED bufs PROVE BufType'
  BY Zenon, <1>0, <1>1, <1>4 DEF bufs
<1>5. ASSUME UNCHANGED device PROVE DiskType'
  BY Zenon, <1>0, <1>1, <1>5 DEF device
<1>6. ASSUME UNCHANGED procs PROVE ProcType'
  BY Zenon, <1>0, <1>1, <1>6 DEF procs
<1>7. ASSUME NEW p \in Procs, NEW point \in Points, Goto(p, point) PROVE ProcType'
  BY Zenon, <1>0, <1>1, <1>7 DEF Goto
<1>8. ASSUME NEW p, NEW b, NEW asleep, NEW awake \in Points, NEW point \in Points,
             pc' = Wake(b, asleep, awake, p, point), UNCHANGED <<buf, outer>>
      PROVE  ProcType'
  BY Zenon, <1>0, <1>1, <1>8 DEF Wake
<1>9. ASSUME NEW p \in Procs PROVE pc[p] # "idle" => buf[p] \in Bufs
  BY Zenon, <1>0, InHand
<1>10. panic' \in BOOLEAN
  BY Zenon, KeepsNoPanic
<1>11. {"idle", "lock", "asleep", "read", "rdwr", "io", "checkio", "use", "relse"} = Points
  BY Zenon DEF Points
<1>12. ASSUME NEW p \in Procs, NEW b \in Bufs, Take(p, b)
       PROVE  ProcType' /\ ref_cnt' \in [Bufs -> Nat]
  <2>1. "lock" \in Points /\ buf[p] \in Bufs \cup {NONE}
    BY Zenon, <1>0, <1>1, <1>11
  <2>2. ref_cnt[b] + 1 \in Nat
    BY <1>0, <1>1
  <2>3. ProcType'
    BY Zenon, <1>0, <1>1, <1>12, <2>1 DEF Take
  <2>4. ref_cnt' \in [Bufs -> Nat]
    BY Zenon, <1>0, <1>1, <1>12, <2>2 DEF Take
  <2> QED
    BY Zenon, <2>3, <2>4
<1>13. ASSUME NEW p \in Procs, NEW k \in Blocks, BgetHit(p, k) PROVE TypeOK'
  <2>1. Cached(k) \in Bufs
    BY Zenon, <1>0, <1>13, SearchFinds DEF BgetHit
  <2>2. Take(p, Cached(k)) /\ UNCHANGED <<list, blockno, flags, data, owner, device, panic>>
    BY Zenon, <1>13 DEF BgetHit
  <2>3. BufType'
    BY Zenon, <1>0, <1>1, <1>12, <2>1, <2>2
  <2> QED
    BY Zenon, <1>2, <1>3, <1>5, <1>10, <1>12, <2>1, <2>2, <2>3
<1>14. ASSUME NEW p \in Procs, NEW k \in Blocks, BgetRecycles(p, k) PROVE TypeOK'
  <2>1. Victim \in Bufs
    BY Zenon, <1>0, <1>14, SearchFinds DEF BgetRecycles
  <2>2. /\ Take(p, Victim) /\ UNCHANGED <<list, data, owner, device>>
        /\ blockno' = [blockno EXCEPT ![Victim] = k] /\ flags' = [flags EXCEPT ![Victim] = {}]
    BY Zenon, <1>14 DEF BgetRecycles
  <2>3. BufType'
    BY Zenon, <1>0, <1>1, <1>12, <2>1, <2>2
  <2> QED
    BY Zenon, <1>2, <1>3, <1>5, <1>10, <1>12, <2>1, <2>2, <2>3
<1>15. ASSUME NEW p \in Procs, Acquire(p) PROVE TypeOK'
  <2>1. /\ Goto(p, "read") /\ "read" \in Points /\ owner' = [owner EXCEPT ![buf[p]] = p]
        /\ UNCHANGED <<list, blockno, flags, ref_cnt, data, device>>
    BY Zenon, <1>15, <1>11 DEF Acquire
  <2>2. BufType'
    BY Zenon, <1>0, <1>1, <2>1
  <2> QED
    BY Zenon, <1>2, <1>3, <1>5, <1>7, <1>10, <2>1, <2>2
<1>16. ASSUME NEW p \in Procs, AcquireSleeps(p) \/ Read(p) \/ RdwrTest(p) PROVE TypeOK'
  <2>1. UNCHANGED <<list, bufs, device>> /\ \E point \in Points : Goto(p, point)
    BY Zenon, <1>16, <1>11 DEF AcquireSleeps, Read, RdwrTest
  <2> QED
    BY Zenon, <1>2, <1>3, <1>4, <1>5, <1>7, <1>10, <2>1
<1>17. ASSUME NEW p \in Procs, Rdwr(p) PROVE TypeOK'
  <2>1. Goto(p, "io") /\ "io" \in Points /\ UNCHANGED <<list, bufs, irq, disk>> /\ pc[p] # "idle"
    BY Zenon, <1>17, <1>11 DEF Rdwr, At
  <2>2. buf[p] \in Bufs
    BY Zenon, <1>9, <2>1
  <2>3. qnext' \in [Bufs -> Bufs \cup {NONE}]
    BY Zenon, <1>0, <1>1, <1>17, <2>2 DEF Rdwr, Enqueue
  <2>4. DiskType'
    BY Zenon, <1>0, <1>1, <1>17, <2>1, <2>2, <2>3 DEF Rdwr
  <2> QED
    BY Zenon, <1>2, <1>3, <1>4, <1>7, <1>10, <2>1, <2>4
<1>18. ASSUME Transfer PROVE TypeOK'
  <2>1. drive \in Bufs
    BY Zenon, <1>0, <1>1, <1>18 DEF Transfer
  <2>2. UNCHANGED <<list, blockno, flags, ref_cnt, owner, queue, qnext, drive, procs>> /\ irq' = TRUE
    BY Zenon, <1>18 DEF Transfer
  <2>3. data' \in [Bufs -> Vals] /\ disk' \in [Blocks -> Vals]
    <3>1. CASE "DIRTY" \in flags[drive]
      BY Zenon, <1>0, <1>1, <1>18, <2>1, <3>1 DEF Transfer
    <3>2. CASE "DIRTY" \notin flags[drive]
      <4>1. blockno[drive] \in Blocks
        BY Zenon, <1>18, DriveWorks DEF Transfer
      <4> QED
        BY Zenon, <1>0, <1>1, <1>18, <2>1, <3>2, <4>1 DEF Transfer
    <3> QED
      BY Zenon, <3>1, <3>2
  <2>4. BufType' /\ DiskType'
    BY Zenon, <1>0, <1>1, <2>2, <2>3
  <2> QED
    BY Zenon, <1>2, <1>3, <1>6, <1>10, <2>2, <2>4
<1>19. ASSUME Interrupt PROVE TypeOK'
  <2>1. /\ pc' = Wake(queue, "io", "checkio", NoProc, "idle") /\ UNCHANGED <<buf, outer>>
        /\ "checkio" \in Points /\ "idle" \in Points
        /\ flags' = [flags EXCEPT ![queue] = {"VALID"}]
        /\ queue' = qnext[queue] /\ drive' = qnext[queue] /\ irq' = FALSE
        /\ UNCHANGED <<list, blockno, ref_cnt, data, owner, qnext, disk>>
    BY Zenon, <1>19, <1>11 DEF Interrupt, StartNext
  <2>2. queue \in Bufs
    BY Zenon, <1>19, DriveWorks DEF Interrupt, CacheInv, DriveInv
  <2>3. BufType' /\ DiskType'
    BY Zenon, <1>0, <1>1, <2>1, <2>2
  <2> QED
    BY Zenon, <1>2, <1>3, <1>8, <1>10, <2>1, <2>3
<1>20. ASSUME NEW p \in Procs, NEW v \in Vals, Log(p, v) \/ Write(p, v) PROVE TypeOK'
  <2>1. /\ data' = [data EXCEPT ![buf[p]] = v]
        /\ flags' = [flags EXCEPT ![buf[p]] = @ \cup {"DIRTY"}]
        /\ UNCHANGED <<list, blockno, ref_cnt, owner, device>>
        /\ UNCHANGED procs \/ (Goto(p, "rdwr") /\ "rdwr" \in Points /\ pc[p] # "idle")
    BY Zenon, <1>20, <1>11 DEF Log, Write, At
  <2>2. BufType'
    BY Zenon, <1>0, <1>1, <2>1
  <2> QED
    BY Zenon, <1>2, <1>3, <1>5, <1>6, <1>7, <1>10, <2>1, <2>2
<1>21. ASSUME NEW p \in Procs, Release(p) PROVE TypeOK'
  <2>1. /\ pc' = Wake(buf[p], "asleep", "lock", p, "relse") /\ UNCHANGED <<buf, outer>>
        /\ "lock" \in Points /\ "relse" \in Points
        /\ owner' = [owner EXCEPT ![buf[p]] = NoProc]
        /\ UNCHANGED <<list, blockno, flags, ref_cnt, data, device>>
    BY Zenon, <1>21, <1>11 DEF Release, WakeWaiters
  <2>2. BufType'
    BY Zenon, <1>0, <1>1, <2>1
  <2> QED
    BY Zenon, <1>2, <1>3, <1>5, <1>8, <1>10, <2>1, <2>2
<1>22. ASSUME NEW p \in Procs, Relse(p) PROVE TypeOK'
  <2>1. /\ pc[p] # "idle" /\ ref_cnt' = [ref_cnt EXCEPT ![buf[p]] = @ - 1]
        /\ UNCHANGED list \/ (head # buf[p] /\ MoveToHead(buf[p]))
        /\ UNCHANGED <<blockno, flags, data, owner, device>>
    BY Zenon, <1>22 DEF Relse, At
  <2>2. buf[p] \in Bufs
    BY Zenon, <1>9, <2>1
  <2>3. ref_cnt[buf[p]] # 0
    BY Zenon, <1>0, <2>2, Counted
  <2>4. ref_cnt[buf[p]] - 1 \in Nat
    BY <1>0, <1>1, <2>2, <2>3
  <2>5. BufType'
    BY Zenon, <1>0, <1>1, <2>1, <2>2, <2>4
  <2>6. ListType'
    BY Zenon, <1>0, <1>3, <2>1, <2>2, MoveKeepsList
  <2>7. ProcType'
    BY Zenon, <1>0, <1>1, <1>11, <1>22 DEF Relse
  <2> QED
    BY Zenon, <1>2, <1>5, <1>10, <2>1, <2>5, <2>6, <2>7
<1> QED
  BY Zenon, <1>13, <1>14, <1>15, <1>16, <1>17, <1>18, <1>19, <1>20, <1>21, <1>22 DEF Next, Step
-----------------------------------------------------------------------------
\* A step of p: the others keep what they have and own.
LEMMA HoldStep ==
  ASSUME HoldInv, NEW p \in Procs, Has(p)',
         \A q \in Procs \ {p} : /\ buf'[q] = buf[q] /\ outer'[q] = outer[q]
                                /\ pc'[q] = "idle" <=> pc[q] = "idle"
                                /\ pc'[q] \in Locked <=> pc[q] \in Locked,
         \A b \in Bufs : owner'[b] = p <=> Owns(p, b)',
         \A b \in Bufs : \A q \in Procs \ {p} : owner'[b] = q <=> owner[b] = q
  PROVE  HoldInv'
<1>1. ASSUME NEW q \in Procs PROVE Has(q)'
  <2>1. CASE q # p
    <3>1. Has(q) /\ q \in Procs \ {p}
      BY Zenon, <2>1 DEF HoldInv
    <3> QED
      BY Zenon, <3>1 DEF Has
  <2> QED
    BY Zenon, <2>1
<1>2. ASSUME NEW q \in Procs, NEW b \in Bufs PROVE owner'[b] = q <=> Owns(q, b)'
  <2>1. CASE q # p
    <3>1. q \in Procs \ {p} /\ (owner[b] = q <=> Owns(q, b))
      BY Zenon, <2>1 DEF HoldInv
    <3>2. Owns(q, b)' <=> Owns(q, b)
      BY Zenon, <3>1 DEF Owns
    <3> QED
      BY Zenon, <3>1, <3>2
  <2> QED
    BY Zenon, <2>1
<1> QED
  BY Zenon, <1>1, <1>2 DEF HoldInv

\* A step that takes and gives back no buffer.
LEMMA HoldStill ==
  ASSUME HoldInv, UNCHANGED <<buf, outer, owner>>,
         \A q \in Procs : /\ pc'[q] = "idle" <=> pc[q] = "idle"
                          /\ pc'[q] \in Locked <=> pc[q] \in Locked
  PROVE  HoldInv'
<1>1. ASSUME NEW q \in Procs PROVE Has(q)'
  <2>1. Has(q)
    BY Zenon DEF HoldInv
  <2> QED
    BY Zenon, <2>1 DEF Has
<1>2. ASSUME NEW q \in Procs, NEW b \in Bufs PROVE owner'[b] = q <=> Owns(q, b)'
  <2>1. owner[b] = q <=> Owns(q, b)
    BY Zenon DEF HoldInv
  <2>2. Owns(q, b)' <=> Owns(q, b)
    BY Zenon DEF Owns
  <2> QED
    BY Zenon, <2>1, <2>2
<1> QED
  BY Zenon, <1>1, <1>2 DEF HoldInv

\* bget() never finds the buffer its caller already has, as a block is not
\* taken inside itself.
LEMMA TakesAnother ==
  ASSUME CacheInv, NEW p \in Procs, NEW k \in Blocks, Calls(p, k), NEW b \in Bufs,
         blockno[b] = k \/ ref_cnt[b] = 0
  PROVE  /\ buf[p] # b /\ outer[p] = NONE
         /\ pc[p] \in {"idle", "use"} /\ (pc[p] = "idle" <=> buf[p] \notin Bufs)
<1>0. TypeOK /\ RefExact /\ HoldInv /\ NONE \notin Bufs
  BY DEF CacheInv, NONE, Bufs
<1>1. pc[p] = "idle" \/ (pc[p] = "use" /\ outer[p] = NONE /\ <<blockno[buf[p]], k>> \in Nesting)
  BY Zenon DEF Calls, At
<1>2. pc[p] = "idle" => buf[p] = NONE /\ outer[p] = NONE
  BY Zenon, <1>0 DEF HoldInv, Has
<1>3. pc[p] # "idle" => buf[p] \in Bufs
  BY Zenon, <1>0, InHand
<1>4. ref_cnt[b] = 0 => buf[p] # b
  BY Zenon, <1>0, Counted
<1>5. <<k, k>> \notin Nesting
  BY Zenon, BufAssumption
<1>6. buf[p] # b
  BY Zenon, <1>0, <1>1, <1>2, <1>4, <1>5
<1> QED
  BY Zenon, <1>0, <1>1, <1>2, <1>3, <1>6

\* Who has which buffer and which lock, over every step: bget() gives a buffer
\* that its caller does not have, acquire() and release() move its lock, relse()
\* returns to the outer buffer.
LEMMA KeepsHold ==
  ASSUME CacheInv, Next
  PROVE  HoldInv'
<1>0. TypeOK /\ ListInv /\ HoldInv /\ StageInv /\ NONE \notin Bufs /\ NoProc \notin Procs
  BY BufAssumption DEF CacheInv, NONE, Bufs
<1>1. /\ pc \in [Procs -> Points] /\ owner \in [Bufs -> Procs \cup {NoProc}]
      /\ buf \in [Procs -> Bufs \cup {NONE}] /\ outer \in [Procs -> Bufs \cup {NONE}]
  BY Zenon, <1>0 DEF TypeOK
<1>2. ASSUME NEW p \in Procs, NEW k \in Blocks, NEW b \in Bufs, Calls(p, k), Take(p, b),
             blockno[b] = k \/ ref_cnt[b] = 0, UNCHANGED owner
      PROVE  HoldInv'
  <2>1. /\ buf[p] # b /\ outer[p] = NONE
        /\ pc[p] \in {"idle", "use"} /\ (pc[p] = "idle" <=> buf[p] \notin Bufs)
    BY Zenon, <1>2, TakesAnother
  <2>2. /\ pc'[p] = "lock" /\ buf'[p] = b /\ outer'[p] = buf[p]
        /\ \A q \in Procs \ {p} : pc'[q] = pc[q] /\ buf'[q] = buf[q] /\ outer'[q] = outer[q]
    BY Zenon, <1>1, <1>2 DEF Take
  <2>3. Has(p)'
    BY Zenon, <2>1, <2>2 DEF Has
  <2>4. ASSUME NEW c \in Bufs PROVE owner'[c] = p <=> Owns(p, c)'
    <3>1. owner[c] = p <=> buf[p] = c /\ pc[p] \in Locked
      <4>1. owner[c] = p <=> Owns(p, c)
        BY Zenon, <1>0 DEF HoldInv
      <4> QED
        BY Zenon, <1>0, <2>1, <4>1 DEF Owns
    <3>2. Owns(p, c)' <=> buf[p] = c
      BY Zenon, <2>2 DEF Owns, Locked
    <3>3. buf[p] = c => pc[p] \in Locked
      BY Zenon, <2>1 DEF Locked
    <3> QED
      BY Zenon, <1>2, <3>1, <3>2, <3>3
  <2> QED
    BY Zenon, <1>0, <1>2, <2>2, <2>3, <2>4, HoldStep
<1>3. ASSUME NEW p \in Procs, NEW k \in Blocks, BgetHit(p, k) PROVE HoldInv'
  <2>1. Cached(k) \in Bufs /\ blockno[Cached(k)] = k
    BY Zenon, <1>0, <1>3, SearchFinds DEF BgetHit
  <2> QED
    BY Zenon, <1>2, <1>3, <2>1 DEF BgetHit
<1>4. ASSUME NEW p \in Procs, NEW k \in Blocks, BgetRecycles(p, k) PROVE HoldInv'
  <2>1. Victim \in Bufs /\ ref_cnt[Victim] = 0
    BY Zenon, <1>0, <1>4, SearchFinds DEF BgetRecycles
  <2> QED
    BY Zenon, <1>2, <1>4, <2>1 DEF BgetRecycles
<1>5. ASSUME NEW p \in Procs, Acquire(p) PROVE HoldInv'
  <2>1. pc[p] = "lock" /\ owner[buf[p]] = NoProc /\ owner' = [owner EXCEPT ![buf[p]] = p] /\ Goto(p, "read")
    BY Zenon, <1>5 DEF Acquire, At
  <2>2. buf[p] \in Bufs /\ outer[p] # buf[p]
    BY Zenon, <1>0, <2>1, InHand
  <2>3. /\ pc'[p] = "read" /\ buf' = buf /\ outer' = outer
        /\ \A q \in Procs \ {p} : pc'[q] = pc[q]
    BY Zenon, <1>1, <2>1 DEF Goto
  <2>4. owner'[buf[p]] = p /\ \A c \in Bufs : c # buf[p] => owner'[c] = owner[c]
    BY Zenon, <1>1, <2>1, <2>2
  <2>5. Has(p)'
    BY Zenon, <2>2, <2>3 DEF Has
  <2>6. ASSUME NEW c \in Bufs PROVE owner'[c] = p <=> Owns(p, c)'
    <3>1. owner[c] = p <=> outer[p] = c
      <4>1. owner[c] = p <=> Owns(p, c)
        BY Zenon, <1>0 DEF HoldInv
      <4> QED
        BY Zenon, <2>1, <4>1 DEF Owns, Locked
    <3>2. Owns(p, c)' <=> buf[p] = c \/ outer[p] = c
      BY Zenon, <2>3 DEF Owns, Locked
    <3> QED
      BY Zenon, <2>4, <3>1, <3>2
  <2>7. ASSUME NEW c \in Bufs, NEW q \in Procs \ {p} PROVE owner'[c] = q <=> owner[c] = q
    BY Zenon, <1>0, <2>1, <2>4
  <2> QED
    BY Zenon, <1>0, <2>3, <2>5, <2>6, <2>7, HoldStep
<1>6. ASSUME NEW p \in Procs, NEW point, Goto(p, point), UNCHANGED owner, pc[p] # "idle", point # "idle",
             pc[p] \in Locked <=> point \in Locked
      PROVE  HoldInv'
  <2>1. \A q \in Procs : pc'[q] = (IF q = p THEN point ELSE pc[q])
    BY Zenon, <1>1, <1>6 DEF Goto
  <2> QED
    BY Zenon, <1>0, <1>6, <2>1, HoldStill DEF Goto
<1>7. ASSUME NEW p \in Procs, AcquireSleeps(p) \/ Read(p) \/ Rdwr(p) \/ RdwrTest(p) PROVE HoldInv'
  <2>1. CASE AcquireSleeps(p)
    BY Zenon, <1>6, <2>1 DEF AcquireSleeps, At, Locked, bufs
  <2>2. CASE Read(p)
    <3>1. pc[p] = "read" /\ UNCHANGED owner /\ \E point \in {"use", "rdwr"} : Goto(p, point)
      BY Zenon, <2>2 DEF Read, At, bufs
    <3> QED
      BY Zenon, <1>6, <3>1 DEF Locked
  <2>3. CASE Rdwr(p)
    BY Zenon, <1>6, <2>3 DEF Rdwr, At, Locked, bufs
  <2>4. CASE RdwrTest(p)
    <3>1. pc[p] = "checkio" /\ UNCHANGED owner /\ \E point \in {"use", "io"} : Goto(p, point)
      BY Zenon, <2>4 DEF RdwrTest, At, bufs
    <3> QED
      BY Zenon, <1>6, <3>1 DEF Locked
  <2> QED
    BY Zenon, <1>7, <2>1, <2>2, <2>3, <2>4
<1>8. ASSUME Transfer PROVE HoldInv'
  BY Zenon, <1>0, <1>8, HoldStill DEF Transfer, procs
<1>9. ASSUME Interrupt PROVE HoldInv'
  <2>1. \A q \in Procs : pc'[q] = IF pc[q] = "io" /\ buf[q] = queue THEN "checkio" ELSE pc[q]
    BY Zenon, <1>0, <1>9 DEF Interrupt, Wake
  <2> QED
    BY Zenon, <1>0, <1>9, <2>1, HoldStill DEF Interrupt, Locked
<1>10. ASSUME NEW p \in Procs, NEW v \in Vals, Log(p, v) \/ Write(p, v) PROVE HoldInv'
  <2>1. CASE Log(p, v)
    BY Zenon, <1>0, <2>1, HoldStill DEF Log, procs
  <2>2. CASE Write(p, v)
    BY Zenon, <1>6, <2>2 DEF Write, At, Locked
  <2> QED
    BY Zenon, <1>10, <2>1, <2>2
<1>11. ASSUME NEW p \in Procs, Release(p) PROVE HoldInv'
  <2>1. pc[p] = "use" /\ owner' = [owner EXCEPT ![buf[p]] = NoProc] /\ buf' = buf /\ outer' = outer
    BY Zenon, <1>11 DEF Release, At
  <2>2. buf[p] \in Bufs /\ outer[p] # buf[p] /\ owner[buf[p]] = p
    BY Zenon, <1>0, <2>1, InHand DEF Locked
  <2>3. /\ pc'[p] = "relse"
        /\ \A q \in Procs \ {p} : pc'[q] = IF pc[q] = "asleep" /\ buf[q] = buf[p] THEN "lock" ELSE pc[q]
    BY Zenon, <1>11 DEF Release, WakeWaiters, Wake
  <2>4. owner'[buf[p]] = NoProc /\ \A c \in Bufs : c # buf[p] => owner'[c] = owner[c]
    BY Zenon, <1>1, <2>1, <2>2
  <2>5. Has(p)'
    BY Zenon, <2>1, <2>2, <2>3 DEF Has
  <2>6. ASSUME NEW c \in Bufs PROVE owner'[c] = p <=> Owns(p, c)'
    <3>1. owner[c] = p <=> buf[p] = c \/ outer[p] = c
      <4>1. owner[c] = p <=> Owns(p, c)
        BY Zenon, <1>0 DEF HoldInv
      <4> QED
        BY Zenon, <2>1, <4>1 DEF Owns, Locked
    <3>2. Owns(p, c)' <=> outer[p] = c
      BY Zenon, <2>1, <2>3 DEF Owns, Locked
    <3> QED
      BY Zenon, <1>0, <2>2, <2>4, <3>1, <3>2
  <2>7. ASSUME NEW c \in Bufs, NEW q \in Procs \ {p} PROVE owner'[c] = q <=> owner[c] = q
    BY Zenon, <1>0, <2>2, <2>4
  <2>8. ASSUME NEW q \in Procs \ {p}
        PROVE  /\ buf'[q] = buf[q] /\ outer'[q] = outer[q]
               /\ pc'[q] = "idle" <=> pc[q] = "idle"
               /\ pc'[q] \in Locked <=> pc[q] \in Locked
    BY Zenon, <2>1, <2>3 DEF Locked
  <2> QED
    BY Zenon, <1>0, <2>5, <2>6, <2>7, <2>8, HoldStep
<1>12. ASSUME NEW p \in Procs, Relse(p) PROVE HoldInv'
  <2>1. pc[p] = "relse" /\ owner' = owner
    BY Zenon, <1>12 DEF Relse, At
  <2>2. /\ pc'[p] = (IF outer[p] = NONE THEN "idle" ELSE "use")
        /\ buf'[p] = outer[p] /\ outer'[p] = NONE /\ outer[p] \in Bufs \cup {NONE}
        /\ \A q \in Procs \ {p} : pc'[q] = pc[q] /\ buf'[q] = buf[q] /\ outer'[q] = outer[q]
    BY Zenon, <1>1, <1>12 DEF Relse
  <2>3. Has(p)'
    BY Zenon, <1>0, <2>2 DEF Has
  <2>4. ASSUME NEW c \in Bufs PROVE owner'[c] = p <=> Owns(p, c)'
    <3>1. owner[c] = p <=> outer[p] = c
      <4>1. owner[c] = p <=> Owns(p, c)
        BY Zenon, <1>0 DEF HoldInv
      <4> QED
        BY Zenon, <2>1, <4>1 DEF Owns, Locked
    <3>2. Owns(p, c)' <=> outer[p] = c
      BY Zenon, <1>0, <2>2 DEF Owns, Locked
    <3> QED
      BY Zenon, <2>1, <3>1, <3>2
  <2> QED
    BY Zenon, <1>0, <2>1, <2>2, <2>3, <2>4, HoldStep
<1> QED
  BY Zenon, <1>3, <1>4, <1>5, <1>7, <1>8, <1>9, <1>10, <1>11, <1>12 DEF Next, Step
-----------------------------------------------------------------------------
\* The flags of the buffers a process owns change by its own steps.
LEMMA StageStill ==
  ASSUME StageInv, NEW q \in Procs, buf'[q] = buf[q], outer'[q] = outer[q],
         pc'[q] = pc[q] \/ pc'[q] \in {"idle", "lock", "asleep", "read", "relse"},
         pc[q] \in Locked => flags'[buf[q]] = flags[buf[q]],
         outer[q] # NONE => flags'[outer[q]] = flags[outer[q]]
  PROVE  Stage(q)'
<1>1. Stage(q)
  BY Zenon DEF StageInv
<1>2. CASE pc'[q] = pc[q]
  <2>1. pc[q] \in {"use", "rdwr", "io", "checkio"} => pc[q] \in Locked
    BY Zenon DEF Locked
  <2> QED
    BY Zenon, <1>1, <1>2, <2>1 DEF Stage
<1>3. CASE pc'[q] \in {"idle", "lock", "asleep", "read", "relse"}
  BY Zenon, <1>1, <1>3 DEF Stage
<1> QED
  BY Zenon, <1>2, <1>3

\* How far the buffers of a process are, over every step: the flags of a locked
\* buffer change only by its owner and by the interrupt it waits for.
LEMMA KeepsStage ==
  ASSUME CacheInv, Next
  PROVE  StageInv'
<1>0. TypeOK /\ ListInv /\ RefExact /\ HoldInv /\ StageInv /\ BlockInv /\ NONE \notin Bufs
  BY DEF CacheInv, NONE, Bufs
<1>1. /\ pc \in [Procs -> Points] /\ flags \in [Bufs -> SUBSET {"VALID", "DIRTY"}]
      /\ buf \in [Procs -> Bufs \cup {NONE}] /\ outer \in [Procs -> Bufs \cup {NONE}]
  BY Zenon, <1>0 DEF TypeOK
<1>2. ASSUME UNCHANGED flags, NEW q \in Procs, buf'[q] = buf[q], outer'[q] = outer[q],
             pc'[q] = pc[q] \/ pc'[q] \in {"idle", "lock", "asleep", "read", "relse"}
      PROVE  Stage(q)'
  BY Zenon, <1>0, <1>2, StageStill
<1>3. ASSUME NEW p \in Procs, NEW q \in Procs \ {p}, NEW b \in Bufs, Owns(p, b)
      PROVE  /\ pc[q] \in Locked => buf[q] # b
             /\ outer[q] # b
  <2>1. ~Owns(q, b)
    BY Zenon, <1>0, <1>3, OneOwner
  <2> QED
    BY Zenon, <2>1 DEF Owns
<1>4. ASSUME NEW p \in Procs, NEW k \in Blocks, NEW b \in Bufs, Calls(p, k), Take(p, b),
             blockno[b] = k \/ ref_cnt[b] = 0,
             \A c \in Bufs : flags'[c] = flags[c] \/ (c = b /\ ref_cnt[b] = 0)
      PROVE  StageInv'
  <2>1. buf[p] # b /\ outer[p] = NONE /\ pc[p] \in {"idle", "use"} /\ (pc[p] = "idle" <=> buf[p] \notin Bufs)
    BY Zenon, <1>4, TakesAnother
  <2>2. /\ pc'[p] = "lock" /\ buf'[p] = b /\ outer'[p] = buf[p]
        /\ \A q \in Procs \ {p} : pc'[q] = pc[q] /\ buf'[q] = buf[q] /\ outer'[q] = outer[q]
    BY Zenon, <1>1, <1>4 DEF Take
  <2>3. Stage(p)'
    <3>1. buf[p] # NONE => buf[p] \in Bufs /\ pc[p] = "use"
      BY Zenon, <1>1, <2>1
    <3>2. buf[p] # NONE => "VALID" \in flags[buf[p]]
      BY Zenon, <1>0, <3>1 DEF StageInv, Stage
    <3>3. buf[p] # NONE => "VALID" \in flags'[buf[p]]
      BY Zenon, <1>4, <2>1, <3>1, <3>2
    <3> QED
      BY Zenon, <2>2, <3>3 DEF Stage
  <2>4. ASSUME NEW q \in Procs \ {p} PROVE Stage(q)'
    <3>1. pc[q] \in Locked => buf[q] \in Bufs
      BY Zenon, <1>0, InHand DEF Locked
    <3>2. outer[q] # NONE => outer[q] \in Bufs
      BY Zenon, <1>1
    <3>3. ref_cnt[b] = 0 => buf[q] # b /\ outer[q] # b
      BY Zenon, <1>0, Counted
    <3>4. (pc[q] \in Locked => flags'[buf[q]] = flags[buf[q]]) /\ (outer[q] # NONE => flags'[outer[q]] = flags[outer[q]])
      BY Zenon, <1>4, <3>1, <3>2, <3>3
    <3> QED
      BY Zenon, <1>0, <2>2, <3>4, StageStill
  <2> QED
    BY Zenon, <2>3, <2>4 DEF StageInv
<1>5. ASSUME NEW p \in Procs, NEW k \in Blocks, BgetHit(p, k) PROVE StageInv'
  <2>1. Cached(k) \in Bufs /\ blockno[Cached(k)] = k
    BY Zenon, <1>0, <1>5, SearchFinds DEF BgetHit
  <2> QED
    BY Zenon, <1>4, <1>5, <2>1 DEF BgetHit
<1>6. ASSUME NEW p \in Procs, NEW k \in Blocks, BgetRecycles(p, k) PROVE StageInv'
  <2>1. Victim \in Bufs /\ ref_cnt[Victim] = 0
    BY Zenon, <1>0, <1>6, SearchFinds DEF BgetRecycles
  <2>2. \A c \in Bufs : flags'[c] = flags[c] \/ c = Victim
    BY Zenon, <1>1, <1>6 DEF BgetRecycles
  <2> QED
    BY Zenon, <1>4, <1>6, <2>1, <2>2 DEF BgetRecycles
<1>7. ASSUME NEW p \in Procs, NEW point, Goto(p, point), UNCHANGED flags, Stage(p)' PROVE StageInv'
  <2>1. \A q \in Procs \ {p} : pc'[q] = pc[q] /\ buf'[q] = buf[q] /\ outer'[q] = outer[q]
    BY Zenon, <1>1, <1>7 DEF Goto
  <2>2. ASSUME NEW q \in Procs \ {p} PROVE Stage(q)'
    BY Zenon, <1>2, <1>7, <2>1
  <2> QED
    BY Zenon, <1>7, <2>2 DEF StageInv
<1>8. ASSUME NEW p \in Procs, NEW point, Goto(p, point), UNCHANGED flags
      PROVE  pc'[p] = point /\ buf'[p] = buf[p] /\ outer'[p] = outer[p]
  BY Zenon, <1>1, <1>8 DEF Goto
<1>9. ASSUME NEW p \in Procs, Acquire(p) \/ AcquireSleeps(p) PROVE StageInv'
  <2>1. UNCHANGED flags /\ \E point \in {"read", "asleep"} : Goto(p, point)
    BY Zenon, <1>9 DEF Acquire, AcquireSleeps, bufs
  <2> QED
    BY Zenon, <1>2, <1>7, <1>8, <2>1
<1>10. ASSUME NEW p \in Procs, Read(p) PROVE StageInv'
  <2>1. UNCHANGED flags /\ Goto(p, IF "VALID" \in flags[buf[p]] THEN "use" ELSE "rdwr")
    BY Zenon, <1>10 DEF Read, bufs
  <2>2. pc'[p] = (IF "VALID" \in flags[buf[p]] THEN "use" ELSE "rdwr") /\ buf'[p] = buf[p] /\ outer'[p] = outer[p]
    BY Zenon, <1>8, <2>1
  <2>3. outer[p] # NONE => "VALID" \in flags[outer[p]]
    BY Zenon, <1>0 DEF StageInv, Stage
  <2>4. "VALID" \notin flags[buf[p]] => flags[buf[p]] # {"VALID"}
    BY Zenon
  <2>5. Stage(p)'
    BY Zenon, <2>1, <2>2, <2>3, <2>4 DEF Stage
  <2> QED
    BY Zenon, <1>7, <2>1, <2>5
<1>11. ASSUME NEW p \in Procs, Rdwr(p) PROVE StageInv'
  <2>1. UNCHANGED flags /\ Goto(p, "io") /\ pc[p] = "rdwr"
    BY Zenon, <1>11 DEF Rdwr, At, bufs
  <2>2. pc'[p] = "io" /\ buf'[p] = buf[p] /\ outer'[p] = outer[p]
    BY Zenon, <1>8, <2>1
  <2>3. Stage(p)
    BY Zenon, <1>0 DEF StageInv
  <2>4. Stage(p)'
    BY Zenon, <2>1, <2>2, <2>3 DEF Stage
  <2> QED
    BY Zenon, <1>7, <2>1, <2>4
<1>12. ASSUME NEW p \in Procs, RdwrTest(p) PROVE StageInv'
  <2>1. UNCHANGED flags /\ Goto(p, IF flags[buf[p]] = {"VALID"} THEN "use" ELSE "io") /\ pc[p] = "checkio"
    BY Zenon, <1>12 DEF RdwrTest, At, bufs
  <2>2. Stage(p)
    BY Zenon, <1>0 DEF StageInv
  <2>3. flags[buf[p]] = {"VALID"} /\ "VALID" \in flags[buf[p]]
    BY Zenon, <2>1, <2>2 DEF Stage
  <2>4. pc'[p] = "use" /\ buf'[p] = buf[p] /\ outer'[p] = outer[p]
    BY Zenon, <1>8, <2>1, <2>3
  <2>5. Stage(p)'
    BY Zenon, <2>1, <2>2, <2>3, <2>4 DEF Stage
  <2> QED
    BY Zenon, <1>7, <2>1, <2>5
<1>13. ASSUME Transfer PROVE StageInv'
  BY Zenon, <1>0, <1>13 DEF Transfer, procs, StageInv, Stage
<1>14. ASSUME Interrupt PROVE StageInv'
  <2>1. /\ \A q \in Procs : pc'[q] = IF pc[q] = "io" /\ buf[q] = queue THEN "checkio" ELSE pc[q]
        /\ flags' = [flags EXCEPT ![queue] = {"VALID"}] /\ buf' = buf /\ outer' = outer
    BY Zenon, <1>14, BufAssumption DEF Interrupt, Wake
  <2>2. PICK p \in Procs : pc[p] = "io" /\ buf[p] = queue /\ queue \in Bufs
    BY Zenon, <1>14, DriveWorks DEF Interrupt, CacheInv, DriveInv
  <2>3. Owns(p, queue)
    BY Zenon, <2>2 DEF Owns, Locked
  <2>4. flags'[queue] = {"VALID"} /\ \A c \in Bufs : c # queue => flags'[c] = flags[c]
    BY Zenon, <1>1, <2>1, <2>2
  <2>5. ASSUME NEW q \in Procs \ {p} PROVE Stage(q)'
    <3>1. (pc[q] \in Locked => buf[q] # queue) /\ outer[q] # queue
      BY Zenon, <1>3, <2>2, <2>3
    <3>2. pc[q] \in Locked => buf[q] \in Bufs
      BY Zenon, <1>0, InHand DEF Locked
    <3>3. outer[q] # NONE => outer[q] \in Bufs
      BY Zenon, <1>1
    <3>4. pc[q] = "io" => pc[q] \in Locked
      BY Zenon DEF Locked
    <3>5. pc'[q] = pc[q]
      BY Zenon, <2>1, <3>1, <3>4
    <3> QED
      BY Zenon, <1>0, <2>1, <2>4, <3>1, <3>2, <3>3, <3>5, StageStill
  <2>6. Stage(p)'
    <3>1. pc'[p] = "checkio" /\ buf'[p] = queue /\ outer'[p] = outer[p]
      BY Zenon, <2>1, <2>2
    <3>2. outer[p] # queue /\ (outer[p] # NONE => outer[p] \in Bufs /\ "VALID" \in flags[outer[p]])
      BY Zenon, <1>0, <1>1, <2>2, InHand DEF StageInv, Stage
    <3> QED
      BY Zenon, <2>4, <3>1, <3>2 DEF Stage
  <2> QED
    BY Zenon, <2>5, <2>6 DEF StageInv
<1>15. ASSUME NEW p \in Procs, pc[p] = "use", flags' = [flags EXCEPT ![buf[p]] = @ \cup {"DIRTY"}],
              UNCHANGED <<buf, outer>>, pc' = pc \/ pc' = [pc EXCEPT ![p] = "rdwr"]
       PROVE  StageInv'
  <2>1. buf[p] \in Bufs /\ outer[p] # buf[p] /\ Owns(p, buf[p])
    BY Zenon, <1>0, <1>15, InHand DEF Owns, Locked
  <2>2. flags'[buf[p]] = flags[buf[p]] \cup {"DIRTY"} /\ \A c \in Bufs : c # buf[p] => flags'[c] = flags[c]
    BY Zenon, <1>1, <1>15, <2>1
  <2>3. pc'[p] \in {"use", "rdwr"} /\ \A q \in Procs \ {p} : pc'[q] = pc[q]
    BY Zenon, <1>1, <1>15
  <2>4. ASSUME NEW q \in Procs \ {p} PROVE Stage(q)'
    <3>1. (pc[q] \in Locked => buf[q] # buf[p]) /\ outer[q] # buf[p]
      BY Zenon, <1>3, <2>1
    <3>2. pc[q] \in Locked => buf[q] \in Bufs
      BY Zenon, <1>0, InHand DEF Locked
    <3>3. outer[q] # NONE => outer[q] \in Bufs
      BY Zenon, <1>1
    <3> QED
      BY Zenon, <1>0, <1>15, <2>2, <2>3, <3>1, <3>2, <3>3, StageStill
  <2>5. Stage(p)'
    <3>1. "VALID" \in flags[buf[p]] /\ (outer[p] # NONE => outer[p] \in Bufs /\ "VALID" \in flags[outer[p]])
      BY Zenon, <1>0, <1>1, <1>15 DEF StageInv, Stage
    <3>2. "VALID" \in flags'[buf[p]] /\ "DIRTY" \in flags'[buf[p]]
      BY Zenon, <2>2, <3>1
    <3>3. flags'[buf[p]] # {"VALID"}
      BY <3>2
    <3> QED
      BY Zenon, <1>15, <2>1, <2>2, <2>3, <3>1, <3>2, <3>3 DEF Stage
  <2> QED
    BY Zenon, <2>4, <2>5 DEF StageInv
<1>16. ASSUME NEW p \in Procs, NEW v \in Vals, Log(p, v) \/ Write(p, v) PROVE StageInv'
  BY Zenon, <1>15, <1>16 DEF Log, Write, At, Goto, procs
<1>17. ASSUME NEW p \in Procs, Release(p) PROVE StageInv'
  <2>1. /\ UNCHANGED flags /\ buf' = buf /\ outer' = outer
        /\ \A q \in Procs : pc'[q] = pc[q] \/ pc'[q] \in {"relse", "lock"}
    BY Zenon, <1>17 DEF Release, WakeWaiters, Wake
  <2> QED
    BY Zenon, <1>2, <2>1 DEF StageInv
<1>18. ASSUME NEW p \in Procs, Relse(p) PROVE StageInv'
  <2>1. /\ pc'[p] = (IF outer[p] = NONE THEN "idle" ELSE "use") /\ UNCHANGED flags
        /\ buf'[p] = outer[p] /\ outer'[p] = NONE
        /\ \A q \in Procs \ {p} : pc'[q] = pc[q] /\ buf'[q] = buf[q] /\ outer'[q] = outer[q]
    BY Zenon, <1>1, <1>18 DEF Relse
  <2>2. outer[p] # NONE => "VALID" \in flags[outer[p]]
    BY Zenon, <1>0 DEF StageInv, Stage
  <2>3. Stage(p)'
    BY Zenon, <2>1, <2>2 DEF Stage
  <2>4. ASSUME NEW q \in Procs \ {p} PROVE Stage(q)'
    BY Zenon, <1>2, <2>1
  <2> QED
    BY Zenon, <2>3, <2>4 DEF StageInv
<1> QED
  BY Zenon, <1>5, <1>6, <1>9, <1>10, <1>11, <1>12, <1>13, <1>14, <1>16, <1>17, <1>18 DEF Next, Step
-----------------------------------------------------------------------------
\* A step that changes no buffer's block, flags or data, and not the disk.
LEMMA BlockStill ==
  ASSUME BlockInv, UNCHANGED <<blockno, flags, data, disk>>,
         \A b \in Bufs : ref_cnt'[b] # 0 => ref_cnt[b] # 0 \/ blockno[b] \in Blocks
  PROVE  BlockInv'
<1>1. blockno' = blockno /\ flags' = flags /\ data' = data /\ disk' = disk
  BY Zenon
<1>2. /\ \A b \in Bufs : flags[b] \in {{}, {"VALID"}, {"VALID", "DIRTY"}}
      /\ \A b \in Bufs : ref_cnt[b] # 0 \/ flags[b] # {} => blockno[b] \in Blocks
      /\ \A b, c \in Bufs : blockno[b] = blockno[c] /\ blockno[b] # NoBlock => b = c
      /\ \A b \in Bufs : flags[b] = {"VALID"} => data[b] = disk[blockno[b]]
  BY Zenon DEF BlockInv
<1>3. ASSUME NEW b \in Bufs, ref_cnt'[b] # 0 \/ flags[b] # {} PROVE blockno[b] \in Blocks
  BY Zenon, <1>2, <1>3
<1> QED
  BY Zenon, <1>1, <1>2, <1>3 DEF BlockInv

\* A block keeps one buffer, as bget() recycles only when the block has none,
\* and a clean buffer stays what the disk holds.
LEMMA KeepsBlocks ==
  ASSUME CacheInv, Next
  PROVE  BlockInv'
<1>0. TypeOK /\ ListInv /\ RefExact /\ HoldInv /\ StageInv /\ BlockInv /\ DriveInv
  BY Zenon DEF CacheInv
<1>1. /\ blockno \in [Bufs -> Blocks \cup {NoBlock}]
      /\ flags \in [Bufs -> SUBSET {"VALID", "DIRTY"}]
      /\ ref_cnt \in [Bufs -> Nat] /\ data \in [Bufs -> Vals] /\ disk \in [Blocks -> Vals]
  BY Zenon, <1>0 DEF TypeOK
<1>2. /\ \A b \in Bufs : flags[b] \in {{}, {"VALID"}, {"VALID", "DIRTY"}}
      /\ \A b \in Bufs : ref_cnt[b] # 0 \/ flags[b] # {} => blockno[b] \in Blocks
      /\ \A b, c \in Bufs : blockno[b] = blockno[c] /\ blockno[b] # NoBlock => b = c
      /\ \A b \in Bufs : flags[b] = {"VALID"} => data[b] = disk[blockno[b]]
  BY Zenon, <1>0 DEF BlockInv
<1>3. NoBlock \notin Blocks
  BY Zenon, BufAssumption
<1>4. ASSUME NEW p \in Procs, NEW k \in Blocks, BgetHit(p, k) PROVE BlockInv'
  <2>1. Cached(k) \in Bufs /\ blockno[Cached(k)] = k
    BY Zenon, <1>0, <1>4, SearchFinds DEF BgetHit
  <2>2. UNCHANGED <<blockno, flags, data, disk>> /\ ref_cnt' = [ref_cnt EXCEPT ![Cached(k)] = @ + 1]
    BY Zenon, <1>4 DEF BgetHit, Take, device
  <2>3. \A b \in Bufs : ref_cnt'[b] # 0 => ref_cnt[b] # 0 \/ blockno[b] \in Blocks
    BY Zenon, <1>1, <2>1, <2>2
  <2> QED
    BY Zenon, <1>0, <2>2, <2>3, BlockStill
<1>5. ASSUME NEW p \in Procs, NEW k \in Blocks, BgetRecycles(p, k) PROVE BlockInv'
  <2>1. Victim \in Bufs /\ Cached(k) = NONE
    BY Zenon, <1>0, <1>5, SearchFinds DEF BgetRecycles
  <2>2. \A b \in Bufs : blockno[b] # k
    BY Zenon, <1>0, <2>1, SearchFinds
  <2>3. /\ blockno'[Victim] = k /\ flags'[Victim] = {} /\ data' = data /\ disk' = disk
        /\ \A b \in Bufs : b # Victim => blockno'[b] = blockno[b] /\ flags'[b] = flags[b] /\ ref_cnt'[b] = ref_cnt[b]
    BY Zenon, <1>1, <1>5, <2>1 DEF BgetRecycles, Take, device
  <2>4. ASSUME NEW b \in Bufs
        PROVE  /\ flags'[b] \in {{}, {"VALID"}, {"VALID", "DIRTY"}}
               /\ ref_cnt'[b] # 0 \/ flags'[b] # {} => blockno'[b] \in Blocks
               /\ flags'[b] = {"VALID"} => data'[b] = disk'[blockno'[b]]
    <3>1. CASE b = Victim
      BY Zenon, <2>3, <3>1
    <3>2. CASE b # Victim
      BY Zenon, <1>2, <2>3, <3>2
    <3> QED
      BY Zenon, <3>1, <3>2
  <2>5. ASSUME NEW b \in Bufs, NEW c \in Bufs, blockno'[b] = blockno'[c], blockno'[b] # NoBlock PROVE b = c
    <3>1. b = Victim /\ c # Victim => FALSE
      BY Zenon, <2>2, <2>3, <2>5
    <3>2. b # Victim /\ c = Victim => FALSE
      BY Zenon, <2>2, <2>3, <2>5
    <3>3. b # Victim /\ c # Victim => blockno[b] = blockno[c] /\ blockno[b] # NoBlock
      BY Zenon, <2>3, <2>5
    <3> QED
      BY Zenon, <1>2, <3>1, <3>2, <3>3
  <2> QED
    BY Zenon, <2>4, <2>5 DEF BlockInv
<1>6. ASSUME NEW p \in Procs,
             AcquireSleeps(p) \/ Acquire(p) \/ Read(p) \/ Rdwr(p) \/ RdwrTest(p) \/ Release(p)
      PROVE  BlockInv'
  <2>1. UNCHANGED <<blockno, flags, data, disk, ref_cnt>>
    BY Zenon, <1>6 DEF AcquireSleeps, Acquire, Read, Rdwr, RdwrTest, Release, bufs, device
  <2> QED
    BY Zenon, <1>0, <2>1, BlockStill
<1>7. ASSUME NEW p \in Procs, Relse(p) PROVE BlockInv'
  <2>1. UNCHANGED <<blockno, flags, data, disk>> /\ ref_cnt' = [ref_cnt EXCEPT ![buf[p]] = @ - 1] /\ pc[p] # "idle"
    BY Zenon, <1>7 DEF Relse, device, At
  <2>2. buf[p] \in Bufs
    BY Zenon, <1>0, <2>1, InHand
  <2>3. ref_cnt[buf[p]] # 0
    BY Zenon, <1>0, <2>2, Counted
  <2>4. \A b \in Bufs : ref_cnt'[b] # 0 => ref_cnt[b] # 0
    BY Zenon, <1>1, <2>1, <2>2, <2>3
  <2> QED
    BY Zenon, <1>0, <2>1, <2>4, BlockStill
<1>8. ASSUME Transfer PROVE BlockInv'
  <2>1. drive \in Bufs /\ blockno[drive] \in Blocks /\ \E p \in Procs : pc[p] = "io" /\ buf[p] = drive
    BY Zenon, <1>8, DriveWorks DEF Transfer
  <2>2. flags[drive] # {"VALID"}
    BY Zenon, <1>0, <2>1 DEF StageInv, Stage
  <2>3. UNCHANGED <<blockno, flags, ref_cnt>>
    BY Zenon, <1>8 DEF Transfer
  <2>4. ASSUME NEW b \in Bufs, flags[b] = {"VALID"} PROVE data'[b] = disk'[blockno[b]]
    <3>1. b # drive /\ data[b] = disk[blockno[b]] /\ blockno[b] \in Blocks
      <4>1. flags[b] # {}
        BY Zenon, <2>4
      <4> QED
        BY Zenon, <1>2, <2>2, <2>4, <4>1
    <3>2. blockno[b] # blockno[drive]
      BY Zenon, <1>2, <1>3, <2>1, <3>1
    <3>3. CASE "DIRTY" \in flags[drive]
      BY Zenon, <1>1, <1>8, <2>1, <3>1, <3>2, <3>3 DEF Transfer
    <3>4. CASE "DIRTY" \notin flags[drive]
      BY Zenon, <1>1, <1>8, <2>1, <3>1, <3>4 DEF Transfer
    <3> QED
      BY Zenon, <3>3, <3>4
  <2> QED
    BY Zenon, <1>2, <2>3, <2>4 DEF BlockInv
<1>9. ASSUME Interrupt PROVE BlockInv'
  <2>1. drive # NONE /\ drive = queue /\ data[drive] = disk[blockno[drive]]
    BY Zenon, <1>0, <1>9 DEF Interrupt, DriveInv
  <2>2. queue \in Bufs /\ blockno[queue] \in Blocks
    BY Zenon, <2>1, DriveWorks
  <2>3. /\ UNCHANGED <<blockno, data, disk, ref_cnt>>
        /\ flags'[queue] = {"VALID"} /\ \A b \in Bufs : b # queue => flags'[b] = flags[b]
    BY Zenon, <1>1, <1>9, <2>2 DEF Interrupt
  <2>4. ASSUME NEW b \in Bufs
        PROVE  /\ flags'[b] \in {{}, {"VALID"}, {"VALID", "DIRTY"}}
               /\ ref_cnt[b] # 0 \/ flags'[b] # {} => blockno[b] \in Blocks
               /\ flags'[b] = {"VALID"} => data[b] = disk[blockno[b]]
    <3>1. CASE b = queue
      BY Zenon, <2>1, <2>2, <2>3, <3>1
    <3>2. CASE b # queue
      BY Zenon, <1>2, <2>3, <3>2
    <3> QED
      BY Zenon, <3>1, <3>2
  <2> QED
    BY Zenon, <1>2, <2>3, <2>4 DEF BlockInv
<1>10. ASSUME NEW p \in Procs, NEW v \in Vals, Log(p, v) \/ Write(p, v) PROVE BlockInv'
  <2>1. /\ pc[p] = "use" /\ data' = [data EXCEPT ![buf[p]] = v]
        /\ flags' = [flags EXCEPT ![buf[p]] = @ \cup {"DIRTY"}]
        /\ UNCHANGED <<blockno, disk, ref_cnt>>
    BY Zenon, <1>10 DEF Log, Write, At, device
  <2>2. buf[p] \in Bufs /\ "VALID" \in flags[buf[p]]
    BY Zenon, <1>0, <2>1, InHand DEF StageInv, Stage
  <2>3. flags'[buf[p]] = flags[buf[p]] \cup {"DIRTY"}
        /\ \A b \in Bufs : b # buf[p] => flags'[b] = flags[b] /\ data'[b] = data[b]
    BY Zenon, <1>1, <2>1, <2>2
  <2>4. flags'[buf[p]] = {"VALID", "DIRTY"} /\ flags[buf[p]] # {} /\ flags'[buf[p]] # {"VALID"}
    <3>1. flags[buf[p]] \in SUBSET {"VALID", "DIRTY"}
      BY Zenon, <1>1, <2>2
    <3> QED
      BY <2>2, <2>3, <3>1
  <2>5. ASSUME NEW b \in Bufs
        PROVE  /\ flags'[b] \in {{}, {"VALID"}, {"VALID", "DIRTY"}}
               /\ ref_cnt[b] # 0 \/ flags'[b] # {} => blockno[b] \in Blocks
               /\ flags'[b] = {"VALID"} => data'[b] = disk[blockno[b]]
    <3>1. CASE b = buf[p]
      BY Zenon, <1>2, <2>2, <2>4, <3>1
    <3>2. CASE b # buf[p]
      BY Zenon, <1>2, <2>3, <3>2
    <3> QED
      BY Zenon, <3>1, <3>2
  <2> QED
    BY Zenon, <1>2, <2>1, <2>5 DEF BlockInv
<1> QED
  BY Zenon, <1>4, <1>5, <1>6, <1>7, <1>8, <1>9, <1>10 DEF Next, Step
-----------------------------------------------------------------------------
\* The drive works on the head of the queue, and nobody changes or recycles the
\* buffer of a command that is done before its interrupt.
LEMMA KeepsDrive ==
  ASSUME CacheInv, Next
  PROVE  DriveInv'
<1>0. TypeOK /\ ListInv /\ RefExact /\ HoldInv /\ DriveInv
  BY Zenon DEF CacheInv
<1>1. /\ blockno \in [Bufs -> Blocks \cup {NoBlock}] /\ data \in [Bufs -> Vals]
      /\ disk \in [Blocks -> Vals]
  BY Zenon, <1>0 DEF TypeOK
<1>2. drive = queue /\ (irq => drive # NONE /\ data[drive] = disk[blockno[drive]])
  BY Zenon, <1>0 DEF DriveInv
<1>3. drive # NONE => drive \in Bufs /\ \E p \in Procs : pc[p] = "io" /\ buf[p] = drive
  BY Zenon, DriveWorks
<1>4. ASSUME UNCHANGED <<queue, drive, irq, disk>>,
             drive # NONE => blockno'[drive] = blockno[drive] /\ data'[drive] = data[drive]
      PROVE  DriveInv'
  BY Zenon, <1>2, <1>4 DEF DriveInv
<1>5. ASSUME UNCHANGED <<device, blockno, data>> PROVE DriveInv'
  BY Zenon, <1>4, <1>5 DEF device
<1>6. ASSUME NEW p \in Procs, NEW k \in Blocks, BgetHit(p, k) PROVE DriveInv'
  BY Zenon, <1>5, <1>6 DEF BgetHit
<1>7. ASSUME NEW p \in Procs, NEW k \in Blocks, BgetRecycles(p, k) PROVE DriveInv'
  <2>1. Victim \in Bufs /\ ref_cnt[Victim] = 0
    BY Zenon, <1>0, <1>7, SearchFinds DEF BgetRecycles
  <2>2. drive # NONE => drive # Victim
    BY Zenon, <1>0, <1>3, <2>1, Counted
  <2>3. UNCHANGED <<queue, drive, irq, disk>> /\ data' = data /\ blockno' = [blockno EXCEPT ![Victim] = k]
    BY Zenon, <1>7 DEF BgetRecycles, device
  <2> QED
    BY Zenon, <1>1, <1>3, <1>4, <2>2, <2>3
<1>8. ASSUME NEW p \in Procs,
             AcquireSleeps(p) \/ Acquire(p) \/ Read(p) \/ RdwrTest(p) \/ Release(p) \/ Relse(p)
      PROVE  DriveInv'
  BY Zenon, <1>5, <1>8 DEF AcquireSleeps, Acquire, Read, RdwrTest, Release, Relse, bufs
<1>9. ASSUME NEW p \in Procs, Rdwr(p) PROVE DriveInv'
  <2>1. /\ IF queue = NONE THEN queue' = buf[p] /\ drive' = buf[p] ELSE queue' = queue /\ drive' = drive
        /\ UNCHANGED <<blockno, data, irq, disk>>
    BY Zenon, <1>9 DEF Rdwr, bufs
  <2>2. CASE queue = NONE
    BY Zenon, <1>2, <2>1, <2>2 DEF DriveInv
  <2>3. CASE queue # NONE
    BY Zenon, <1>4, <2>1, <2>3
  <2> QED
    BY Zenon, <2>2, <2>3
<1>10. ASSUME Transfer PROVE DriveInv'
  <2>1. drive \in Bufs /\ blockno[drive] \in Blocks
    BY Zenon, <1>10, DriveWorks DEF Transfer
  <2>2. UNCHANGED <<blockno, queue, drive>> /\ drive # NONE
    BY Zenon, <1>10 DEF Transfer
  <2>3. data'[drive] = disk'[blockno[drive]]
    <3>1. CASE "DIRTY" \in flags[drive]
      BY Zenon, <1>1, <1>10, <2>1, <3>1 DEF Transfer
    <3>2. CASE "DIRTY" \notin flags[drive]
      BY Zenon, <1>1, <1>10, <2>1, <3>2 DEF Transfer
    <3> QED
      BY Zenon, <3>1, <3>2
  <2> QED
    BY Zenon, <1>2, <2>2, <2>3 DEF DriveInv
<1>11. ASSUME Interrupt PROVE DriveInv'
  BY Zenon, <1>11 DEF Interrupt, StartNext, DriveInv
<1>12. ASSUME NEW p \in Procs, NEW v \in Vals, Log(p, v) \/ Write(p, v) PROVE DriveInv'
  <2>1. /\ pc[p] = "use" /\ data' = [data EXCEPT ![buf[p]] = v]
        /\ UNCHANGED <<queue, drive, irq, disk, blockno>>
    BY Zenon, <1>12 DEF Log, Write, At, device
  <2>2. drive # NONE => drive # buf[p]
    <3> SUFFICES ASSUME drive # NONE, drive = buf[p] PROVE FALSE
      BY Zenon
    <3>1. PICK q \in Procs : pc[q] = "io" /\ buf[q] = drive /\ drive \in Bufs
      BY Zenon, <1>3
    <3>2. Owns(p, drive) /\ Owns(q, drive)
      BY Zenon, <2>1, <3>1 DEF Owns, Locked
    <3>3. p = q
      BY Zenon, <1>0, <3>1, <3>2, OneOwner
    <3> QED
      BY Zenon, <2>1, <3>1, <3>3
  <2> QED
    BY Zenon, <1>1, <1>3, <1>4, <2>1, <2>2
<1> QED
  BY Zenon, <1>6, <1>7, <1>8, <1>9, <1>10, <1>11, <1>12 DEF Next, Step

\* The queue holds the buffers that are waited for: rdwr() appends the one it
\* waits for, sd::interrupt drops the head and wakes its process.
LEMMA KeepsQueue ==
  ASSUME CacheInv, Next
  PROVE  QueueInv'
<1>0. TypeOK /\ QueueInv /\ HoldInv /\ StageInv
  BY Zenon DEF CacheInv
<1>1. /\ pc \in [Procs -> Points]
      /\ buf \in [Procs -> Bufs \cup {NONE}] /\ outer \in [Procs -> Bufs \cup {NONE}]
  BY Zenon, <1>0 DEF TypeOK
<1>2. ASSUME UNCHANGED <<queue, qnext>>,
             \A q \in Procs : (pc'[q] = "io" <=> pc[q] = "io") /\ (pc[q] = "io" => buf'[q] = buf[q])
      PROVE  QueueInv'
  <2>1. ASSUME NEW b \in Bufs PROVE Waited(b)' <=> Waited(b)
    BY Zenon, <1>2 DEF Waited
  <2> QED
    BY Zenon, <1>0, <1>2, <2>1, QueueStill
<1>3. ASSUME NEW p \in Procs, UNCHANGED <<queue, qnext>>, pc[p] # "io", pc'[p] # "io",
             \A q \in Procs \ {p} : /\ pc'[q] = pc[q] \/ (pc[q] = "asleep" /\ pc'[q] = "lock")
                                    /\ buf'[q] = buf[q]
      PROVE  QueueInv'
  <2>1. ASSUME NEW q \in Procs
        PROVE  (pc'[q] = "io" <=> pc[q] = "io") /\ (pc[q] = "io" => buf'[q] = buf[q])
    <3>1. CASE q = p
      BY Zenon, <1>3, <3>1
    <3>2. CASE q # p
      BY Zenon, <1>3, <3>2
    <3> QED
      BY Zenon, <3>1, <3>2
  <2> QED
    BY Zenon, <1>2, <1>3, <2>1
<1>4. ASSUME NEW p \in Procs, NEW k \in Blocks, BgetHit(p, k) \/ BgetRecycles(p, k) PROVE QueueInv'
  <2>1. /\ UNCHANGED <<queue, qnext>> /\ pc[p] # "io"
        /\ pc' = [pc EXCEPT ![p] = "lock"] /\ \E b : buf' = [buf EXCEPT ![p] = b]
    BY Zenon, <1>4 DEF BgetHit, BgetRecycles, Take, Calls, At, device
  <2>2. pc'[p] # "io" /\ \A q \in Procs \ {p} : pc'[q] = pc[q] /\ buf'[q] = buf[q]
    BY Zenon, <1>1, <2>1
  <2> QED
    BY Zenon, <1>3, <2>1, <2>2
<1>5. ASSUME NEW p \in Procs, NEW point, Goto(p, point), pc[p] # "io", point # "io", UNCHANGED device
      PROVE  QueueInv'
  <2>1. pc'[p] = point /\ \A q \in Procs \ {p} : pc'[q] = pc[q] /\ buf'[q] = buf[q]
    BY Zenon, <1>1, <1>5 DEF Goto
  <2> QED
    BY Zenon, <1>3, <1>5, <2>1 DEF device
<1>6. ASSUME NEW p \in Procs, AcquireSleeps(p) \/ Acquire(p) \/ Read(p) PROVE QueueInv'
  <2>1. pc[p] # "io" /\ UNCHANGED device /\ \E point \in {"asleep", "read", "use", "rdwr"} : Goto(p, point)
    BY Zenon, <1>6 DEF AcquireSleeps, Acquire, Read, At
  <2> QED
    BY Zenon, <1>5, <2>1
<1>7. ASSUME NEW p \in Procs, RdwrTest(p) PROVE QueueInv'
  <2>1. pc[p] = "checkio"
    BY Zenon, <1>7 DEF RdwrTest, At
  <2>2. flags[buf[p]] = {"VALID"}
    BY Zenon, <1>0, <2>1 DEF StageInv, Stage
  <2> QED
    BY Zenon, <1>5, <1>7, <2>1, <2>2 DEF RdwrTest
<1>8. ASSUME NEW p \in Procs, Rdwr(p) PROVE QueueInv'
  <2>1. /\ pc[p] = "rdwr" /\ Goto(p, "io")
        /\ IF queue = NONE THEN queue' = buf[p] /\ qnext' = [qnext EXCEPT ![buf[p]] = NONE]
                           ELSE queue' = queue /\ qnext' = Enqueue(buf[p])
    BY Zenon, <1>8 DEF Rdwr, At
  <2>2. buf[p] \in Bufs
    BY Zenon, <1>0, <2>1, InHand
  <2>3. ~Waited(buf[p])
    <3> SUFFICES ASSUME NEW q \in Procs, pc[q] = "io", buf[q] = buf[p] PROVE FALSE
      BY Zenon DEF Waited
    <3>1. Owns(p, buf[p]) /\ Owns(q, buf[p])
      BY Zenon, <2>1 DEF Owns, Locked
    <3>2. p = q
      BY Zenon, <1>0, <2>2, <3>1, OneOwner
    <3> QED
      BY Zenon, <2>1, <3>2
  <2>4. buf' = buf /\ pc'[p] = "io" /\ \A q \in Procs \ {p} : pc'[q] = pc[q]
    BY Zenon, <1>1, <2>1 DEF Goto
  <2>5. ASSUME NEW c \in Bufs PROVE Waited(c)' <=> Waited(c) \/ c = buf[p]
    <3>1. ASSUME Waited(c)' PROVE Waited(c) \/ c = buf[p]
      <4>1. PICK q \in Procs : pc'[q] = "io" /\ buf'[q] = c
        BY Zenon, <3>1 DEF Waited
      <4> QED
        BY Zenon, <2>4, <4>1 DEF Waited
    <3>2. ASSUME Waited(c) PROVE Waited(c)'
      <4>1. PICK q \in Procs : pc[q] = "io" /\ buf[q] = c
        BY Zenon, <3>2 DEF Waited
      <4>2. pc'[q] = "io" /\ buf'[q] = c
        BY Zenon, <2>4, <4>1
      <4> QED
        BY Zenon, <4>2 DEF Waited
    <3>3. c = buf[p] => Waited(c)'
      BY Zenon, <2>4 DEF Waited
    <3> QED
      BY Zenon, <3>1, <3>2, <3>3
  <2> QED
    BY Zenon, <1>0, <2>1, <2>2, <2>3, <2>5, QueueAppend
<1>9. ASSUME Transfer PROVE QueueInv'
  BY Zenon, <1>2, <1>9 DEF Transfer, procs
<1>10. ASSUME Interrupt PROVE QueueInv'
  <2>1. /\ \A q \in Procs : pc'[q] = IF pc[q] = "io" /\ buf[q] = queue THEN "checkio" ELSE pc[q]
        /\ queue' = qnext[queue] /\ qnext' = qnext /\ buf' = buf
    BY Zenon, <1>10, BufAssumption DEF Interrupt, Wake
  <2>2. queue # NONE
    BY Zenon, <1>10 DEF Interrupt, CacheInv, DriveInv
  <2>3. ASSUME NEW q \in Procs PROVE pc'[q] = "io" <=> pc[q] = "io" /\ buf[q] # queue
    BY Zenon, <2>1
  <2>4. ASSUME NEW c \in Bufs PROVE Waited(c)' <=> Waited(c) /\ c # queue
    BY Zenon, <2>1, <2>3 DEF Waited
  <2> QED
    BY Zenon, <1>0, <2>1, <2>2, <2>4, QueueDrop
<1>11. ASSUME NEW p \in Procs, NEW v \in Vals, Log(p, v) \/ Write(p, v) PROVE QueueInv'
  <2>1. CASE Log(p, v)
    BY Zenon, <1>2, <2>1 DEF Log, procs, device
  <2>2. CASE Write(p, v)
    BY Zenon, <1>5, <2>2 DEF Write, At
  <2> QED
    BY Zenon, <1>11, <2>1, <2>2
<1>12. ASSUME NEW p \in Procs, Release(p) PROVE QueueInv'
  <2>1. /\ UNCHANGED <<queue, qnext>> /\ buf' = buf /\ pc[p] # "io" /\ pc'[p] = "relse"
        /\ \A q \in Procs \ {p} : pc'[q] = IF pc[q] = "asleep" /\ buf[q] = buf[p] THEN "lock" ELSE pc[q]
    BY Zenon, <1>12 DEF Release, WakeWaiters, Wake, At, device
  <2>2. \A q \in Procs \ {p} : pc'[q] = pc[q] \/ (pc[q] = "asleep" /\ pc'[q] = "lock")
    BY Zenon, <2>1
  <2> QED
    BY Zenon, <1>3, <2>1, <2>2
<1>13. ASSUME NEW p \in Procs, Relse(p) PROVE QueueInv'
  <2>1. /\ UNCHANGED <<queue, qnext>> /\ pc[p] # "io" /\ pc'[p] # "io"
        /\ \A q \in Procs \ {p} : pc'[q] = pc[q] /\ buf'[q] = buf[q]
    BY Zenon, <1>1, <1>13 DEF Relse, At, device
  <2> QED
    BY Zenon, <1>3, <2>1
<1> QED
  BY Zenon, <1>4, <1>6, <1>7, <1>8, <1>9, <1>10, <1>11, <1>12, <1>13 DEF Next, Step
-----------------------------------------------------------------------------
\* The processes that have b.
Users(b) == {p \in Procs : buf[p] = b \/ outer[p] = b}

\* bget() counts its caller once, relse() takes it off: ref_cnt stays the number
\* of processes that have the buffer.
LEMMA KeepsCounts ==
  ASSUME CacheInv, Next
  PROVE  RefExact'
<1>0. TypeOK /\ ListInv /\ HoldInv /\ RefExact /\ NONE \notin Bufs /\ IsFiniteSet(Procs)
  BY BufAssumption DEF CacheInv, NONE, Bufs
<1>1. /\ ref_cnt \in [Bufs -> Nat]
      /\ buf \in [Procs -> Bufs \cup {NONE}] /\ outer \in [Procs -> Bufs \cup {NONE}]
  BY Zenon, <1>0 DEF TypeOK
<1>2. ASSUME NEW b \in Bufs
      PROVE  ref_cnt[b] = Cardinality(Users(b)) /\ IsFiniteSet(Users(b))
  <2>1. Users(b) \in SUBSET Procs
    BY Zenon DEF Users
  <2> QED
    BY Zenon, <1>0, <2>1, FS_Subset DEF RefExact, Users
<1>3. ASSUME \A b \in Bufs : ref_cnt'[b] = Cardinality(Users(b)') PROVE RefExact'
  BY Zenon, <1>3 DEF RefExact, Users
<1>4. ASSUME UNCHANGED <<ref_cnt, buf, outer>> PROVE RefExact'
  BY Zenon, <1>0, <1>4 DEF RefExact
<1>5. ASSUME NEW p \in Procs, NEW k \in Blocks, NEW b \in Bufs, Calls(p, k), Take(p, b),
             blockno[b] = k \/ ref_cnt[b] = 0
      PROVE  RefExact'
  <2>1. buf[p] # b /\ outer[p] = NONE
    BY Zenon, <1>5, TakesAnother
  <2>2. /\ buf'[p] = b /\ outer'[p] = buf[p]
        /\ \A q \in Procs \ {p} : buf'[q] = buf[q] /\ outer'[q] = outer[q]
        /\ ref_cnt'[b] = ref_cnt[b] + 1 /\ \A c \in Bufs : c # b => ref_cnt'[c] = ref_cnt[c]
    BY Zenon, <1>1, <1>5 DEF Take
  <2>3. p \notin Users(b)
    BY Zenon, <1>0, <2>1 DEF Users
  <2>4. \A q : q \in Users(b)' <=> q \in Users(b) \cup {p}
    BY Zenon, <2>2 DEF Users
  <2>5. Users(b)' = Users(b) \cup {p}
    BY Zenon, <2>4
  <2>6. ASSUME NEW c \in Bufs, c # b PROVE Users(c)' = Users(c)
    <3>1. \A q : q \in Users(c)' <=> q \in Users(c)
      BY Zenon, <1>0, <2>1, <2>2, <2>6 DEF Users
    <3> QED
      BY Zenon, <3>1
  <2>7. Cardinality(Users(b) \cup {p}) = Cardinality(Users(b)) + 1
    BY Zenon, <1>2, <2>3, FS_AddElement
  <2>8. ASSUME NEW c \in Bufs PROVE ref_cnt'[c] = Cardinality(Users(c)')
    <3>1. CASE c = b
      BY Zenon, <1>2, <2>2, <2>5, <2>7, <3>1
    <3>2. CASE c # b
      BY Zenon, <1>2, <2>2, <2>6, <3>2
    <3> QED
      BY Zenon, <3>1, <3>2
  <2> QED
    BY Zenon, <1>3, <2>8
<1>6. ASSUME NEW p \in Procs, NEW k \in Blocks, BgetHit(p, k) PROVE RefExact'
  <2>1. Cached(k) \in Bufs /\ blockno[Cached(k)] = k
    BY Zenon, <1>0, <1>6, SearchFinds DEF BgetHit
  <2> QED
    BY Zenon, <1>5, <1>6, <2>1 DEF BgetHit
<1>7. ASSUME NEW p \in Procs, NEW k \in Blocks, BgetRecycles(p, k) PROVE RefExact'
  <2>1. Victim \in Bufs /\ ref_cnt[Victim] = 0
    BY Zenon, <1>0, <1>7, SearchFinds DEF BgetRecycles
  <2> QED
    BY Zenon, <1>5, <1>7, <2>1 DEF BgetRecycles
<1>8. ASSUME NEW p \in Procs, Relse(p) PROVE RefExact'
  <2>0. pc[p] # "idle"
    BY Zenon, <1>8 DEF Relse, At
  <2>1. buf[p] \in Bufs /\ outer[p] # buf[p]
    BY Zenon, <1>0, <2>0, InHand
  <2>2. /\ buf'[p] = outer[p] /\ outer'[p] = NONE
        /\ \A q \in Procs \ {p} : buf'[q] = buf[q] /\ outer'[q] = outer[q]
        /\ ref_cnt'[buf[p]] = ref_cnt[buf[p]] - 1
        /\ \A c \in Bufs : c # buf[p] => ref_cnt'[c] = ref_cnt[c]
    BY Zenon, <1>1, <1>8, <2>1 DEF Relse
  <2>3. p \in Users(buf[p])
    BY Zenon DEF Users
  <2>4. PICK b \in Bufs : b = buf[p]
    BY Zenon, <2>1
  <2>5. \A q : q \in Users(b)' <=> q \in Users(b) \ {p}
    <3> TAKE q
    <3>1. CASE q = p
      BY Zenon, <1>0, <2>1, <2>2, <2>4, <3>1 DEF Users
    <3>2. CASE q # p
      BY Zenon, <2>2, <3>2 DEF Users
    <3> QED
      BY Zenon, <3>1, <3>2
  <2>6. Users(b)' = Users(b) \ {p}
    BY Zenon, <2>5
  <2>7. ASSUME NEW c \in Bufs, c # b PROVE Users(c)' = Users(c)
    <3>1. \A q : q \in Users(c)' <=> q \in Users(c)
      <4> TAKE q
      <4>1. CASE q = p
        BY Zenon, <1>0, <2>2, <2>4, <2>7, <4>1 DEF Users
      <4>2. CASE q # p
        BY Zenon, <2>2, <4>2 DEF Users
      <4> QED
        BY Zenon, <4>1, <4>2
    <3> QED
      BY Zenon, <3>1
  <2>8. Cardinality(Users(b) \ {p}) = Cardinality(Users(b)) - 1
    BY Zenon, <1>2, <2>3, <2>4, FS_RemoveElement
  <2>9. ASSUME NEW c \in Bufs PROVE ref_cnt'[c] = Cardinality(Users(c)')
    <3>1. CASE c = b
      BY Zenon, <1>2, <2>2, <2>4, <2>6, <2>8, <3>1
    <3>2. CASE c # b
      BY Zenon, <1>2, <2>2, <2>4, <2>7, <3>2
    <3> QED
      BY Zenon, <3>1, <3>2
  <2> QED
    BY Zenon, <1>3, <2>9
<1>9. ASSUME NEW p \in Procs,
             AcquireSleeps(p) \/ Acquire(p) \/ Read(p) \/ Rdwr(p) \/ RdwrTest(p) \/ Release(p)
      PROVE  RefExact'
  BY Zenon, <1>4, <1>9 DEF AcquireSleeps, Acquire, Read, Rdwr, RdwrTest, Release, Goto, bufs
<1>10. ASSUME Transfer \/ Interrupt PROVE RefExact'
  BY Zenon, <1>4, <1>10 DEF Transfer, Interrupt, procs
<1>11. ASSUME NEW p \in Procs, NEW v \in Vals, Log(p, v) \/ Write(p, v) PROVE RefExact'
  BY Zenon, <1>4, <1>11 DEF Log, Write, Goto, procs
<1> QED
  BY Zenon, <1>6, <1>7, <1>8, <1>9, <1>10, <1>11 DEF Next, Step
-----------------------------------------------------------------------------
\* bio::init makes the list of all buffers in order, and nobody has one.
LEMMA InitCache ==
  ASSUME Init
  PROVE  CacheInv
<1>0. NBUF \in Nat /\ NBUF > 1 /\ Bufs = 1..NBUF /\ NONE = 0 /\ Zero \in Vals
  BY BufAssumption DEF Bufs, NONE
<1>1. TypeOK
  <2>1. head \in Bufs /\ tail \in Bufs /\ prev \in [Bufs -> Bufs \cup {NONE}] /\ next \in [Bufs -> Bufs \cup {NONE}]
    BY <1>0 DEF Init
  <2>2. ref_cnt \in [Bufs -> Nat] /\ irq \in BOOLEAN /\ panic \in BOOLEAN
    <3>1. 0 \in Nat
      OBVIOUS
    <3> QED
      BY Zenon, <3>1 DEF Init
  <2> QED
    BY Zenon, <1>0, <2>1, <2>2 DEF Init, TypeOK, Points
<1>2. ListInv
  <2> DEFINE s == [i \in Bufs |-> i]
  <2>1. s \in [Bufs -> Bufs] /\ \A i \in Bufs : s[i] = i
    BY Zenon
  <2>2. ASSUME NEW i \in Bufs PROVE next[i] = IF i = NBUF THEN NONE ELSE s[i + 1]
    BY <1>0 DEF Init
  <2>3. ASSUME NEW i \in Bufs PROVE prev[i] = IF i = 1 THEN NONE ELSE s[i - 1]
    BY <1>0 DEF Init
  <2>4. head = s[1] /\ tail = s[NBUF]
    BY <1>0 DEF Init
  <2> HIDE DEF s
  <2>5. Order(s)
    <3>1. \A i, j \in Bufs : s[i] = s[j] => i = j
      BY Zenon, <2>1
    <3>2. \A b \in Bufs : \E i \in Bufs : s[i] = b
      BY Zenon, <2>1
    <3>3. ASSUME NEW i \in Bufs PROVE next[s[i]] = IF i = NBUF THEN NONE ELSE s[i + 1]
      BY Zenon, <2>1, <2>2
    <3>4. ASSUME NEW i \in Bufs PROVE prev[s[i]] = IF i = 1 THEN NONE ELSE s[i - 1]
      BY Zenon, <2>1, <2>3
    <3> QED
      BY Zenon, <2>1, <2>4, <3>1, <3>2, <3>3, <3>4 DEF Order
  <2> QED
    BY Zenon, <2>1, <2>5 DEF ListInv
<1>3. QueueInv
  <2>1. PICK s : s \in [1..0 -> Bufs]
    <3>1. [i \in 1..0 |-> 1] \in [1..0 -> Bufs]
      BY <1>0
    <3> QED
      BY Zenon, <3>1
  <2>2. 0 \in 0..NBUF /\ \A i \in 1..0 : FALSE
    BY <1>0
  <2>3. queue = NONE /\ \A b : ~Waited(b)
    BY Zenon DEF Init, Waited
  <2>4. Queued(s, 0)
    BY Zenon, <2>1, <2>2, <2>3 DEF Queued, Chain
  <2> QED
    BY Zenon, <2>1, <2>2, <2>4 DEF QueueInv
<1>4. RefExact
  <2>1. ASSUME NEW b \in Bufs PROVE ref_cnt[b] = Cardinality({p \in Procs : buf[p] = b \/ outer[p] = b})
    <3>1. NONE \notin Bufs
      BY <1>0
    <3>2. {p \in Procs : buf[p] = b \/ outer[p] = b} = {}
      BY Zenon, <3>1 DEF Init
    <3> QED
      BY Zenon, <3>2, FS_EmptySet DEF Init
  <2> QED
    BY Zenon, <2>1 DEF RefExact
<1>5. HoldInv
  <2>1. NONE \notin Bufs /\ NoProc \notin Procs
    BY <1>0, BufAssumption
  <2>2. ASSUME NEW p \in Procs PROVE Has(p)
    BY Zenon DEF Init, Has
  <2>3. ASSUME NEW p \in Procs, NEW b \in Bufs PROVE owner[b] # p /\ ~Owns(p, b)
    BY Zenon, <2>1 DEF Init, Owns
  <2> QED
    BY Zenon, <2>2, <2>3 DEF HoldInv
<1>6. StageInv
  BY Zenon DEF Init, StageInv, Stage
<1>7. BlockInv
  <2>1. {} # {"VALID"}
    BY Zenon
  <2> QED
    BY Zenon, <2>1 DEF Init, BlockInv
<1>8. DriveInv /\ NoPanic
  BY Zenon DEF Init, DriveInv, NoPanic
<1> QED
  BY Zenon, <1>1, <1>2, <1>3, <1>4, <1>5, <1>6, <1>7, <1>8 DEF CacheInv

\* Every step keeps the invariant.
LEMMA NextCache ==
  ASSUME CacheInv, [Next]_vars
  PROVE  CacheInv'
<1>1. CASE Next
  BY Zenon, <1>1, KeepsTypes, KeepsList, KeepsQueue, KeepsCounts, KeepsHold, KeepsStage,
     KeepsBlocks, KeepsDrive, KeepsNoPanic DEF CacheInv
<1>2. CASE UNCHANGED vars
  <2>0. TypeOK /\ ListInv /\ QueueInv /\ RefExact /\ HoldInv /\ StageInv /\ BlockInv /\ DriveInv /\ NoPanic
    BY Zenon DEF CacheInv
  <2>1. /\ UNCHANGED list /\ UNCHANGED bufs /\ UNCHANGED device /\ UNCHANGED procs /\ panic' = panic
    BY Zenon, <1>2 DEF vars
  <2>2. TypeOK'
    BY Zenon, <2>0, <2>1 DEF TypeOK, list, bufs, device, procs
  <2>3. ListInv'
    BY Zenon, <2>0, <2>1 DEF ListInv, Order, list
  <2>4. QueueInv'
    <3>1. \A b \in Bufs : Waited(b)' <=> Waited(b)
      BY Zenon, <2>1 DEF Waited, procs
    <3> QED
      BY Zenon, <2>0, <2>1, <3>1, QueueStill DEF device
  <2>5. RefExact'
    BY Zenon, <2>0, <2>1 DEF RefExact, bufs, procs
  <2>6. HoldInv'
    BY Zenon, <2>0, <2>1, HoldStill DEF bufs, procs
  <2>7. StageInv'
    BY Zenon, <2>0, <2>1 DEF StageInv, Stage, bufs, procs
  <2>8. BlockInv'
    BY Zenon, <2>0, <2>1, BlockStill DEF bufs, device
  <2>9. DriveInv' /\ NoPanic'
    BY Zenon, <2>0, <2>1 DEF DriveInv, NoPanic, bufs, device
  <2> QED
    BY Zenon, <2>2, <2>3, <2>4, <2>5, <2>6, <2>7, <2>8, <2>9 DEF CacheInv
<1> QED
  BY Zenon, <1>1, <1>2
-----------------------------------------------------------------------------
\* The invariant of the cache, its list, its locks and the disk's queue.
THEOREM CacheHolds == Spec => []CacheInv
<1>1. Init => CacheInv
  BY InitCache
<1>2. CacheInv /\ [Next]_vars => CacheInv'
  BY NextCache
<1> QED
  BY <1>1, <1>2, PTL DEF Spec

\* For any number of processes, buffers and blocks: relse() keeps the LRU list
\* whole and ref_cnt counts the processes that have a buffer or wait for it.
THEOREM ListAndCountsExact == Spec => []CacheExact
<1>1. CacheInv => CacheExact
  BY Zenon, ListIsWhole DEF CacheInv, CacheExact
<1> QED
  BY <1>1, CacheHolds, PTL

\* No assert of bget(), rdwr(), acquire(), release(), fslog::write fails.
THEOREM CacheNeverPanics == Spec => []NoPanic
<1>1. CacheInv => NoPanic
  BY Zenon DEF CacheInv
<1> QED
  BY <1>1, CacheHolds, PTL

\* The disk's queue holds exactly the buffers that processes wait for in
\* rdwr(), each once, and the drive works on its head: enqueue() and
\* sd::interrupt lose no request and repeat none.
THEOREM QueueHolds == Spec => []QueueExact
<1>1. CacheInv => QueueExact
  <2> SUFFICES ASSUME CacheInv PROVE QueueExact
    OBVIOUS
  <2>1. ASSUME NEW p \in Pending PROVE buf[p] \in Bufs
    BY Zenon, InHand DEF Pending, CacheInv
  <2> QED
    BY Zenon, <2>1, QueueIsExact DEF CacheInv, DriveInv
<1> QED
  BY <1>1, CacheHolds, PTL

\* Buf::read returns with the block's content in the buffer.
THEOREM ReadIsValid == Spec => []UsedIsValid
<1>1. CacheInv => UsedIsValid
  BY Zenon DEF CacheInv, StageInv, Stage, UsedIsValid
<1> QED
  BY <1>1, CacheHolds, PTL
-----------------------------------------------------------------------------
\* The content of a block as a function of the buffers and the disk.
HoldsIn(bn, fl, k) == {b \in Bufs : bn[b] = k /\ "VALID" \in fl[b]}
ContentIn(bn, fl, da, di, k) ==
  IF HoldsIn(bn, fl, k) = {} THEN di[k] ELSE da[CHOOSE b \in HoldsIn(bn, fl, k) : TRUE]

\* A block with one buffer at most has that buffer's content if it is valid,
\* and the disk's if there is none.
LEMMA ContentIs ==
  ASSUME NEW bn, NEW fl, NEW da, NEW di, NEW k \in Blocks,
         \A b, c \in Bufs : bn[b] = bn[c] /\ bn[b] # NoBlock => b = c
  PROVE  /\ \A b \in Bufs : bn[b] = k /\ "VALID" \in fl[b] => ContentIn(bn, fl, da, di, k) = da[b]
         /\ (\A b \in Bufs : bn[b] = k => "VALID" \notin fl[b]) => ContentIn(bn, fl, da, di, k) = di[k]
<1>1. k # NoBlock
  BY Zenon, BufAssumption
<1>2. ASSUME NEW b \in Bufs, bn[b] = k, "VALID" \in fl[b] PROVE ContentIn(bn, fl, da, di, k) = da[b]
  <2>1. b \in HoldsIn(bn, fl, k) /\ \A c \in HoldsIn(bn, fl, k) : c = b
    BY Zenon, <1>1, <1>2 DEF HoldsIn
  <2>2. (CHOOSE c \in HoldsIn(bn, fl, k) : TRUE) = b
    BY Zenon, <2>1
  <2> QED
    BY Zenon, <2>1, <2>2 DEF ContentIn
<1>3. ASSUME \A b \in Bufs : bn[b] = k => "VALID" \notin fl[b] PROVE ContentIn(bn, fl, da, di, k) = di[k]
  <2>1. HoldsIn(bn, fl, k) = {}
    BY Zenon, <1>3 DEF HoldsIn
  <2> QED
    BY Zenon, <2>1 DEF ContentIn
<1> QED
  BY Zenon, <1>2, <1>3

\* The same of Content before and after a step.
LEMMA ContentNow ==
  ASSUME BlockInv, BlockInv', NEW k \in Blocks
  PROVE  /\ \A b \in Bufs : blockno[b] = k /\ "VALID" \in flags[b] => Content[k] = data[b]
         /\ (\A b \in Bufs : blockno[b] = k => "VALID" \notin flags[b]) => Content[k] = disk[k]
         /\ \A b \in Bufs : blockno'[b] = k /\ "VALID" \in flags'[b] => Content'[k] = data'[b]
         /\ (\A b \in Bufs : blockno'[b] = k => "VALID" \notin flags'[b]) => Content'[k] = disk'[k]
<1>1. Content[k] = ContentIn(blockno, flags, data, disk, k)
  BY Zenon DEF Content, Holds, ContentIn, HoldsIn
<1>2. Content'[k] = ContentIn(blockno', flags', data', disk', k)
  BY Zenon DEF Content, Holds, ContentIn, HoldsIn
<1>3. \A b, c \in Bufs : blockno[b] = blockno[c] /\ blockno[b] # NoBlock => b = c
  BY Zenon DEF BlockInv
<1>4. \A b, c \in Bufs : blockno'[b] = blockno'[c] /\ blockno'[b] # NoBlock => b = c
  BY Zenon DEF BlockInv
<1>5. /\ \A b \in Bufs : blockno[b] = k /\ "VALID" \in flags[b] => Content[k] = data[b]
      /\ (\A b \in Bufs : blockno[b] = k => "VALID" \notin flags[b]) => Content[k] = disk[k]
  <2> DEFINE V == ContentIn(blockno, flags, data, disk, k)
  <2>1. /\ \A b \in Bufs : blockno[b] = k /\ "VALID" \in flags[b] => V = data[b]
        /\ (\A b \in Bufs : blockno[b] = k => "VALID" \notin flags[b]) => V = disk[k]
    BY <1>3, ContentIs
  <2> QED
    BY Zenon, <1>1, <2>1
<1>6. /\ \A b \in Bufs : blockno'[b] = k /\ "VALID" \in flags'[b] => Content'[k] = data'[b]
      /\ (\A b \in Bufs : blockno'[b] = k => "VALID" \notin flags'[b]) => Content'[k] = disk'[k]
  <2> DEFINE V == ContentIn(blockno', flags', data', disk', k)
  <2>1. /\ \A b \in Bufs : blockno'[b] = k /\ "VALID" \in flags'[b] => V = data'[b]
        /\ (\A b \in Bufs : blockno'[b] = k => "VALID" \notin flags'[b]) => V = disk'[k]
    BY <1>4, ContentIs
  <2> QED
    BY Zenon, <1>2, <2>1
<1> QED
  BY Zenon, <1>5, <1>6

\* The blocks a process holds are those of the buffers it has locked.
LEMMA HeldNow ==
  ASSUME NEW p \in Procs, NEW x
  PROVE  x \in Held[p] <=> \E b \in Bufs : owner[b] = p /\ blockno[b] = x
<1>1. Held[p] = {blockno[b] : b \in {c \in Bufs : owner[c] = p}}
  BY Zenon DEF Held
<1> QED
  BY Zenon, <1>1

\* The same after a step.
LEMMA HeldNext ==
  ASSUME NEW p \in Procs, NEW x
  PROVE  x \in Held'[p] <=> \E b \in Bufs : owner'[b] = p /\ blockno'[b] = x
<1>1. Held'[p] = {blockno'[b] : b \in {c \in Bufs : owner'[c] = p}}
  BY Zenon DEF Held
<1> QED
  BY Zenon, <1>1

\* Held is a function: it is unchanged if its values are.
LEMMA HeldSame ==
  ASSUME \A p \in Procs : Held'[p] = Held[p]
  PROVE  Held' = Held
<1>1. Held = [p \in Procs |-> Held[p]]
  BY Zenon DEF Held
<1>2. Held' = [p \in Procs |-> Held'[p]]
  BY Zenon DEF Held
<1>3. [p \in Procs |-> Held'[p]] = [p \in Procs |-> Held[p]]
  BY Zenon
<1> QED
  BY Zenon, <1>1, <1>2, <1>3

\* The same of Content.
LEMMA ContentSame ==
  ASSUME \A k \in Blocks : Content'[k] = Content[k]
  PROVE  Content' = Content
<1>1. Content = [k \in Blocks |-> Content[k]]
  BY Zenon DEF Content
<1>2. Content' = [k \in Blocks |-> Content'[k]]
  BY Zenon DEF Content
<1>3. [k \in Blocks |-> Content'[k]] = [k \in Blocks |-> Content[k]]
  BY Zenon
<1> QED
  BY Zenon, <1>1, <1>2, <1>3

\* A step that changes neither locks nor buffers is not seen.
LEMMA StoreStill ==
  ASSUME UNCHANGED <<blockno, flags, data, disk>>
  PROVE  Content' = Content
<1>1. ASSUME NEW k \in Blocks PROVE Content'[k] = Content[k]
  <2>1. Content[k] = ContentIn(blockno, flags, data, disk, k)
    BY Zenon DEF Content, Holds, ContentIn, HoldsIn
  <2>2. Content'[k] = ContentIn(blockno', flags', data', disk', k)
    BY Zenon DEF Content, Holds, ContentIn, HoldsIn
  <2> QED
    BY Zenon, <2>1, <2>2
<1> QED
  BY Zenon, <1>1, ContentSame

\* Recycling a clean buffer is not seen: what it held is on the disk.
LEMMA RecycleUnseen ==
  ASSUME CacheInv, CacheInv', NEW p \in Procs, NEW k \in Blocks, BgetRecycles(p, k)
  PROVE  Held' = Held /\ Content' = Content
<1>0. TypeOK /\ ListInv /\ RefExact /\ HoldInv /\ BlockInv /\ BlockInv'
  BY Zenon DEF CacheInv
<1>1. Victim \in Bufs /\ ref_cnt[Victim] = 0 /\ "DIRTY" \notin flags[Victim] /\ \A b \in Bufs : blockno[b] # k
  BY Zenon, <1>0, SearchFinds DEF BgetRecycles
<1>2. /\ blockno'[Victim] = k /\ flags'[Victim] = {} /\ data' = data /\ disk' = disk /\ owner' = owner
      /\ \A b \in Bufs : b # Victim => blockno'[b] = blockno[b] /\ flags'[b] = flags[b]
  BY Zenon, <1>0, <1>1 DEF BgetRecycles, device, TypeOK
<1>3. ASSUME NEW q \in Procs PROVE Held'[q] = Held[q]
  <2>1. owner[Victim] # q
    <3>1. ~Owns(q, Victim)
      BY Zenon, <1>0, <1>1, Counted DEF Owns
    <3> QED
      BY Zenon, <1>0, <1>1, <3>1 DEF HoldInv
  <2>2. \A x : x \in Held'[q] <=> x \in Held[q]
    <3> TAKE x
    <3>1. (\E b \in Bufs : owner'[b] = q /\ blockno'[b] = x) <=> (\E b \in Bufs : owner[b] = q /\ blockno[b] = x)
      BY Zenon, <1>2, <2>1
    <3> QED
      BY Zenon, <3>1, HeldNow, HeldNext
  <2> QED
    BY <2>2
<1>4. ASSUME NEW m \in Blocks PROVE Content'[m] = Content[m]
  <2>0. "VALID" \notin {}
    OBVIOUS
  <2>1. CASE \E b \in Bufs : b # Victim /\ blockno[b] = m /\ "VALID" \in flags[b]
    <3>1. PICK b \in Bufs : b # Victim /\ blockno[b] = m /\ "VALID" \in flags[b]
      BY Zenon, <2>1
    <3>2. blockno'[b] = m /\ "VALID" \in flags'[b] /\ data'[b] = data[b]
      BY Zenon, <1>2, <3>1
    <3> QED
      BY Zenon, <1>0, <3>1, <3>2, ContentNow
  <2>2. CASE ~\E b \in Bufs : b # Victim /\ blockno[b] = m /\ "VALID" \in flags[b]
    <3>1. \A b \in Bufs : blockno'[b] = m => "VALID" \notin flags'[b]
      BY Zenon, <1>2, <2>0, <2>2
    <3>2. Content'[m] = disk[m]
      BY Zenon, <1>0, <1>2, <3>1, ContentNow
    <3>3. CASE blockno[Victim] = m /\ "VALID" \in flags[Victim]
      <4>1. flags[Victim] = {"VALID"}
        <5>1. flags[Victim] \in {{}, {"VALID"}, {"VALID", "DIRTY"}}
          BY Zenon, <1>0, <1>1 DEF BlockInv
        <5> QED
          BY Zenon, <1>1, <3>3, <5>1
      <4>2. data[Victim] = disk[m]
        BY Zenon, <1>0, <1>1, <3>3, <4>1 DEF BlockInv
      <4>3. Content[m] = data[Victim]
        BY Zenon, <1>0, <1>1, <3>3, ContentNow
      <4> QED
        BY Zenon, <3>2, <4>2, <4>3
    <3>4. CASE ~(blockno[Victim] = m /\ "VALID" \in flags[Victim])
      <4>1. \A b \in Bufs : blockno[b] = m => "VALID" \notin flags[b]
        BY Zenon, <2>2, <3>4
      <4>2. Content[m] = disk[m]
        BY Zenon, <1>0, <4>1, ContentNow
      <4> QED
        BY Zenon, <3>2, <4>2
    <3> QED
      BY Zenon, <3>3, <3>4
  <2> QED
    BY Zenon, <2>1, <2>2
<1> QED
  BY Zenon, <1>3, <1>4, HeldSame, ContentSame

\* Nor is a transfer: it copies what the buffer or the disk already is.
LEMMA TransferUnseen ==
  ASSUME CacheInv, CacheInv', Transfer
  PROVE  Content' = Content
<1>0. TypeOK /\ StageInv /\ BlockInv /\ BlockInv' /\ NoBlock \notin Blocks
  BY Zenon, BufAssumption DEF CacheInv
<1>1. drive \in Bufs /\ blockno[drive] \in Blocks /\ flags[drive] # {"VALID"}
  <2>1. drive \in Bufs /\ blockno[drive] \in Blocks /\ \E p \in Procs : pc[p] = "io" /\ buf[p] = drive
    BY Zenon, DriveWorks DEF Transfer
  <2> QED
    BY Zenon, <1>0, <2>1 DEF StageInv, Stage
<1>2. flags[drive] \in {{}, {"VALID", "DIRTY"}}
  BY Zenon, <1>0, <1>1 DEF BlockInv
<1>3. blockno' = blockno /\ flags' = flags
  BY Zenon DEF Transfer
<1>4. ASSUME NEW m \in Blocks PROVE Content'[m] = Content[m]
  <2>1. CASE \E b \in Bufs : blockno[b] = m /\ "VALID" \in flags[b]
    <3>1. PICK b \in Bufs : blockno[b] = m /\ "VALID" \in flags[b]
      BY Zenon, <2>1
    <3>2. data'[b] = data[b]
      <4>1. CASE flags[drive] = {}
        <5>1. b # drive
          BY <3>1, <4>1
        <5> QED
          BY Zenon, <1>0, <1>1, <5>1 DEF Transfer, TypeOK
      <4>2. CASE flags[drive] = {"VALID", "DIRTY"}
        BY Zenon, <4>2 DEF Transfer
      <4> QED
        BY Zenon, <1>2, <4>1, <4>2
    <3> QED
      BY Zenon, <1>0, <1>3, <3>1, <3>2, ContentNow
  <2>2. CASE \A b \in Bufs : blockno[b] = m => "VALID" \notin flags[b]
    <3>1. disk'[m] = disk[m]
      <4>1. CASE flags[drive] = {}
        <5>1. "DIRTY" \notin flags[drive]
          BY <4>1
        <5> QED
          BY Zenon, <5>1 DEF Transfer
      <4>2. CASE flags[drive] = {"VALID", "DIRTY"}
        <5>1. blockno[drive] # m
          BY Zenon, <1>1, <2>2, <4>2
        <5>2. disk' = [disk EXCEPT ![blockno[drive]] = data[drive]]
          BY Zenon, <4>2 DEF Transfer
        <5> QED
          BY Zenon, <1>0, <5>1, <5>2 DEF TypeOK
      <4> QED
        BY Zenon, <1>2, <4>1, <4>2
    <3> QED
      BY Zenon, <1>0, <1>3, <2>2, <3>1, ContentNow
  <2> QED
    BY Zenon, <2>1, <2>2
<1> QED
  BY Zenon, <1>4, ContentSame

\* Nor is the end of one: the buffer becomes valid with what is on the disk.
LEMMA InterruptUnseen ==
  ASSUME CacheInv, CacheInv', Interrupt
  PROVE  Content' = Content
<1>0. TypeOK /\ BlockInv /\ BlockInv' /\ DriveInv
  BY Zenon DEF CacheInv
<1>1. drive # NONE /\ drive = queue /\ data[drive] = disk[blockno[drive]]
  BY Zenon, <1>0 DEF Interrupt, DriveInv
<1>2. queue \in Bufs
  BY Zenon, <1>1, DriveWorks
<1>3. /\ blockno' = blockno /\ data' = data /\ disk' = disk
      /\ flags'[queue] = {"VALID"} /\ \A b \in Bufs : b # queue => flags'[b] = flags[b]
  BY Zenon, <1>0, <1>2 DEF Interrupt, TypeOK
<1>4. ASSUME NEW m \in Blocks PROVE Content'[m] = Content[m]
  <2>1. CASE \E b \in Bufs : blockno[b] = m /\ "VALID" \in flags[b]
    <3>1. PICK b \in Bufs : blockno[b] = m /\ "VALID" \in flags[b]
      BY Zenon, <2>1
    <3>2. "VALID" \in flags'[b]
      BY Zenon, <1>3, <3>1
    <3>3. Content[m] = data[b]
      BY Zenon, <1>0, <3>1, ContentNow
    <3>4. blockno'[b] = m
      BY Zenon, <1>3, <3>1
    <3>5. Content'[m] = data'[b]
      BY Zenon, <1>0, <3>2, <3>4, ContentNow
    <3> QED
      BY Zenon, <1>3, <3>3, <3>5
  <2>2. CASE \A b \in Bufs : blockno[b] = m => "VALID" \notin flags[b]
    <3>1. Content[m] = disk[m]
      BY Zenon, <1>0, <2>2, ContentNow
    <3>2. CASE blockno[queue] = m
      <4>1. "VALID" \in flags'[queue] /\ blockno'[queue] = m /\ data'[queue] = disk[m]
        BY Zenon, <1>1, <1>3, <3>2
      <4>2. Content'[m] = data'[queue]
        BY Zenon, <1>0, <1>2, <4>1, ContentNow
      <4> QED
        BY Zenon, <3>1, <4>1, <4>2
    <3>3. CASE blockno[queue] # m
      <4>1. \A b \in Bufs : blockno'[b] = m => "VALID" \notin flags'[b]
        BY Zenon, <1>3, <2>2, <3>3
      <4> QED
        BY Zenon, <1>0, <1>3, <3>1, <4>1, ContentNow
    <3> QED
      BY Zenon, <3>2, <3>3
  <2> QED
    BY Zenon, <2>1, <2>2
<1> QED
  BY Zenon, <1>4, ContentSame

\* The block of the buffer a process has in hand.
LEMMA HandBlock ==
  ASSUME CacheInv, NEW p \in Procs, pc[p] # "idle"
  PROVE  /\ buf[p] \in Bufs /\ blockno[buf[p]] \in Blocks
         /\ \A b \in Bufs : blockno[b] = blockno[buf[p]] => b = buf[p]
<1>0. TypeOK /\ RefExact /\ HoldInv /\ BlockInv
  BY Zenon DEF CacheInv
<1>1. buf[p] \in Bufs
  BY Zenon, <1>0, InHand
<1>2. ref_cnt[buf[p]] # 0
  BY Zenon, <1>0, <1>1, Counted
<1>3. blockno[buf[p]] \in Blocks
  BY Zenon, <1>0, <1>1, <1>2 DEF BlockInv
<1>4. blockno[buf[p]] # NoBlock
  BY Zenon, <1>3, BufAssumption
<1> QED
  BY Zenon, <1>0, <1>1, <1>3, <1>4 DEF BlockInv

\* A process that changes a block it has in hand updates its content.
LEMMA UpdateSeen ==
  ASSUME CacheInv, CacheInv', NEW p \in Procs, NEW v \in Vals, Log(p, v) \/ Write(p, v)
  PROVE  Store!Update(p, blockno[buf[p]], v) /\ blockno[buf[p]] \in Blocks
<1>0. TypeOK /\ HoldInv /\ StageInv /\ BlockInv /\ BlockInv'
  BY Zenon DEF CacheInv
<1>1. /\ pc[p] = "use" /\ pc[p] # "idle" /\ data' = [data EXCEPT ![buf[p]] = v]
      /\ flags' = [flags EXCEPT ![buf[p]] = @ \cup {"DIRTY"}]
      /\ blockno' = blockno /\ disk' = disk /\ owner' = owner
  BY Zenon DEF Log, Write, At, device
<1>2. PICK b \in Bufs : b = buf[p]
  BY Zenon, <1>0, <1>1, InHand
<1>3. PICK k \in Blocks : k = blockno[b] /\ \A c \in Bufs : blockno[c] = k => c = b
  <2>1. blockno[buf[p]] \in Blocks /\ \A c \in Bufs : blockno[c] = blockno[buf[p]] => c = buf[p]
    BY Zenon, <1>1, HandBlock
  <2> QED
    BY Zenon, <1>2, <2>1
<1>4. owner[b] = p /\ "VALID" \in flags[b]
  BY Zenon, <1>0, <1>1, <1>2, InHand DEF Locked, StageInv, Stage
<1>5. /\ data'[b] = v /\ "VALID" \in flags'[b]
      /\ \A c \in Bufs : c # b => data'[c] = data[c] /\ flags'[c] = flags[c]
  <2>1. flags'[b] = flags[b] \cup {"DIRTY"} /\ data'[b] = v
    BY Zenon, <1>0, <1>1, <1>2 DEF TypeOK
  <2>2. \A c \in Bufs : c # b => data'[c] = data[c] /\ flags'[c] = flags[c]
    BY Zenon, <1>0, <1>1, <1>2 DEF TypeOK
  <2> QED
    BY Zenon, <1>4, <2>1, <2>2
<1>6. Content'[k] = v
  BY Zenon, <1>0, <1>1, <1>3, <1>5, ContentNow
<1>7. ASSUME NEW m \in Blocks, m # k PROVE Content'[m] = Content[m]
  <2>1. CASE \E c \in Bufs : blockno[c] = m /\ "VALID" \in flags[c]
    <3>1. PICK c \in Bufs : blockno[c] = m /\ "VALID" \in flags[c]
      BY Zenon, <2>1
    <3>2. c # b
      BY Zenon, <1>3, <1>7, <3>1
    <3>3. blockno'[c] = m /\ "VALID" \in flags'[c] /\ data'[c] = data[c]
      BY Zenon, <1>1, <1>5, <3>1, <3>2
    <3> QED
      BY Zenon, <1>0, <3>1, <3>3, ContentNow
  <2>2. CASE \A c \in Bufs : blockno[c] = m => "VALID" \notin flags[c]
    <3>1. \A c \in Bufs : blockno'[c] = m => "VALID" \notin flags'[c]
      BY Zenon, <1>1, <1>3, <1>5, <1>7, <2>2
    <3> QED
      BY Zenon, <1>0, <1>1, <2>2, <3>1, ContentNow
  <2> QED
    BY Zenon, <2>1, <2>2
<1>8. Content' = [Content EXCEPT ![k] = v]
  <2>1. Content' = [m \in Blocks |-> Content'[m]]
    BY DEF Content
  <2>2. Content = [m \in Blocks |-> Content[m]]
    BY DEF Content
  <2>3. [Content EXCEPT ![k] = v] = [m \in Blocks |-> IF m = k THEN v ELSE Content[m]]
    BY Zenon, <2>2
  <2>4. [m \in Blocks |-> Content'[m]] = [m \in Blocks |-> IF m = k THEN v ELSE Content[m]]
    BY Zenon, <1>6, <1>7
  <2> QED
    BY Zenon, <2>1, <2>3, <2>4
<1>9. k \in Held[p]
  BY Zenon, <1>3, <1>4, HeldNow
<1>10. Held' = Held
  BY Zenon, <1>1 DEF Held
<1>11. Store!Update(p, k, v)
  BY Zenon, <1>8, <1>9, <1>10 DEF Store!Update
<1> QED
  BY Zenon, <1>2, <1>3, <1>11

\* Acquiring a buffer's lock takes its block, which nobody has.
LEMMA AcquireSeen ==
  ASSUME CacheInv, CacheInv', NEW p \in Procs, Acquire(p)
  PROVE  Store!Take(p, blockno[buf[p]]) /\ blockno[buf[p]] \in Blocks
<1>0. TypeOK /\ HoldInv /\ NoProc \notin Procs
  BY Zenon, BufAssumption DEF CacheInv
<1>1. /\ pc[p] # "idle" /\ owner[buf[p]] = NoProc /\ owner' = [owner EXCEPT ![buf[p]] = p]
      /\ UNCHANGED <<blockno, flags, data, disk>>
  BY Zenon DEF Acquire, At, device
<1>2. PICK b \in Bufs : b = buf[p]
  BY Zenon, <1>0, <1>1, InHand
<1>3. PICK k \in Blocks : k = blockno[b] /\ \A c \in Bufs : blockno[c] = k => c = b
  <2>1. blockno[buf[p]] \in Blocks /\ \A c \in Bufs : blockno[c] = blockno[buf[p]] => c = buf[p]
    BY Zenon, <1>1, HandBlock
  <2> QED
    BY Zenon, <1>2, <2>1
<1>4. owner'[b] = p /\ \A c \in Bufs : c # b => owner'[c] = owner[c]
  BY Zenon, <1>0, <1>1, <1>2 DEF TypeOK
<1>5. ASSUME NEW q \in Procs PROVE k \notin Held[q]
  <2> SUFFICES ASSUME k \in Held[q] PROVE FALSE
    BY Zenon
  <2>1. PICK c \in Bufs : owner[c] = q /\ blockno[c] = k
    BY Zenon, HeldNow
  <2> QED
    BY Zenon, <1>0, <1>1, <1>2, <1>3, <2>1
<1>6. ASSUME NEW q \in Procs PROVE Held'[q] = IF q = p THEN Held[q] \cup {k} ELSE Held[q]
  <2>1. blockno' = blockno
    BY Zenon, <1>1
  <2>2. CASE q = p
    <3>1. \A x : x \in Held'[q] <=> x \in Held[q] \cup {k}
      <4> TAKE x
      <4>1. x \in Held'[q] <=> \E c \in Bufs : owner'[c] = q /\ blockno[c] = x
        <5>1. x \in Held'[q] <=> \E c \in Bufs : owner'[c] = q /\ blockno'[c] = x
          BY Zenon, HeldNext
        <5> QED
          BY Zenon, <2>1, <5>1
      <4>2. x \in Held[q] <=> \E c \in Bufs : owner[c] = q /\ blockno[c] = x
        BY Zenon, HeldNow
      <4>3. owner[b] # q
        BY Zenon, <1>0, <1>1, <1>2
      <4> QED
        BY Zenon, <1>3, <1>4, <2>2, <4>1, <4>2, <4>3
    <3>2. Held'[q] = Held[q] \cup {k}
      BY <3>1
    <3> QED
      BY Zenon, <2>2, <3>2
  <2>3. CASE q # p
    <3>1. {c \in Bufs : owner'[c] = q} = {c \in Bufs : owner[c] = q}
      BY Zenon, <1>0, <1>1, <1>2, <1>4, <2>3
    <3>2. Held'[q] = Held[q]
      BY Zenon, <2>1, <3>1 DEF Held
    <3> QED
      BY Zenon, <2>3, <3>2
  <2> QED
    BY Zenon, <2>2, <2>3
<1>7. Held' = [Held EXCEPT ![p] = @ \cup {k}]
  <2>1. Held' = [q \in Procs |-> Held'[q]]
    BY Zenon DEF Held
  <2>2. Held = [q \in Procs |-> Held[q]]
    BY Zenon DEF Held
  <2>3. [Held EXCEPT ![p] = @ \cup {k}] = [q \in Procs |-> IF q = p THEN Held[q] \cup {k} ELSE Held[q]]
    BY Zenon, <2>2
  <2>4. [q \in Procs |-> Held'[q]] = [q \in Procs |-> IF q = p THEN Held[q] \cup {k} ELSE Held[q]]
    BY Zenon, <1>6
  <2> QED
    BY Zenon, <2>1, <2>3, <2>4
<1>8. Content' = Content
  BY Zenon, <1>1, StoreStill
<1>9. Store!Take(p, k)
  BY Zenon, <1>5, <1>7, <1>8 DEF Store!Take
<1> QED
  BY Zenon, <1>2, <1>3, <1>9

\* Releasing it gives the block back.
LEMMA ReleaseSeen ==
  ASSUME CacheInv, CacheInv', NEW p \in Procs, Release(p)
  PROVE  Store!Give(p, blockno[buf[p]]) /\ blockno[buf[p]] \in Blocks
<1>0. TypeOK /\ HoldInv /\ NoProc \notin Procs
  BY Zenon, BufAssumption DEF CacheInv
<1>1. /\ pc[p] = "use" /\ pc[p] # "idle" /\ owner' = [owner EXCEPT ![buf[p]] = NoProc]
      /\ UNCHANGED <<blockno, flags, data, disk>>
  BY Zenon DEF Release, At, device
<1>2. PICK b \in Bufs : b = buf[p] /\ owner[b] = p
  BY Zenon, <1>0, <1>1, InHand DEF Locked
<1>3. PICK k \in Blocks : k = blockno[b] /\ \A c \in Bufs : blockno[c] = k => c = b
  <2>1. blockno[buf[p]] \in Blocks /\ \A c \in Bufs : blockno[c] = blockno[buf[p]] => c = buf[p]
    BY Zenon, <1>1, HandBlock
  <2> QED
    BY Zenon, <1>2, <2>1
<1>4. owner'[b] = NoProc /\ \A c \in Bufs : c # b => owner'[c] = owner[c]
  BY Zenon, <1>0, <1>1, <1>2 DEF TypeOK
<1>5. k \in Held[p]
  BY Zenon, <1>2, <1>3, HeldNow
<1>6. ASSUME NEW q \in Procs PROVE Held'[q] = IF q = p THEN Held[q] \ {k} ELSE Held[q]
  <2>1. blockno' = blockno
    BY Zenon, <1>1
  <2>2. CASE q = p
    <3>1. \A x : x \in Held'[q] <=> x \in Held[q] \ {k}
      <4> TAKE x
      <4>1. x \in Held'[q] <=> \E c \in Bufs : owner'[c] = q /\ blockno[c] = x
        <5>1. x \in Held'[q] <=> \E c \in Bufs : owner'[c] = q /\ blockno'[c] = x
          BY Zenon, HeldNext
        <5> QED
          BY Zenon, <2>1, <5>1
      <4>2. x \in Held[q] <=> \E c \in Bufs : owner[c] = q /\ blockno[c] = x
        BY Zenon, HeldNow
      <4>3. \A c \in Bufs : owner'[c] = q <=> owner[c] = q /\ c # b
        BY Zenon, <1>0, <1>4
      <4> QED
        BY Zenon, <1>3, <4>1, <4>2, <4>3
    <3>2. Held'[q] = Held[q] \ {k}
      BY <3>1
    <3> QED
      BY Zenon, <2>2, <3>2
  <2>3. CASE q # p
    <3>1. {c \in Bufs : owner'[c] = q} = {c \in Bufs : owner[c] = q}
      BY Zenon, <1>0, <1>2, <1>4, <2>3
    <3>2. Held'[q] = Held[q]
      BY Zenon, <2>1, <3>1 DEF Held
    <3> QED
      BY Zenon, <2>3, <3>2
  <2> QED
    BY Zenon, <2>2, <2>3
<1>7. Held' = [Held EXCEPT ![p] = @ \ {k}]
  <2>1. Held' = [q \in Procs |-> Held'[q]]
    BY Zenon DEF Held
  <2>2. Held = [q \in Procs |-> Held[q]]
    BY Zenon DEF Held
  <2>3. [Held EXCEPT ![p] = @ \ {k}] = [q \in Procs |-> IF q = p THEN Held[q] \ {k} ELSE Held[q]]
    BY Zenon, <2>2
  <2>4. [q \in Procs |-> Held'[q]] = [q \in Procs |-> IF q = p THEN Held[q] \ {k} ELSE Held[q]]
    BY Zenon, <1>6
  <2> QED
    BY Zenon, <2>1, <2>3, <2>4
<1>8. Content' = Content
  BY Zenon, <1>1, StoreStill
<1>9. Store!Give(p, k)
  BY Zenon, <1>5, <1>7, <1>8 DEF Store!Give
<1> QED
  BY Zenon, <1>2, <1>3, <1>9

\* The cache implements the store of blocks: acquire() and release() of a
\* sleep lock take a block and give it back, a change of a block in hand is the
\* abstract update, and no search, recycling or transfer can be seen.
THEOREM CacheRefinement == Spec => ImplementsBlockStore
<1>1. Init => Store!Init
  <2> SUFFICES ASSUME Init PROVE Store!Init
    OBVIOUS
  <2>1. ASSUME NEW k \in Blocks PROVE Holds(k) = {}
    <3>1. "VALID" \notin {}
      OBVIOUS
    <3> QED
      BY Zenon, <3>1 DEF Init, Holds
  <2>2. Content = [k \in Blocks |-> Zero]
    BY Zenon, <2>1 DEF Init, Content
  <2>3. ASSUME NEW p \in Procs PROVE {c \in Bufs : owner[c] = p} = {}
    BY Zenon, BufAssumption DEF Init
  <2>4. Held = [p \in Procs |-> {}]
    <3>1. ASSUME NEW p \in Procs PROVE {blockno[b] : b \in {c \in Bufs : owner[c] = p}} = {}
      BY Zenon, <2>3
    <3> QED
      BY Zenon, <3>1 DEF Held
  <2> QED
    BY Zenon, <2>2, <2>4 DEF Store!Init
<1>2. CacheInv /\ CacheInv' /\ [Next]_vars => [Store!Next]_(Store!vars)
  <2> SUFFICES ASSUME CacheInv, CacheInv', [Next]_vars PROVE [Store!Next]_(Store!vars)
    OBVIOUS
  <2>1. ASSUME UNCHANGED <<blockno, owner>>, Content' = Content PROVE UNCHANGED Store!vars
    <3>1. Held' = Held
      BY Zenon, <2>1 DEF Held
    <3> QED
      BY Zenon, <2>1, <3>1 DEF Store!vars
  <2>2. ASSUME UNCHANGED <<blockno, flags, data, owner, disk>> PROVE UNCHANGED Store!vars
    BY Zenon, <2>1, <2>2, StoreStill
  <2>3. ASSUME NEW p \in Procs, NEW k \in Blocks, BgetHit(p, k) PROVE UNCHANGED Store!vars
    BY Zenon, <2>2, <2>3 DEF BgetHit, device
  <2>4. ASSUME NEW p \in Procs, NEW k \in Blocks, BgetRecycles(p, k) PROVE UNCHANGED Store!vars
    BY Zenon, <2>4, RecycleUnseen DEF Store!vars
  <2>5. ASSUME NEW p \in Procs, AcquireSleeps(p) \/ Read(p) \/ Rdwr(p) \/ RdwrTest(p) \/ Relse(p)
        PROVE  UNCHANGED Store!vars
    BY Zenon, <2>2, <2>5 DEF AcquireSleeps, Read, Rdwr, RdwrTest, Relse, bufs, device
  <2>6. ASSUME NEW p \in Procs, Acquire(p) PROVE Store!Next
    BY Zenon, <2>6, AcquireSeen DEF Store!Next
  <2>7. ASSUME NEW p \in Procs, Release(p) PROVE Store!Next
    BY Zenon, <2>7, ReleaseSeen DEF Store!Next
  <2>8. ASSUME NEW p \in Procs, NEW v \in Vals, Log(p, v) \/ Write(p, v) PROVE Store!Next
    BY Zenon, <2>8, UpdateSeen DEF Store!Next
  <2>9. CASE Transfer
    BY Zenon, <2>1, <2>9, TransferUnseen DEF Transfer
  <2>10. CASE Interrupt
    BY Zenon, <2>1, <2>10, InterruptUnseen DEF Interrupt
  <2>11. CASE UNCHANGED vars
    BY Zenon, <2>2, <2>11 DEF vars, bufs, device
  <2> QED
    BY Zenon, <2>3, <2>4, <2>5, <2>6, <2>7, <2>8, <2>9, <2>10, <2>11 DEF Next, Step
<1> QED
  BY <1>1, <1>2, CacheHolds, PTL DEF Spec, ImplementsBlockStore, Store!Spec
=============================================================================
