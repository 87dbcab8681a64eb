------------------------------ MODULE BufCache ------------------------------
(***************************************************************************)
(* The buffer cache (kernel/src/bio.rs), the sleep locks of its buffers    *)
(* (sleeplock.rs) and the request queue of the disk driver (sd.rs).        *)
(*                                                                         *)
(* Sections under BCACHE, under QUEUE and under the spinlock of a sleep    *)
(* lock are single actions.  A process that sleeps is at point "asleep"    *)
(* (for a buffer's lock) or "io" (for its disk transfer); wakeup() sends   *)
(* it back to the test of its loop.  A process may take a second buffer    *)
(* while it holds one, in the order Nesting, as the log and bmap() do.     *)
(***************************************************************************)
EXTENDS Naturals, FiniteSets

CONSTANTS Procs, NoProc, NBUF, Blocks, NoBlock, Vals, Zero,
          Nesting,    \* <<j, k>>: block k is taken while block j is held (never j itself)
          Logged,     \* blocks that are changed through the log
          Direct      \* blocks that are written at once, by the log

ASSUME BufAssumption ==
  /\ IsFiniteSet(Procs) /\ NoProc \notin Procs /\ NBUF \in Nat \ {0, 1}
  /\ NoBlock \notin Blocks /\ Zero \in Vals
  /\ \A k \in Blocks : <<k, k>> \notin Nesting

Bufs == 1..NBUF
NONE == 0             \* LIST_NONE: no buffer

VARIABLES
  head, tail, prev, next,    \* the LRU list
  blockno, flags, ref_cnt, data,
  owner,                     \* Sleeplock.pid of each buffer: its holder, or NoProc
  queue, qnext,              \* the disk's request queue
  drive,                     \* the buffer of the command in progress
  irq,                       \* the command is done and the interrupt pending
  disk,
  pc, buf, outer,            \* each process: its point, its buffer, the outer one
  panic

list == <<head, tail, prev, next>>
bufs == <<blockno, flags, ref_cnt, data, owner>>
device == <<queue, qnext, drive, irq, disk>>
procs == <<pc, buf, outer>>
vars == <<list, bufs, device, procs, panic>>

\* bio::init.
Init ==
  /\ head = 1 /\ tail = NBUF
  /\ prev = [b \in Bufs |-> b - 1]
  /\ next = [b \in Bufs |-> IF b = NBUF THEN NONE ELSE b + 1]
  /\ blockno = [b \in Bufs |-> NoBlock]
  /\ flags = [b \in Bufs |-> {}]
  /\ ref_cnt = [b \in Bufs |-> 0]
  /\ data = [b \in Bufs |-> Zero]
  /\ owner = [b \in Bufs |-> NoProc]
  /\ queue = NONE /\ qnext = [b \in Bufs |-> NONE]
  /\ drive = NONE /\ irq = FALSE
  /\ disk = [k \in Blocks |-> Zero]
  /\ pc = [p \in Procs |-> "idle"]
  /\ buf = [p \in Procs |-> NONE] /\ outer = [p \in Procs |-> NONE]
  /\ panic = FALSE

At(p, point) == pc[p] = point /\ ~panic
Goto(p, point) == pc' = [pc EXCEPT ![p] = point] /\ UNCHANGED <<buf, outer>>

\* wakeup(): the processes at point with buffer b, and p's next point.
Wake(b, asleep, awake, p, point) ==
  [q \in Procs |-> IF q = p THEN point
                   ELSE IF pc[q] = asleep /\ buf[q] = b THEN awake ELSE pc[q]]

\* The buffers met on the way from first along link.
Walk(first, link) ==
  LET w[i \in Bufs] == IF i = 1 THEN first
                       ELSE IF w[i - 1] = NONE THEN NONE ELSE link[w[i - 1]]
  IN w

\* The first of them that is in S, or NONE.
FirstIn(S, first, link) ==
  LET w == Walk(first, link)
      hits == {i \in Bufs : w[i] \in S}
  IN  IF hits = {} THEN NONE ELSE w[CHOOSE i \in hits : \A j \in hits : i <= j]
-----------------------------------------------------------------------------
(* bget() and the sleep lock.                                              *)

\* bget() looks for the block from the head of the list, then for a buffer to
\* recycle from its tail.
Cached(k) == FirstIn({b \in Bufs : blockno[b] = k}, head, next)
\* Mutants: a DIRTY buffer is recycled; a buffer in use is.
RecycleDirty == FirstIn({b \in Bufs : ref_cnt[b] = 0}, tail, prev)
RecycleUsed == FirstIn({b \in Bufs : "DIRTY" \notin flags[b]}, tail, prev)
Victim == FirstIn({b \in Bufs : ref_cnt[b] = 0 /\ "DIRTY" \notin flags[b]}, tail, prev)

\* p calls bget(k): outside any block, or inside one.
Calls(p, k) ==
  /\ At(p, "idle") \/ (At(p, "use") /\ outer[p] = NONE /\ <<blockno[buf[p]], k>> \in Nesting)

Take(p, b) ==
  /\ ref_cnt' = [ref_cnt EXCEPT ![b] = @ + 1]
  /\ pc' = [pc EXCEPT ![p] = "lock"]
  /\ buf' = [buf EXCEPT ![p] = b]
  /\ outer' = [outer EXCEPT ![p] = buf[p]]

\* (With neither a hit nor a victim bget() fails and changes nothing.)
BgetHit(p, k) ==
  /\ Calls(p, k)
  /\ Cached(k) # NONE
  /\ Take(p, Cached(k))
  /\ UNCHANGED <<list, blockno, flags, data, owner, device, panic>>

BgetRecycles(p, k) ==
  /\ Calls(p, k)
  /\ Cached(k) = NONE /\ Victim # NONE
  /\ Take(p, Victim)
  /\ blockno' = [blockno EXCEPT ![Victim] = k]
  /\ flags' = [flags EXCEPT ![Victim] = {}]
  /\ UNCHANGED <<list, data, owner, device, panic>>

\* Sleeplock::acquire: its assert, and one turn of its loop.
Acquire(p) ==
  /\ At(p, "lock")
  /\ owner[buf[p]] = NoProc
  /\ owner' = [owner EXCEPT ![buf[p]] = p]
  /\ Goto(p, "read")
  /\ UNCHANGED <<list, blockno, flags, ref_cnt, data, device, panic>>

AcquireSleeps(p) ==
  /\ At(p, "lock")
  /\ owner[buf[p]] # NoProc
  /\ panic' = (owner[buf[p]] = p)
  /\ Goto(p, "asleep")
  /\ UNCHANGED <<list, bufs, device>>

\* Buf::read.
\* Mutant: the block is read from the disk also when it is valid.
ReadAlways(p) ==
  /\ At(p, "read")
  /\ Goto(p, "rdwr")
  /\ UNCHANGED <<list, bufs, device, panic>>
Read(p) ==
  /\ At(p, "read")
  /\ Goto(p, IF "VALID" \in flags[buf[p]] THEN "use" ELSE "rdwr")
  /\ UNCHANGED <<list, bufs, device, panic>>
-----------------------------------------------------------------------------
(* The disk driver.                                                        *)

\* bio::enqueue appends b at the end of the chain of qnext.
QueueTail == CHOOSE b \in Bufs : (\E i \in Bufs : Walk(queue, qnext)[i] = b) /\ qnext[b] = NONE
Enqueue(b) == [qnext EXCEPT ![b] = NONE, ![QueueTail] = b]

\* sd::rdwr up to its sleep.
Rdwr(p) ==
  LET b == buf[p] IN
  /\ At(p, "rdwr")
  /\ panic' = (owner[b] # p \/ flags[b] = {"VALID"})
  /\ IF queue = NONE THEN /\ queue' = b /\ drive' = b
                          /\ qnext' = [qnext EXCEPT ![b] = NONE]
                     ELSE /\ qnext' = Enqueue(b)
                          /\ UNCHANGED <<queue, drive>>
  /\ Goto(p, "io")
  /\ UNCHANGED <<list, bufs, irq, disk>>

\* The drive moves the block and raises its interrupt, after the handler of
\* the one before is done.
Transfer ==
  /\ drive # NONE /\ ~irq /\ ~panic
  /\ IF "DIRTY" \in flags[drive]
     THEN disk' = [disk EXCEPT ![blockno[drive]] = data[drive]] /\ UNCHANGED data
     ELSE data' = [data EXCEPT ![drive] = disk[blockno[drive]]] /\ UNCHANGED disk
  /\ irq' = TRUE
  /\ UNCHANGED <<list, blockno, flags, ref_cnt, owner, queue, qnext, drive, procs, panic>>

\* The command that sd::interrupt starts, if any.
\* Mutant: it starts none.
StartNone == NONE
StartNext == qnext[queue]

\* sd::interrupt.
Interrupt ==
  /\ irq /\ ~panic
  /\ flags' = [flags EXCEPT ![queue] = {"VALID"}]
  /\ pc' = Wake(queue, "io", "checkio", NoProc, "idle")
  /\ queue' = qnext[queue]
  /\ drive' = StartNext
  /\ irq' = FALSE
  /\ UNCHANGED <<list, blockno, ref_cnt, data, owner, qnext, disk, buf, outer, panic>>

\* rdwr, awake: the loop's test.
RdwrTest(p) ==
  /\ At(p, "checkio")
  /\ Goto(p, IF flags[buf[p]] = {"VALID"} THEN "use" ELSE "io")
  /\ UNCHANGED <<list, bufs, device, panic>>
-----------------------------------------------------------------------------
(* What a process does with the buffer it holds, and relse().              *)

\* It changes the block and calls fslog::write.
Log(p, v) ==
  /\ At(p, "use") /\ blockno[buf[p]] \in Logged
  /\ data' = [data EXCEPT ![buf[p]] = v]
  /\ flags' = [flags EXCEPT ![buf[p]] = @ \cup {"DIRTY"}]
  /\ panic' = (owner[buf[p]] # p)
  /\ UNCHANGED <<list, blockno, ref_cnt, owner, device, procs>>

\* It is the log, which changes its own block or one at home and calls Buf::write.
Write(p, v) ==
  /\ At(p, "use") /\ blockno[buf[p]] \in Direct
  /\ data' = [data EXCEPT ![buf[p]] = v]
  /\ flags' = [flags EXCEPT ![buf[p]] = @ \cup {"DIRTY"}]
  /\ panic' = (owner[buf[p]] # p)
  /\ Goto(p, "rdwr")
  /\ UNCHANGED <<list, blockno, ref_cnt, owner, device>>

\* Mutant: release() wakes nobody.
WakeNobody(p) == [pc EXCEPT ![p] = "relse"]
WakeWaiters(p) == Wake(buf[p], "asleep", "lock", p, "relse")

\* relse(): Sleeplock::release, and then the section under BCACHE.
Release(p) ==
  /\ At(p, "use")
  /\ panic' = (owner[buf[p]] # p)
  /\ owner' = [owner EXCEPT ![buf[p]] = NoProc]
  /\ pc' = WakeWaiters(p)
  /\ UNCHANGED <<list, blockno, flags, ref_cnt, data, device, buf, outer>>

\* The list once b is moved to its head.
\* Mutant: the tail is not moved back.
TailKept(b) == tail
NewTail(b) == IF tail = b THEN prev[b] ELSE tail

Links(f, b, val) == IF b = NONE THEN f ELSE [f EXCEPT ![b] = val]

MoveToHead(b) ==
  /\ head' = b
  /\ tail' = NewTail(b)
  /\ prev' = [Links(prev, next[b], prev[b]) EXCEPT ![b] = NONE, ![head] = b]
  /\ next' = [Links(next, prev[b], next[b]) EXCEPT ![b] = head]

Relse(p) ==
  /\ At(p, "relse")
  /\ ref_cnt' = [ref_cnt EXCEPT ![buf[p]] = @ - 1]
  /\ IF ref_cnt[buf[p]] = 1 /\ head # buf[p] THEN MoveToHead(buf[p]) ELSE UNCHANGED list
  /\ pc' = [pc EXCEPT ![p] = IF outer[p] = NONE THEN "idle" ELSE "use"]
  /\ buf' = [buf EXCEPT ![p] = outer[p]]
  /\ outer' = [outer EXCEPT ![p] = NONE]
  /\ UNCHANGED <<blockno, flags, data, owner, device, panic>>
-----------------------------------------------------------------------------
Step(p) ==
  AcquireSleeps(p) \/ Read(p) \/ Rdwr(p) \/ RdwrTest(p) \/ Release(p) \/ Relse(p)

Next ==
  \/ \E p \in Procs : Step(p) \/ Acquire(p)
  \/ \E p \in Procs, k \in Blocks : BgetHit(p, k) \/ BgetRecycles(p, k)
  \/ \E p \in Procs, v \in Vals : Log(p, v) \/ Write(p, v)
  \/ Transfer \/ Interrupt

Spec == Init /\ [][Next]_vars

(* Fairness: a process runs on and gives back the buffers it holds, the    *)
(* inner and the outer one; a sleeper that is woken again and again gets   *)
(* its turn; the disk does its work.                                       *)
Fairness ==
  /\ \A p \in Procs : /\ WF_vars(Step(p)) /\ SF_vars(Acquire(p)) /\ SF_vars(Release(p))
                      /\ SF_vars(outer[p] = NONE /\ Release(p))
  /\ WF_vars(Transfer) /\ WF_vars(Interrupt)

FairSpec == Spec /\ Fairness
-----------------------------------------------------------------------------
Points == {"idle", "lock", "asleep", "read", "rdwr", "io", "checkio", "use", "relse"}

\* Every variable has a value of its type.
TypeOK ==
  /\ head \in Bufs /\ tail \in Bufs
  /\ prev \in [Bufs -> Bufs \cup {NONE}] /\ next \in [Bufs -> Bufs \cup {NONE}]
  /\ blockno \in [Bufs -> Blocks \cup {NoBlock}]
  /\ flags \in [Bufs -> SUBSET {"VALID", "DIRTY"}]
  /\ ref_cnt \in [Bufs -> Nat] /\ data \in [Bufs -> Vals]
  /\ owner \in [Bufs -> Procs \cup {NoProc}]
  /\ queue \in Bufs \cup {NONE} /\ drive \in Bufs \cup {NONE} /\ irq \in BOOLEAN
  /\ qnext \in [Bufs -> Bufs \cup {NONE}]
  /\ disk \in [Blocks -> Vals]
  /\ pc \in [Procs -> Points]
  /\ buf \in [Procs -> Bufs \cup {NONE}] /\ outer \in [Procs -> Bufs \cup {NONE}]
  /\ panic \in BOOLEAN

\* Through every relse() in any order the LRU list keeps all buffers, forward
\* from head and backward from tail.
ListWhole ==
  LET forward == Walk(head, next)
      backward == Walk(tail, prev)
  IN  /\ \A b \in Bufs : \E i \in Bufs : forward[i] = b
      /\ \A i \in Bufs : backward[i] = forward[NBUF + 1 - i]

\* ref_cnt counts the processes that have the buffer, those still waiting for
\* its lock included: a buffer somebody waits for is not recycled.
RefExact ==
  \A b \in Bufs : ref_cnt[b] = Cardinality({p \in Procs : buf[p] = b \/ outer[p] = b})

\* The list is whole and the counts are exact.
CacheExact == TypeOK /\ ListWhole /\ RefExact

\* No assert! of bio.rs, sd.rs and sleeplock.rs fails.
NoPanic == ~panic

\* The disk's queue is a chain that holds exactly the buffers whose transfer a
\* process waits for, each once, and the drive works on its head.
Pending == {p \in Procs : pc[p] = "io"}
QueueExact ==
  LET chain == Walk(queue, qnext)
      inQueue == {chain[i] : i \in Bufs} \ {NONE}
  IN  /\ inQueue = {buf[p] : p \in Pending}
      /\ \A i, j \in Bufs : chain[i] = chain[j] => i = j \/ chain[i] = NONE
      /\ drive = queue

\* A process that holds a block sees the block's content.
UsedIsValid == \A p \in Procs : pc[p] = "use" => "VALID" \in flags[buf[p]]

\* A block's content: in its valid buffer if it has one, else on the disk.
Holds(k) == {b \in Bufs : blockno[b] = k /\ "VALID" \in flags[b]}
Content == [k \in Blocks |-> IF Holds(k) = {} THEN disk[k] ELSE data[CHOOSE b \in Holds(k) : TRUE]]
Held == [p \in Procs |-> {blockno[b] : b \in {c \in Bufs : owner[c] = p}}]

\* The cache is invisible: blocks read and write like exclusive registers, so
\* no block has two live buffers, no update is recycled away before it is on
\* disk and no late transfer overwrites a newer content.
Store == INSTANCE BlockStore WITH content <- Content, held <- Held
ImplementsBlockStore == Store!Spec

\* Every transfer ends: rdwr() misses no interrupt and no request is lost.
RdwrReturns == \A p \in Procs : pc[p] = "rdwr" ~> pc[p] = "use"

\* Every acquire of a sleep lock returns: release() misses no waiter.
LockGranted == \A p \in Procs : pc[p] = "lock" ~> pc[p] = "use"
=============================================================================
