--------------------------------- MODULE Vm ---------------------------------
(***************************************************************************)
(* User address spaces: the page allocator (kernel/src/kalloc.rs), page    *)
(* tables (vm.rs), and the operations that build, grow, copy and free them *)
(* (adjsize, fork, exit, wait and the scheduler in proc.rs; exec.rs).      *)
(*                                                                         *)
(* A table is the set of its nodes <<level, index>>: level 0 is a user     *)
(* page, level l > 0 a table page that covers FANOUT^l pages.  Together    *)
(* with its root every node is one page of the allocator, which is a count *)
(* (kalloc hands out any page).  Growing and copying take one step per     *)
(* page, so that the processors compete for memory; freeing is one step.   *)
(* Interrupts are off in system calls, so a process leaves its processor   *)
(* in user space, or where exec sleeps on a file.                          *)
(***************************************************************************)
EXTENDS Integers, Sequences, FiniteSets, FiniteSetsExt, SequencesExt

CONSTANTS Procs, InitProc, CPUs,
          FANOUT, LEVELS,        \* 512 and 3 below the root
          PAGE_SIZE,             \* bytes of a page
          USERSTACK, USEREND,    \* in pages
          NPages,                \* pages of memory
          Deltas,                \* arguments of sbrk
          Programs,              \* the ends of the segments of each program
          WIDTH                  \* values of a usize

ASSUME VmAssumption ==
  /\ InitProc \in Procs
  /\ {FANOUT, LEVELS, PAGE_SIZE, NPages, WIDTH} \subseteq Nat \ {0}
  /\ USERSTACK \in 1..(USEREND - 1) /\ USEREND = FANOUT ^ LEVELS
  /\ USEREND * PAGE_SIZE < WIDTH
  /\ Deltas \subseteq Int /\ \A prog \in Programs : \A i \in DOMAIN prog : prog[i] \in Nat

None == 0
Ids == 1..(2 * Cardinality(Procs))     \* bound: page tables at a time

VARIABLES
  free,          \* pages on the free list
  lost,          \* pages that no one can free any more
  table, live,   \* the nodes of each page table; the tables that exist
  pgtbl, size,   \* PerProc.pgtbl and Proc.size
  st,            \* Proc.state
  on, cr3,       \* the process and the page table of each processor
  plock,         \* PROCS, while fork() holds it over several steps
  pc,            \* where each process is
  work           \* the locals of its call

vars == <<free, lost, table, live, pgtbl, size, st, on, cr3, plock, pc, work>>

\* Locals: the table being filled; alloc_user's bounds in bytes and next page;
\* the segments to come; the child that fork() is making.
Idle == [tbl |-> None, old |-> 0, new |-> 0, at |-> 0, segs |-> <<>>, sz |-> 0, child |-> InitProc]

NodeOf(l, v) == <<l, v \div (FANOUT ^ l)>>
Under(t, n) == {m \in t : m[1] = n[1] - 1 /\ m[2] \div FANOUT = n[2]}

\* The pages of an address space of n bytes, and its exact table.
PageRoundUp(n) == (n + PAGE_SIZE - 1) \div PAGE_SIZE
UserPages(n) == (0..(PageRoundUp(n) - 1)) \cup (USERSTACK..(USEREND - 1))
TableOf(n) == {NodeOf(l, v) : l \in 0..LEVELS, v \in UserPages(n)}

\* The first process after its exec of init, on the first processor.
Init ==
  /\ table = [i \in Ids |-> IF i = 1 THEN TableOf(PAGE_SIZE) ELSE {}]
  /\ live = {1} /\ lost = 0
  /\ free = NPages - Cardinality(TableOf(PAGE_SIZE)) - 2
  /\ pgtbl = [p \in Procs |-> IF p = InitProc THEN 1 ELSE None]
  /\ size = [p \in Procs |-> IF p = InitProc THEN PAGE_SIZE ELSE 0]
  /\ st = [p \in Procs |-> IF p = InitProc THEN "RUNNABLE" ELSE "UNUSED"]
  /\ on = [c \in CPUs |-> None] /\ cr3 = [c \in CPUs |-> None]
  /\ plock = None
  /\ pc = [p \in Procs |-> "user"] /\ work = [p \in Procs |-> Idle]
-----------------------------------------------------------------------------
(* Page tables.                                                            *)

\* The tables that next_mut allocates on the way to page v, top down.
Missing(t, v) == SelectSeq([k \in 1..LEVELS |-> NodeOf(LEVELS + 1 - k, v)], LAMBDA n : n \notin t)

\* map_to with so many free pages: on failure the tables it got stay.
Mappable(t, v, avail) == Len(Missing(t, v)) <= avail
MapTo(t, v, avail) ==
  IF Mappable(t, v, avail) THEN t \cup Range(Missing(t, v)) \cup {NodeOf(0, v)}
  ELSE t \cup Range(SubSeq(Missing(t, v), 1, avail))

\* Mutant: tables left without entries are kept.
KeepsEmptyTables(t, s, e) == t \ {<<0, v>> : v \in s..(e - 1)}
\* free_user_pages from page s to page e: the pages in the range, then, bottom
\* up, the tables in the range that have become empty.
FreeUserPages(t, s, e) ==
  LET Visited(n) == s < e /\ n[2] * FANOUT ^ n[1] < e /\ (n[2] + 1) * FANOUT ^ n[1] > s
      Kept[l \in 0..LEVELS] ==
        {n \in t : n[1] = l /\ (Visited(n) => l > 0 /\ Under(Kept[l - 1], n) # {})}
  IN UNION {Kept[l] : l \in 0..LEVELS}

\* dealloc_user, in bytes.
DeallocUser(t, old, new) == FreeUserPages(t, PageRoundUp(new), PageRoundUp(old))

\* kalloc: n pages from the free list, n pages back to it.
Alloc(n) == free >= n /\ free' = free - n
GiveBack(n) == free' = free + n

NewId == Min(Ids \ live)
\* The pages that Drop for PageTable gives back, its root included.
Dropped(i) == 1 + Cardinality(table[i]) - Cardinality(FreeUserPages(table[i], 0, USEREND))
DropTable(i) == live' = live \ {i} /\ table' = [table EXCEPT ![i] = {}]

Running(p) == \E c \in CPUs : on[c] = p
Runs(p, point) == Running(p) /\ pc[p] = point
Go(p, point, w) == pc' = [pc EXCEPT ![p] = point] /\ work' = [work EXCEPT ![p] = w]
-----------------------------------------------------------------------------
(* The scheduler.                                                          *)

Dispatch(c, p) ==
  /\ plock = None /\ on[c] = None /\ st[p] = "RUNNABLE"
  /\ st' = [st EXCEPT ![p] = "RUNNING"]
  /\ on' = [on EXCEPT ![c] = p]
  /\ cr3' = [cr3 EXCEPT ![c] = pgtbl[p]]
  /\ UNCHANGED <<free, lost, table, live, pgtbl, size, plock, pc, work>>

KernelTable(c) == [cr3 EXCEPT ![c] = None]

\* sched(): p leaves its processor, which goes back to kpgtbl.
Leave(c, state) ==
  /\ plock = None /\ on[c] # None
  /\ st' = [st EXCEPT ![on[c]] = state]
  /\ on' = [on EXCEPT ![c] = None]
  /\ cr3' = KernelTable(c)

Yield(c) ==
  /\ Leave(c, "RUNNABLE") /\ pc[on[c]] \in {"user", "exec"}
  /\ UNCHANGED <<free, lost, table, live, pgtbl, size, plock, pc, work>>
Exit(c) ==
  /\ Leave(c, "ZOMBIE") /\ on[c] # InitProc /\ pc[on[c]] = "user"
  /\ UNCHANGED <<free, lost, table, live, pgtbl, size, plock, pc, work>>

\* wait1() takes stack and table of a zombie under PROCS and frees the slot ...
WaitTakes(p, q) ==
  /\ Runs(p, "user") /\ plock = None /\ st[q] = "ZOMBIE"
  /\ st' = [st EXCEPT ![q] = "UNUSED"]
  /\ pgtbl' = [pgtbl EXCEPT ![q] = None] /\ size' = [size EXCEPT ![q] = 0]
  /\ Go(p, "reap", [Idle EXCEPT !.tbl = pgtbl[q]])
  /\ UNCHANGED <<free, lost, table, live, on, cr3, plock>>

\* ... and wait() frees both after the lock.
WaitFrees(p) ==
  /\ Runs(p, "reap")
  /\ GiveBack(1 + Dropped(work[p].tbl))
  /\ DropTable(work[p].tbl)
  /\ Go(p, "user", Idle)
  /\ UNCHANGED <<lost, pgtbl, size, st, on, cr3, plock>>
-----------------------------------------------------------------------------
(* sbrk and alloc_user.                                                    *)

\* adjsize with wrapping arithmetic.  Bound: no break inside the stack.
Sbrk(p, d) ==
  LET old == size[p]
      new == (old + d) % WIDTH
  IN /\ Runs(p, "user") /\ PageRoundUp(new) <= USERSTACK
     /\ IF d < 0
        THEN /\ new <= old
             /\ table' = [table EXCEPT ![pgtbl[p]] = DeallocUser(@, old, new)]
             /\ free' = free + Cardinality(table[pgtbl[p]]) - Cardinality(table'[pgtbl[p]])
             /\ size' = [size EXCEPT ![p] = new] /\ UNCHANGED <<pc, work>>
        ELSE /\ old < new
             /\ Go(p, "sbrk", [Idle EXCEPT !.tbl = pgtbl[p], !.old = old, !.new = new,
                                           !.at = PageRoundUp(old)])
             /\ UNCHANGED <<table, free, size>>
     /\ UNCHANGED <<lost, live, pgtbl, st, on, cr3, plock>>

\* One page of alloc_user's loop, with memory for it.
AllocPage(p) ==
  LET w == work[p]
      t == table[w.tbl]
  IN /\ pc[p] \in {"sbrk", "seg", "stack"} /\ Running(p)
     /\ w.at < PageRoundUp(w.new)
     /\ free > 0 /\ Mappable(t, w.at, free - 1)
     /\ table' = [table EXCEPT ![w.tbl] = MapTo(t, w.at, free - 1)]
     /\ free' = free - 1 - Len(Missing(t, w.at))
     /\ work' = [work EXCEPT ![p].at = @ + 1]
     /\ UNCHANGED <<lost, live, pgtbl, size, st, on, cr3, plock, pc>>

\* Mutant: the pages allocated so far stay.
KeepsPartial(t, old, new) == t
Undo(t, old, new) == DeallocUser(t, new, old)

\* Without it alloc_user gives back what it mapped, but not the page that it
\* could not map; sbrk returns an error, exec drops the new table.
AllocPageFails(p) ==
  LET w == work[p]
      got == Min({1, free})            \* the page itself
      t == IF got = 0 THEN table[w.tbl] ELSE MapTo(table[w.tbl], w.at, free - 1)
      u == Undo(t, w.old, w.new)
      rest == free - got + Cardinality(table[w.tbl]) - Cardinality(u)
  IN /\ pc[p] \in {"sbrk", "seg", "stack"} /\ Running(p)
     /\ w.at < PageRoundUp(w.new)
     /\ free = 0 \/ ~Mappable(table[w.tbl], w.at, free - 1)
     /\ lost' = lost + got
     /\ IF pc[p] = "sbrk"
        THEN table' = [table EXCEPT ![w.tbl] = u] /\ free' = rest /\ UNCHANGED live
        ELSE DropTable(w.tbl) /\ free' = rest + 1 + Cardinality(u)
     /\ Go(p, "user", Idle)
     /\ UNCHANGED <<pgtbl, size, st, on, cr3, plock>>

SbrkDone(p) ==
  /\ Runs(p, "sbrk") /\ work[p].at = PageRoundUp(work[p].new)
  /\ size' = [size EXCEPT ![p] = work[p].new]
  /\ Go(p, "user", Idle)
  /\ UNCHANGED <<free, lost, table, live, pgtbl, st, on, cr3, plock>>
-----------------------------------------------------------------------------
(* exec.                                                                   *)

\* new_pgtbl, then the file: with_op and namei may sleep.
Exec(p, prog) ==
  /\ Runs(p, "user") /\ Alloc(1)
  /\ live' = live \cup {NewId}
  /\ Go(p, "exec", [Idle EXCEPT !.tbl = NewId, !.segs = prog])
  /\ UNCHANGED <<lost, table, pgtbl, size, st, on, cr3, plock>>

\* page_alloc_user for the next segment, then load_section; after the last one
\* the stack.  A segment that ends below the size so far allocates nothing.
Segment(p) ==
  LET w == work[p] IN
  /\ Runs(p, "exec") /\ w.segs # <<>>
  /\ IF Head(w.segs) <= w.sz
     THEN Go(p, "exec", [w EXCEPT !.segs = Tail(@)])
     ELSE Go(p, "seg", [w EXCEPT !.segs = Tail(@), !.old = w.sz, !.new = Head(w.segs),
                                 !.at = PageRoundUp(w.sz), !.sz = Head(w.segs)])
  /\ UNCHANGED <<free, lost, table, live, pgtbl, size, st, on, cr3, plock>>
SegmentDone(p) ==
  /\ Runs(p, "seg") /\ work[p].at = PageRoundUp(work[p].new)
  /\ Go(p, "exec", work[p])
  /\ UNCHANGED <<free, lost, table, live, pgtbl, size, st, on, cr3, plock>>
Stack(p) ==
  /\ Runs(p, "exec") /\ work[p].segs = <<>>
  /\ Go(p, "stack", [work[p] EXCEPT !.old = USERSTACK * PAGE_SIZE,
                                    !.new = USEREND * PAGE_SIZE, !.at = USERSTACK])
  /\ UNCHANGED <<free, lost, table, live, pgtbl, size, st, on, cr3, plock>>

\* A bad header, a short read or arguments too long: the new table is dropped.
ExecFails(p) ==
  /\ Runs(p, "exec") \/ (Runs(p, "stack") /\ work[p].at = USEREND)
  /\ GiveBack(Dropped(work[p].tbl))
  /\ DropTable(work[p].tbl)
  /\ Go(p, "user", Idle)
  /\ UNCHANGED <<lost, pgtbl, size, st, on, cr3, plock>>

\* Mutant: the new table is loaded when the process is next dispatched.
SwitchedLater(p) == cr3
Switched(p) == [c \in CPUs |-> IF on[c] = p THEN work[p].tbl ELSE cr3[c]]

\* The commit: switch_pgtbl loads the new table ...
ExecSwitches(p) ==
  /\ Runs(p, "stack") /\ work[p].at = USEREND
  /\ cr3' = Switched(p)
  /\ Go(p, "switched", work[p])
  /\ UNCHANGED <<free, lost, table, live, pgtbl, size, st, on, plock>>

\* ... and makes it the process's ...
ExecReplaces(p) ==
  /\ Runs(p, "switched")
  /\ pgtbl' = [pgtbl EXCEPT ![p] = work[p].tbl]
  /\ size' = [size EXCEPT ![p] = work[p].sz]
  /\ Go(p, "replaced", [Idle EXCEPT !.tbl = pgtbl[p]])
  /\ UNCHANGED <<free, lost, table, live, st, on, cr3, plock>>

\* ... before the previous one is dropped.
ExecDrops(p) ==
  /\ Runs(p, "replaced")
  /\ GiveBack(Dropped(work[p].tbl))
  /\ DropTable(work[p].tbl)
  /\ Go(p, "user", Idle)
  /\ UNCHANGED <<lost, pgtbl, size, st, on, cr3, plock>>
-----------------------------------------------------------------------------
(* fork.                                                                   *)

\* A stack, PROCS, a free slot and the root of the copy.
Fork(p, q) ==
  /\ Runs(p, "user") /\ plock = None /\ st[q] = "UNUSED" /\ Alloc(2)
  /\ plock' = p /\ st' = [st EXCEPT ![q] = "EMBRYO"]
  /\ live' = live \cup {NewId}
  /\ Go(p, "fork", [Idle EXCEPT !.tbl = NewId, !.child = q])
  /\ UNCHANGED <<lost, table, pgtbl, size, on, cr3>>

\* The next page of copy_region: the two regions one after the other.
NextCopied(p, v) == IF v = PageRoundUp(size[p]) THEN Max({v, USERSTACK}) ELSE v
CopyPage(p) ==
  LET w == work[p]
      v == NextCopied(p, w.at)
      t == table[w.tbl]
  IN /\ Runs(p, "fork") /\ v < USEREND
     /\ IF free > 0 /\ Mappable(t, v, free - 1)
        THEN /\ table' = [table EXCEPT ![w.tbl] = MapTo(t, v, free - 1)]
             /\ free' = free - 1 - Len(Missing(t, v))
             /\ work' = [work EXCEPT ![p].at = v + 1]
             /\ UNCHANGED <<live, st, plock, pc>>
        ELSE /\ free' = free + 1 + Dropped(w.tbl)
             /\ DropTable(w.tbl)
             /\ st' = [st EXCEPT ![w.child] = "UNUSED"]
             /\ plock' = None /\ Go(p, "user", Idle)
     /\ UNCHANGED <<lost, pgtbl, size, on, cr3>>

ForkDone(p) ==
  /\ Runs(p, "fork") /\ NextCopied(p, work[p].at) = USEREND
  /\ pgtbl' = [pgtbl EXCEPT ![work[p].child] = work[p].tbl]
  /\ size' = [size EXCEPT ![work[p].child] = size[p]]
  /\ st' = [st EXCEPT ![work[p].child] = "RUNNABLE"]
  /\ plock' = None /\ Go(p, "user", Idle)
  /\ UNCHANGED <<free, lost, table, live, on, cr3>>
-----------------------------------------------------------------------------
Next ==
  \/ \E c \in CPUs : Yield(c) \/ Exit(c) \/ \E p \in Procs : Dispatch(c, p)
  \/ \E p, q \in Procs : WaitTakes(p, q) \/ Fork(p, q)
  \/ \E p \in Procs :
       \/ WaitFrees(p) \/ AllocPage(p) \/ AllocPageFails(p) \/ SbrkDone(p)
       \/ Segment(p) \/ SegmentDone(p) \/ Stack(p) \/ ExecFails(p)
       \/ ExecSwitches(p) \/ ExecReplaces(p) \/ ExecDrops(p)
       \/ CopyPage(p) \/ ForkDone(p)
       \/ \E d \in Deltas : Sbrk(p, d)
       \/ \E prog \in Programs : Exec(p, prog)
Spec == Init /\ [][Next]_vars
-----------------------------------------------------------------------------
\* Every variable has a value of its type.
TypeOK ==
  /\ free \in 0..NPages /\ lost \in 0..NPages /\ live \subseteq Ids
  /\ pgtbl \in [Procs -> Ids \cup {None}] /\ size \in [Procs -> 0..(USEREND * PAGE_SIZE)]
  /\ st \in [Procs -> {"UNUSED", "EMBRYO", "RUNNABLE", "RUNNING", "ZOMBIE"}]
  /\ on \in [CPUs -> Procs \cup {None}] /\ cr3 \in [CPUs -> Ids \cup {None}]
  /\ pc \in [Procs -> {"user", "reap", "sbrk", "exec", "seg", "stack", "switched",
                     "replaced", "fork"}]

\* Between its calls a process has exactly the pages its size says, the stack,
\* and the page tables they need: no hole (dup's "entry should exist"), nothing
\* mapped beyond the break, no empty table, after every failed sbrk and exec.
SpaceExact ==
  TypeOK /\ \A p \in Procs :
    pgtbl[p] # None /\ pc[p] # "sbrk" => table[pgtbl[p]] = TableOf(size[p])

\* The pages of memory are on the free list, in one table or stack, or were
\* lost by alloc_user: none is freed twice, none else leaks, on every path.
PagesExact ==
  free + lost + Cardinality({p \in Procs : st[p] # "UNUSED"})
    + Cardinality({p \in Procs : pc[p] = "reap"})
    + FoldSet(LAMBDA i, n : n + 1 + Cardinality(table[i]), 0, live) = NPages

\* A processor runs on the table of its process, or on the kernel's, and never
\* on one that was freed, whichever processor exec, exit and wait run on.  Only
\* exec runs on another table than the process's: on the new one, until that is
\* the process's.
LoadedTableLives ==
  \A c \in CPUs :
    /\ cr3[c] = IF on[c] = None THEN None
                ELSE IF pc[on[c]] = "switched" THEN work[on[c]].tbl ELSE pgtbl[on[c]]
    /\ cr3[c] # None => cr3[c] \in live
=============================================================================
