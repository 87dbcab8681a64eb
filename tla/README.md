# rxv64 in TLA+

rxv64 is a multiprocessor Unix-like kernel in Rust (a port of xv6 to x86-64).
This directory holds TLA+ models of its concurrent and crash-prone parts, TLC
configurations that check them on small instances, and proofs that TLAPS checks.

## The system and its parts

| part | source (`src/kernel/src/`) | state | operations | hard behaviour |
|---|---|---|---|---|
| spinlocks, interrupt nesting | `spinlock.rs`, `x86_64.rs` | `locked`, `cpu`; per CPU `ncli`, `saved_intr_status`, IF | acquire, release, holding, push/pop_intr_disable | interleaved loads and stores, interrupts between any two instructions |
| processes and scheduler | `proc.rs`, `swtch.S`, `trap.rs`, `syscall.rs` | process table, `PROCS`, per-CPU process and scheduler context | scheduler, sched, fork, exit, wait, sleep, wakeup, kill, yield, traps | a lock handed across `swtch`, sleep/wakeup races, orphans, migration, kill |
| write-ahead log | `fslog.rs` | log blocks and header on disk, in-memory list, `LogState` | begin, write, end, commit, recover | crashes between disk writes, absorption, reservations |
| sleep locks | `sleeplock.rs` | `locked`, `pid` | acquire, release, holding | wakeup of several waiters |
| buffer cache | `bio.rs` | LRU list, reference counts, flags | bget, read, write, relse | recycling, one buffer per block, exhaustion |
| disk driver | `sd.rs` | request queue | rdwr, start, interrupt | completion interrupt against new requests |
| pipes | `pipe.rs` | ring buffer, two open flags | read, write, close, alloc | full, empty, closed end, kill |
| open files | `file.rs`, `proc.rs` | reference counts, descriptor tables | alloc, dup, close | shared files, table exhaustion |
| inodes, directories, paths | `fs.rs`, `sysfile.rs` | inode cache, link counts, bitmap | ialloc, get, put, link, unlink, create, namex | lock order, error paths, last put |
| console, keyboard, display | `console.rs`, `kbd.rs`, `uart.rs`, `cga.rs` | input ring, modifiers, cursor | put, get, read, write, interrupt | editing against reading, wrap-around, sleeping readers |
| memory | `kalloc.rs`, `vm.rs`, `exec.rs` | free list, page tables, the table each CPU runs on | alloc, free, map, dup, sbrk, exec, exit, wait | failure half-way, freeing a loaded table |

The spinlock is below everything. The scheduler hands the lock `PROCS` from one
context to another; `sleep` and `wakeup` on top of it carry every other wait:
sleep locks, pipes, console, log, disk. The log sits between the file system and
the buffer cache, and open files, pipes and inodes share the descriptor tables.
`PROJECT.json` lists every part with its status, the hazards of each by source
line, and the correspondence of definitions and source lines.

Each layer is modelled over the promise of the one below, which a module of its own
shows to be kept: critical sections are atomic above `Spinlock`, `sleep` and
`wakeup` lose nothing above `Proc`, disk operations are atomic above `Log`.

## Modules

### Spinlock, AbstractLock, MCSpinlock

`Spinlock` models `Spinlock::{acquire, release, holding}` and
`CPU::{push,pop}_intr_disable` one memory access per action. `pc[c]` names the
next access of CPU `c`; `call`, `arg`, `enabled` and `result` are the locals.
`held[c]` records the locks whose `acquire` has returned. While IF is on, an
`Interrupt` may come before any access; its handler is kernel code that calls
the same operations and returns with no lock held (`Iret`). The callers are any
code that respects the lock order `LockOrder` and releases what it acquired, in
any order. `panicked` becomes true when an `assert!` fails. `AbstractLock` is the
promise: a lock is free or owned by one CPU.

Memory accesses are sequentially consistent: `xswap` is a locked instruction and
the only reordering x86 adds (a store delayed past a later load) cannot carry the
store to `cpu` past the `xswap` that follows it in `release`.

### Proc

The process table, the per-CPU schedulers and the kernel threads. Each process
has a point `pc[p]` in its kernel code; each CPU has a scheduler context `spc[c]`
and at most one interrupt handler `hpc[c]`. A section under `PROCS` that ends by
releasing it is one action; a section that ends in `sched()` holds `PROCS` until
the context switched to releases it, as in the code. `Spinlock` justifies this:
it shows that a lock excludes and that its holder is not interrupted.
`sleep(chan, lock)` is split at its lock operations and exercised by one
condition `ev` under a lock `lk`, the shape of the loops in `ticksleep`, pipes and
console, woken by an interrupt on CPU 0. `intr`, `saved` and `isave` are IF,
`saved_intr_status` and `sched`'s copy of it.

Abstracted: memory contents, page tables (see `Vm`) and open files (see `Files`). `fork` fails
nondeterministically at each allocation (operation `nomem`). `exit` is modelled
from its lock on; the closing of files before it may sleep in the file system, as
any wait, and changes nothing else in the table. The timer trap on CPU 0 is two actions, its
wakeup of the tick channel (`DeviceInterrupt`) and its yield (`Timer`), of which
either may come without the other: more behaviours than the code has. The first
process reads the file system in `firstret`, which is one wait for `ev` with
interrupts on outside its locks.

### Log, AtomicDisk, MCLog

`Log` models `fslog.rs` over a disk whose unit of atomicity is a block, and over
the part of the buffer cache it depends on: contents, DIRTY, and recycling of
clean buffers. A commit takes one step per disk write. `Crash` may strike between
any two steps, recovery included, and loses all memory. `AtomicDisk` is the
promise in the comment of `struct Log`: what a crash leaves is the last commit,
and commits happen only between operations. The mapping takes as durable content
what recovery would make of disk, log and header.

### BufCache, BlockStore, MCBufCache

`BufCache` models `bio.rs`, the sleep locks of the buffers and the request queue
of `sd.rs`. Sections under `BCACHE`, under `QUEUE` and under a sleep lock's own
spinlock are single actions; `pc[p]` names the process's place between them, and
`buf[p]` and `outer[p]` the buffers it has. `owner` is `Sleeplock.pid`. A process
takes any block, may take a second one inside it (`Nesting`: the log holds its own
block while it takes the one at home), changes it through the log (`Log`) or writes
it at once (`Write`), and releases it. `Transfer` is the drive, external to the
source: it completes one command at a time, and not before the handler of the one
before has finished. When `bget` finds neither the block nor a buffer to recycle it
fails and changes nothing, which is no step. There is one device. `BlockStore` is
the promise: one content per block, changed only by the process that has the block
to itself.

### Files

Pipes, the table of open files and the descriptor tables: `pipe.rs`, `file.rs`, and
`pipe`, `dup`, `close`, `fork` and `exit` as far as they concern descriptors. A
section under `FILES`, under `PIPES` or under a pipe's lock is one action. What a
dropped guard, a last close or `exit` still has to do is queued in `todo[p]` and
done one section at a time. Pages are a count shared by slabs and pipe data, so that
each allocation can fail. The bytes of a pipe are numbered by the counter they are
written at, which is enough to see a byte lost, doubled or out of order. `profile` is
the build, fixed from the start: the counters advance with `wrapping_add`, but
`Pipe::is_full` adds with a plain `+`, which panics on overflow in the default (`dev`)
build and wraps in a `release` build. The panic handler loops with the pipe's lock held
(`WritePanics`, `Poisoned`); other processors run on until they need that lock. Whoever
sleeps in a read or a write is in the process state `rsleep` or `wsleep`; the
test and the sleep are one action, since `Proc` shows that no wakeup falls between
them. A kill can, as it does not take the pipe's lock: that is `KillMissed`, here
and in `Console`.

### Vm, MCVm

User address spaces. A page table is the set of its nodes `<<level, index>>`; its
pages and those of kernel stacks come from one counter. Growing and copying take one
step per page, so that two processors compete for the last pages, and every allocation
of `sbrk`, `fork` and `exec` can fail with all of its cleaning up. Freeing a table, or
the end of one, is one step: it cannot fail, and nobody else sees the table meanwhile.
`cr3[c]` is the table a processor runs on, switched by the scheduler and by `exec`,
whose commit is three steps: it loads the new table, makes it the process's, and drops
the previous one. `lost` counts the pages that nobody can free again (see the
disagreements). The model starts after the first process has executed `init`: `Init`
is what `proc::init` makes, with the table that this `exec` leaves.

### FileSystem, MCFileSystem

The inode cache, inodes and bitmap of `fs.rs` under the calls of `sysfile.rs`. `pr[p]`
holds a call's place and locals: `cur` is the directory or inode it works on, `ip`
the second inode, `rest` the path elements to walk, `todo` the references still to be
put. Work under one inode lock is one action. Where the code holds two inodes, or
puts one while it has another locked, each acquisition is an action, so lock order
and the windows between unlock and lock are those of the code. `put` is two actions,
since it gives up the inode's lock before it takes `ICACHE`. `stray` counts the
references whose pointer the code forgets. `panic` is the assertion that failed.

Abstracted: a directory is the set of its entries in one block, without `.` and
`..`; file contents; offsets (writes append whole blocks). The operations run inside
the log, so crashes are left to `Log`.

### Console, LineQueue, MCConsole

The input ring with its three wrapping indices, the line editing of `Reader::put`,
the keyboard decoder with its modifiers, and the cursor of the display that echoes.
The keyboard's hardware is external: pressing and releasing a key puts its codes into
a short FIFO. `LineQueue` is the promise: entered input is a queue that only readers
shorten and that nobody changes any more, followed by a line that can be edited.

## Runs

| run | instance | shows |
|---|---|---|
| `spinlock` | 2 CPUs, 2 nested locks | exclusion, `holding`, asserts, interrupt flags; refinement of `AbstractLock` |
| `proc` | 2 CPUs, 3 slots, pids to 3, all operations | safety of the table, of stacks, of sleep and wakeup, of the interrupt flag |
| `proc_live` | 1 CPU, 3 slots, pids to 3, kills | zombies are reaped, killed processes exit, nobody starves |
| `log` | 3 processes, 3 blocks, log of 4, 3 operations, 2 crashes | refinement of `AtomicDisk`, stable log, DIRTY bookkeeping, no panic; `begin` returns, commits end |
| `bufcache` | 2 processes, 3 buffers, 4 blocks | list, counts, queue, asserts; refinement of `BlockStore` |
| `bufcache_live` | 2 processes, 2 buffers, 3 blocks, one taken inside another | transfers end, waiters get their buffer |
| `files` | 2 processes, 2 descriptors each, 3 files, 2 slabs of 2 pipes, 5 pages | owners of pipe ends, reference counts, life of slabs, with every table short |
| `pipe` | the same with 2 pages, slabs of 1 pipe of 2 bytes, counters modulo 4, both builds | order of bytes, no lost wakeup, no use of a deallocated pipe, when `is_full` panics; a hang-up ends a call, a kill a read unless it falls between test and sleep |
| `vm` | 2 processes, 2 CPUs, 3 levels of fan-out 2, 22 pages | exact tables, no page lost or shared, loaded tables live |
| `fs` | 2 processes, 4 inodes, cache of 3, 3 blocks, 4 path calls | references, link counts, ownership of blocks, which panics are reachable |
| `fs_deadlock` | 2 processes, 3 inodes, cache of 3, 2 path calls | a disagreement, below |
| `console` | 2 readers, ring of 3, indices modulo 6, display 2 by 2 | no lost wakeup, modifiers, cursor; refinement of `LineQueue` |

Several properties are conjunctions of facts that are named in the module, of which
one is the type invariant.

Bounds. Two CPUs give every race for `PROCS` (a third adds only more waiters). Three
slots allow init, a parent and a child, and reuse of a slot. `MaxPid` bounds the
forks: three pids are enough for an orphan, and for a second process in a slot. The log has room for two whole reservations and three processes that want one;
operations write less than they reserve, as those of the file system do. Two crashes
include one during recovery of the other. Three buffers are the least with a head, a
middle and a tail of the list, and a block more than buffers makes the cache recycle.
In `files` the three files are fewer than two pipes need and the pages fewer than two
slabs with full pipes need, so each allocation fails in some state; `Sizes` is empty
there, and `pipe` has the data, with counters that wrap after two rounds of the ring
in the `release` build and a panic one round before that in the `dev` build.
Twenty-two pages let two processes have small spaces and not both a large one; the
deltas of `sbrk` are not whole pages and cross a table boundary. The calls of `fs`
use two names in the root and one in a subdirectory, one of them made as file,
directory and device in turn; four calls are enough for mkdir, create in it, unlink
and a second process in between, and the cache of three overflows. The keys of
`console` are a shift key, an extended control key and a letter, which is also ^U; its
four cells of display include a last line and a last column. In `bufcache_live` a lock
has one waiter at a time, which may find it taken again when it wakes; that several
waiters all get their turn is not checked, as a third process is out of TLC's reach
there (the safety of `BufCache` is proved for any number).

Where processes or processors are interchangeable the runs use symmetry, except for
those with liveness. In `log`, `BeginReturns` is about `p1`, which stands for the
others, since the three differ only by name. `MaxOps` and `MaxCalls` make the runs of `Log` and `FileSystem`
stop; in `Files` a process may wait for ever on a pipe that only it could fill. These
runs do not check for deadlock. The others do.

Fairness. Proc: each CPU's kernel code runs and gets its locks, timer and device
interrupts keep arriving, code with interrupts on executes between two of them, and
init calls `wait` in a loop, as `src/cmd/init.c` does. Log: processes inside an
operation run on, and a sleeper that is woken again and again finds its turn (the
kernel's wakeup has no order; without this assumption it may be overtaken for ever).
BufCache: the same, the drive completes its commands, and a process releases the
buffers it holds, as every closure given to `with_block` returns. Files: a process
with a call to finish is scheduled again (`NoStarvation` of `proc_live`); no process
has to make a new call.

## Disagreements between code and comments

`fs_deadlock`: the comment on inodes says that the separation of reference and lock
helps avoid deadlock. `create` returns with the new inode locked and puts its
directory on the way, and `put` locks the directory again. `unlink` of the new name
in that window holds the directory and waits for the inode, for ever. `dir_unlink`
does the same with the inode it removes.

Without a run of their own, seen while modelling:

* `kill` compares the pid of every slot, also of UNUSED ones, whose pid is 0 or a
  leftover of a failed fork. The mark stays, and the next process in the slot is born
  killed. The comment speaks of "the process with the given pid". `Proc` models this.
* `kill(1)` reaches `assert_ne!(.., "init exiting")`: with 1 in `KillPids` the run
  `proc` violates `NoPanic`.
* Operations that use their reservation to the last block can reach
  `panic!("transaction too big")`: `begin` counts against `LOGSIZE`, `is_full` against
  `size - 1`. A log of exactly `size - 1` blocks can be committed and is refused at
  recovery. With `OpBlocks = MAXOPBLOCKS` the run `log` violates `NoPanic`. File
  writes stay well below the reservation.
* `wait` stores the exit status only through a null pointer (`proc.rs:425`), so no
  status is ever delivered. Statuses are not in the model.
* `open` without a free descriptor panics with "nested sleep lock": the file's guard
  puts the inode that `open` has locked. `create` on a full disk panics, too.
  `OnlyKnownPanics` lists these and shows that there are no others.
* A link whose new parent does not exist stays counted, and `open` of a device keeps
  its inode's reference (`stray` in `RefsExact`).
* `alloc_user` loses a page when it has the page but not the tables for it (`lost` in
  `PagesExact`), and a failed `pipe` can drop a slab from `PIPES` (`SlabExact`).
* `Pipe::is_full` (`pipe.rs:89`) adds `nread` and the size of the ring with a plain
  `+`, where all other arithmetic on the counters wraps. In a build with overflow checks,
  which is the default of `xtask`, a write to a pipe through which all but 4096 of 2^64
  bytes have been read panics, holding the pipe's lock. `PipeFlows` shows that this is
  the only such case, that in this build the counters therefore never wrap, and that in
  a `release` build they wrap without harm.
* A process killed while it writes into a full pipe sleeps on, since `write` does not
  look at `dead()`. So does a reader of a pipe or of the console when the kill falls
  between its test of `dead()` and its sleep (`KillMissed`).

## Proofs

The theorems hold for every value of the constants that satisfies the named
assumptions. Each rests on an inductive invariant `IInv`: the property itself is
never inductive, and the text below says what has to be added. TLC checked every
`IInv` on the instances of the runs before it was proved.

### Spinlock: `SpinlockProofs`

For any number of CPUs and any finite non-empty set of locks with any order: type
correctness, `MutualExclusion`, `HoldingSound`, `InterruptsExact` and the refinement
of `AbstractLock`. `IInv` adds what the argument needs: `ncli` equals the locks held
plus the disables in flight (`CountInv`); once it is positive, IF is off and
`saved_intr_status` is the flag of the interrupted context (`FlagInv`); only code
outside critical sections is ever in a trap frame (`FrameInv`); and `locked` and
`cpu` say who owns a lock, with the two gaps in `acquire` and `release` where they
lag behind (`FieldsInv`). `holding` is exact because only this CPU ever writes its
own number into `cpu`.

### Log: `LogProofs`

For any processes, blocks, contents, sizes and numbers of operations and crashes:
`LogExact`, `LogStable`, the refinement of `AtomicDisk`, and `NoPanic`. `IInv` says
that commits exclude each other and operations (`StateInv`); that log and header list
no block twice and fit (`ListInv`); that a clean buffer is as the disk has it
(`CacheInv`); and how far a commit or a recovery has come, what is on disk by then
and when the header is empty (`PhaseInv`). For the refinement, begin, write, end and
crash are the abstract ones, the write of the header is the commit, and every
other step is invisible: `InstallBlock` only makes the disk equal to the copy that
recovery would use anyway.

`NoPanic` needs one more invariant, `RoomInv`: the length of the log plus the writes
still to come of every operation (`Reserved`, the pairs of an operation and an unused
unit of its reservation) leaves room. It holds because `begin` lets a second operation
in only while all reservations fit `LOGSIZE`, so that two operations leave the slack of
two reservations. This is where `RoomAssumption` comes in: an operation writes fewer
blocks than it reserves (`MAXOPBLOCKS`), one reservation fits, and the log on disk
falls short of `LOGSIZE` by less than twice that slack. Without the first part the
code does panic (see the disagreements).

### Processes: `ProcProofs`

For any CPUs, slots, pids and any calls of the programs: `ExclusiveRun`,
`InterruptFlag`, the asserts of `sched()` (`SchedAsserts`) and `NoLostWakeup`.
`IInv` has a part for each CPU and one for each slot. `CpuInv(c)`: which locks the
CPU holds, whether its interrupt flag is on and what its saved status is follow from
what it executes (its scheduler, a thread at a point, a handler). `SlotInv(p)`: the
state of the process, its stack, the CPU it is on and the point its thread is at, or
will be at once `sched()` returns, agree. The second is what makes the hand-over of
`PROCS` across `swtch` work: a process that can be dispatched is off every CPU and
will resume at a point that holds `PROCS`. A step of one CPU changes no other CPU's
part and no slot but that of its own process, apart from waking sleepers and reaping
zombies (`Local`); `LocalStep` turns this into one lemma, so that each action has to
be looked at only where it acts.

Two more invariants stand on it. `WakeInv`: a thread between its test of the
condition and the change of its state has `ev` false while it holds `lk`, and if `ev`
is set later, then by a handler that still has to take `PROCS`. `FamInv`: pids are
unique among all slots with one and below `next_pid`, and until init exits, init is
live, every parent is live, nobody but init is its own parent, and a sleeper in
`wait()` has children, no zombie among them and no kill pending. From it
`FamilyHolds`: `FamilyExact` holds as long as nothing has panicked, for any calls.
`NeverPanics` adds the hypothesis `InitStays`: init's program neither exits nor faults,
and no `kill()` names pid 1. The instance of the run `proc` satisfies it, and
`cmd/init.c` does as long as its forks succeed; without it `exit` does panic, by
design. Under it `NoPanic` and `FamilyExact` always hold.

`Lowest` describes a scan of the table for the first slot of a kind by what it finds,
as a recursive or chosen minimum would be opaque to the provers.

### Buffer cache: `BufLists`, `BufProofs`

For any finite set of processes, any blocks and contents, any order of nesting without
self-loops and at least two buffers: `CacheExact`, `NoPanic`, `QueueExact`,
`UsedIsValid` and the refinement of `BlockStore`.

`BufLists` is about the two linked structures. `LeastExists` (a non-empty set of
naturals has a least element, from the well-foundedness of strict subsets) stands in
for induction: a recursive walk along `next` is characterised by any function that
satisfies its equation (`IsWalk`, `WalkUnique`), and a list is the image of an order of
the buffers (`Order`, `ListInv`). From there: a search along the list finds the first
hit, the list is whole, moving a buffer to the front keeps it (`MoveKeepsList`), and
appending to and dropping from the disk's queue keep that one (`QueueAppend`,
`QueueDrop`).

`CacheInv` in `BufProofs` joins the list, the queue and five relations: who has and who
owns which buffer (`HoldInv`), what is known at each point of a call (`StageInv`), that
a block has one buffer and what its content is (`BlockInv`), that nobody changes or
recycles the buffer of a command under way (`DriveInv`), and the counts. Validity and
content need all of them: a recycled buffer must be neither owned, waited for, dirty
nor queued. For the refinement, taking, changing and releasing a buffer are the
abstract steps; everything else leaves each block's content as it was, because a
transfer copies it between the two places it can be in.

### Console: `RingArith`, `ConsoleProofs`

For any capacity that divides the word and is smaller, any screen whose width is a
multiple of the tab stop, any keys, processes and reads: `CursorOnScreen`,
`SleepersHaveNothing`, `ModifiersHeld` and the refinement of `LineQueue`.

`RingArith` has what the wrapping indices need of division with rest: `LeastExists`
gives the quotient without induction, and `ModApart` says that numbers less than the
capacity apart have different rests, so that a cell that is written is none of those
that are kept. `ConsoleProofs` replaces the three indices by two lengths (`At`): what
is entered and the line, together at most `CAPACITY`. Storing, erasing and taking a
byte are then steps on two sequences (`RingStore`, `RingErase`, `RingTake`), which is
the refinement: `put` types or erases, a read takes, all else is a stutter.

`ConsoleInv` adds to the properties: the indices are in order and the line is shorter
than the ring, as a line that fills it is entered at once (`Ordered`; so a reader never
sleeps on a full ring); a read under way has bytes to go (`ReadsInv`); the last code in
the keyboard's FIFO is never an escape (`EscapeInv`); and for each modifier, either
one of its keys is held, or the last waiting code that changes it is a release, or none
does and getb does not believe in it (`KeysInv`). The last is what makes
`ModifiersHeld` inductive while codes wait.

### Only model-checked

* Every liveness property: liveness under fairness is outside the proof system's
  reach.
* `Files`, `Vm` and `FileSystem`.

## Not modelled

* `smp.rs` and `main.rs`: each CPU sets its own flag once and the boot CPU waits for
  it; there is nothing to interleave.
* The user library and its allocator, and the user commands: sequential programs
  above the system call interface. The models allow any sequence of calls instead.
* Firmware tables (`acpi.rs`, `pci.rs`), interrupt controllers, the registers of disk,
  display and serial port, boot assembly, `kmem.rs`: device set-up, done once. The
  models have the effects: an interrupt arrives, a command completes.
* In `fs.rs`: `.` and `..` in paths (`..` of a removed directory can name a freed
  inode), contents of files, directories of more than one block, and the failure of
  `bget` inside an operation, which several callers answer with a panic or by
  returning with a lock held.
* In `vm.rs`: the kernel's own mappings, permissions, and a break that grows into the
  stack (`alloc_user` checks `USEREND` only).
* Arithmetic of ticks, exit statuses, the tests of user pointers.
* The build tool and the image maker, which run on the host.
