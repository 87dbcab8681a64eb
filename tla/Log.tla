--------------------------------- MODULE Log --------------------------------
(***************************************************************************)
(* The write-ahead log (kernel/src/fslog.rs) over the disk and the buffer  *)
(* cache, with crashes.  The unit of atomicity of the disk is one block.   *)
(* Processes run file system operations between begin() and end(); the     *)
(* last one to end commits for all, one disk write per step.  A crash may  *)
(* strike between any two steps, also during recovery.                     *)
(***************************************************************************)
EXTENDS Naturals, Sequences, FiniteSets

CONSTANTS Procs, Blocks, Vals, Zero, Absent,
          LOGSIZE,       \* param::LOGSIZE, the capacity of Log.blocks
          SIZE,          \* Superblock.nlog: the log's blocks, with its header
          MAXOPBLOCKS,   \* param::MAXOPBLOCKS, what begin() reserves per operation
          OpBlocks,      \* how many blocks one operation really writes, at most
          MaxOps,        \* bound: operations begun
          MaxCrashes     \* bound: crashes

ASSUME LogAssumption ==
  /\ Zero \in Vals /\ Absent \notin Vals
  /\ LOGSIZE \in Nat /\ SIZE \in Nat \ {0} /\ MAXOPBLOCKS \in Nat /\ OpBlocks \in Nat
  /\ MaxOps \in Nat /\ MaxCrashes \in Nat

\* An operation writes fewer blocks than begin() reserves for it, one
\* reservation fits the log, and the log on disk is about as long as LOGSIZE.
ASSUME RoomAssumption ==
  /\ OpBlocks < MAXOPBLOCKS /\ MAXOPBLOCKS <= LOGSIZE /\ OpBlocks < SIZE - 1
  /\ LOGSIZE + 2 * OpBlocks < SIZE - 1 + 2 * MAXOPBLOCKS

VARIABLES
  disk,         \* the home blocks on disk
  logdisk,      \* the log's data blocks on disk, 1..SIZE-1
  header,       \* the log's header block on disk: the blocks it lists
  buf, dirty,   \* the buffer cache: contents or Absent; the DIRTY buffers
  log,          \* Log.blocks[..len] in memory
  outstanding, committing,   \* LogState
  mode,         \* "up", or the step of recovery after a crash
  pc,           \* where each process is in begin(), its operation or end()
  wrote,        \* the blocks each operation has written
  k,            \* the loop counter of sync() and commit()
  ops, crashes, panic

disks == <<disk, logdisk, header>>
cache == <<buf, dirty>>
lstate == <<log, outstanding, committing>>
procs == <<pc, wrote>>
bounds == <<ops, crashes>>
vars == <<disks, cache, lstate, mode, procs, k, bounds, panic>>

Init ==
  /\ disk = [b \in Blocks |-> Zero]
  /\ logdisk = [i \in 1..(SIZE - 1) |-> Zero]
  /\ header = <<>>
  /\ buf = [b \in Blocks |-> Absent] /\ dirty = {}
  /\ log = <<>> /\ outstanding = 0 /\ committing = FALSE
  /\ mode = "up"
  /\ pc = [p \in Procs |-> "idle"]
  /\ wrote = [p \in Procs |-> {}]
  /\ k = 1 /\ ops = 0 /\ crashes = 0
  /\ panic = "none"

Up == mode = "up" /\ panic = "none"
At(p, point) == Up /\ pc[p] = point
Goto(p, point) == pc' = [pc EXCEPT ![p] = point] /\ UNCHANGED wrote

\* wakeup(state.as_chan()), by p, which goes to point.
WakeAll(p, point) ==
  /\ pc' = [q \in Procs |-> IF q = p THEN point ELSE IF pc[q] = "asleep" THEN "begin" ELSE pc[q]]
  /\ wrote' = [wrote EXCEPT ![p] = {}]
-----------------------------------------------------------------------------
(* begin(), the operation's logged writes, and end().                      *)

CallBegin(p) ==
  /\ At(p, "idle")
  /\ ops < MaxOps
  /\ ops' = ops + 1
  /\ Goto(p, "begin")
  /\ UNCHANGED <<disks, cache, lstate, mode, k, crashes, panic>>

\* Mutant: begin() ignores the reservations of the operations in progress.
BeginIfRoom == ~committing /\ Len(log) < SIZE - 1
MayBegin == ~committing /\ Len(log) + (outstanding + 1) * MAXOPBLOCKS <= LOGSIZE

Begin(p) ==
  /\ At(p, "begin")
  /\ MayBegin
  /\ outstanding' = outstanding + 1
  /\ Goto(p, "op")
  /\ UNCHANGED <<disks, cache, log, committing, mode, k, bounds, panic>>

BeginSleeps(p) ==
  /\ At(p, "begin")
  /\ ~MayBegin
  /\ Goto(p, "asleep")
  /\ UNCHANGED <<disks, cache, lstate, mode, k, bounds, panic>>

Contains(s, b) == \E i \in 1..Len(s) : s[i] = b

\* Log::insert: a block already listed is absorbed.
\* Mutant: every write gets a block of the log.
InsertAlways(b) == Append(log, b)
Insert(b) == IF Contains(log, b) THEN log ELSE Append(log, b)

\* Log::is_full.
IsFull == Len(log) >= SIZE - 1 \/ Len(log) >= LOGSIZE

\* The operation changes a block in its buffer, which it holds locked, and
\* calls fslog::write.
Write(p, b, v) ==
  /\ At(p, "op")
  /\ Cardinality(wrote[p] \cup {b}) <= OpBlocks
  /\ buf' = [buf EXCEPT ![b] = v]
  /\ wrote' = [wrote EXCEPT ![p] = @ \cup {b}]
  /\ panic' = IF IsFull THEN "transaction_too_big"
              ELSE IF outstanding < 1 THEN "logged_write_outside_of_transaction"
              ELSE "none"
  /\ log' = IF panic' = "none" THEN Insert(b) ELSE log
  /\ dirty' = IF panic' = "none" THEN dirty \cup {b} ELSE dirty
  /\ UNCHANGED <<disks, outstanding, committing, mode, pc, k, bounds>>

\* end() of an operation that is not the last: its reservation is free.
\* Mutant: nobody is told.
EndQuietly(p) == Goto(p, "idle")
Wakeup(p) == WakeAll(p, "idle")

End(p) ==
  /\ At(p, "op")
  /\ panic' = IF committing THEN "op_end_during_commit" ELSE "none"
  /\ outstanding' = outstanding - 1
  /\ IF outstanding = 1
     THEN committing' = TRUE /\ Goto(p, IF log = <<>> THEN "done" ELSE "sync") /\ k' = 1
     ELSE Wakeup(p) /\ UNCHANGED <<committing, k>>
  /\ UNCHANGED <<disks, cache, log, mode, bounds>>
-----------------------------------------------------------------------------
(* op::commit(), by the process that ended last: one disk write a step.    *)

\* bio::read: the buffer if the block is cached, otherwise the disk.
Read(b) == IF buf[b] = Absent THEN disk[b] ELSE buf[b]

\* Log::sync copies the listed blocks to the log.
Sync(p) ==
  /\ At(p, "sync")
  /\ k <= Len(log)
  /\ logdisk' = [logdisk EXCEPT ![k] = Read(log[k])]
  /\ buf' = [buf EXCEPT ![log[k]] = Read(log[k])]
  /\ k' = k + 1
  /\ UNCHANGED <<disk, header, dirty, lstate, mode, procs, bounds, panic>>

\* Log::write: the commit point.
\* Mutant: the header is written before the log's blocks.
HeaderFirst == TRUE
Synced == k > Len(log)

WriteHeader(p) ==
  /\ At(p, "sync")
  /\ Synced
  /\ header' = log
  /\ Goto(p, "install") /\ k' = 1
  /\ UNCHANGED <<disk, logdisk, cache, lstate, mode, bounds, panic>>

\* Log::commit copies them home; a written buffer is no longer DIRTY.
InstallBlock ==
  /\ k <= Len(log)
  /\ disk' = [disk EXCEPT ![log[k]] = logdisk[k]]
  /\ buf' = [buf EXCEPT ![log[k]] = logdisk[k]]
  /\ dirty' = dirty \ {log[k]}
  /\ k' = k + 1
  /\ UNCHANGED <<logdisk, header, lstate, bounds, panic>>

Install(p) == At(p, "install") /\ InstallBlock /\ UNCHANGED <<procs, mode>>

\* All blocks are home.
\* Mutants: the loop may stop early; it never stops.
SomeInstalled == TRUE
NeverInstalled == k > Len(log) + 1
Installed == k > Len(log)

\* Log::clear, and Log::write of the empty header.
ClearLog ==
  /\ Installed
  /\ log' = <<>> /\ header' = <<>> /\ k' = 1
  /\ UNCHANGED <<disk, logdisk, cache, outstanding, committing, bounds, panic>>

Clear(p) == At(p, "install") /\ ClearLog /\ Goto(p, "done") /\ UNCHANGED mode

Done(p) ==
  /\ At(p, "done")
  /\ committing' = FALSE
  /\ Wakeup(p)
  /\ UNCHANGED <<disks, cache, log, outstanding, mode, k, bounds, panic>>

\* bget() recycles a buffer that is neither in use nor DIRTY.
Recyclable(b) == buf[b] # Absent /\ b \notin dirty

Recycle(b) ==
  /\ Up
  /\ Recyclable(b)
  /\ buf' = [buf EXCEPT ![b] = Absent]
  /\ UNCHANGED <<disks, dirty, lstate, mode, procs, k, bounds, panic>>
-----------------------------------------------------------------------------
(* A crash loses the memory; fslog::init then recovers.                    *)

Crash ==
  /\ panic = "none"
  /\ crashes < MaxCrashes
  /\ crashes' = crashes + 1
  /\ buf' = [b \in Blocks |-> Absent] /\ dirty' = {}
  /\ log' = <<>> /\ outstanding' = 0 /\ committing' = FALSE
  /\ mode' = "read"
  /\ pc' = [p \in Procs |-> "idle"] /\ wrote' = [p \in Procs |-> {}]
  /\ k' = 1
  /\ UNCHANGED <<disks, ops, panic>>

\* Log::read.
TooLarge == Len(header) >= LOGSIZE \/ Len(header) >= SIZE - 1

RecoverRead ==
  /\ mode = "read" /\ panic = "none"
  /\ IF TooLarge THEN panic' = "corrupt_log_too_large" /\ UNCHANGED <<log, mode>>
                 ELSE log' = header /\ mode' = "install" /\ UNCHANGED panic
  /\ UNCHANGED <<disks, cache, outstanding, committing, procs, k, bounds>>

RecoverInstall == mode = "install" /\ panic = "none" /\ InstallBlock /\ UNCHANGED <<procs, mode>>

RecoverClear ==
  mode = "install" /\ panic = "none" /\ ClearLog /\ mode' = "up" /\ UNCHANGED procs
-----------------------------------------------------------------------------
ProcStep(p) ==
  \/ Begin(p) \/ BeginSleeps(p) \/ End(p)
  \/ Sync(p) \/ WriteHeader(p) \/ Install(p) \/ Clear(p) \/ Done(p)
Recover == RecoverRead \/ RecoverInstall \/ RecoverClear
Next ==
  \/ \E p \in Procs : CallBegin(p) \/ ProcStep(p)
  \/ \E p \in Procs, b \in Blocks, v \in Vals : Write(p, b, v)
  \/ \E b \in Blocks : Recycle(b)
  \/ Crash \/ Recover

Spec == Init /\ [][Next]_vars

(* Fairness: processes inside begin(), an operation or end() keep running, *)
(* a sleeper that is woken again and again gets its turn, and a machine    *)
(* that crashed reboots.                                                   *)
Fairness ==
  /\ \A p \in Procs : WF_vars(ProcStep(p)) /\ SF_vars(Begin(p))
  /\ WF_vars(Recover)
FairSpec == Spec /\ Fairness
-----------------------------------------------------------------------------
Points == {"idle", "begin", "asleep", "op", "sync", "install", "done"}
Panics == {"none", "transaction_too_big", "logged_write_outside_of_transaction",
           "op_end_during_commit", "corrupt_log_too_large"}

\* Every variable has a value of its type.
TypeOK ==
  /\ disk \in [Blocks -> Vals] /\ logdisk \in [1..(SIZE - 1) -> Vals]
  /\ header \in Seq(Blocks) /\ log \in Seq(Blocks)
  /\ buf \in [Blocks -> Vals \cup {Absent}] /\ dirty \subseteq Blocks
  /\ outstanding \in Nat /\ committing \in BOOLEAN
  /\ mode \in {"up", "read", "install"}
  /\ pc \in [Procs -> Points] /\ wrote \in [Procs -> SUBSET Blocks]
  /\ k \in 1..SIZE /\ ops \in 0..MaxOps /\ crashes \in 0..MaxCrashes
  /\ panic \in Panics

\* No panic!() of the log is reached: begin()'s reservations leave room for
\* every write, and recovery accepts every header that a commit wrote.
NoPanic == panic = "none"

\* The home block b as recovery would leave it.
Listed(b) == {i \in 1..Len(header) : header[i] = b}
Recovered(b) == IF Listed(b) = {} THEN disk[b] ELSE logdisk[CHOOSE i \in Listed(b) : TRUE]
Durable == [b \in Blocks |-> Recovered(b)]
Current == IF mode = "up" THEN [b \in Blocks |-> Read(b)] ELSE Durable
Active == {p \in Procs : pc[p] = "op"}

\* The log implements the atomic disk: through every interleaving of
\* operations, commits, recycled buffers, crashes and recoveries (crashes
\* during recovery included), what a crash leaves is the last commit.
AD == INSTANCE AtomicDisk WITH durable <- Durable, current <- Current, active <- Active
ImplementsAtomicDisk == AD!Spec

\* While the header on disk lists blocks, the log's copies of them and the
\* header itself are only ever discarded as a whole, once they are home.
LogStable ==
  [][header # <<>> /\ header' # header =>
       header' = <<>> /\ \A i \in 1..Len(header) : disk[header[i]] = logdisk[i]]_vars

\* The DIRTY buffers are exactly the logged blocks that a commit has yet to
\* copy home: no update can be recycled away, no buffer stays pinned.
DirtyIsLogged ==
  LET home == IF \E p \in Procs : pc[p] = "install" THEN k - 1 ELSE 0 IN
    mode = "up" => dirty = {log[i] : i \in (home + 1)..Len(log)}

\* outstanding counts the operations in progress, none of them during a commit.
OutstandingExact ==
  /\ outstanding = Cardinality(Active)
  /\ committing <=> \E p \in Procs : pc[p] \in {"sync", "install", "done"}
  /\ committing => outstanding = 0

\* The log's books agree with the buffers and with the operations.
LogExact == TypeOK /\ DirtyIsLogged /\ OutstandingExact

\* begin() returns: the sleepers in begin() lose no wakeup.
Returns(p) == pc[p] = "begin" ~> pc[p] \in {"op", "idle"}

\* Every commit ends, and the log is empty again on disk.
CommitEnds == committing ~> ~committing /\ header = <<>>
=============================================================================
