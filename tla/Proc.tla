-------------------------------- MODULE Proc --------------------------------
(***************************************************************************)
(* The process table and the scheduler (kernel/src/proc.rs), with the      *)
(* traps and system calls that enter them (trap.rs, syscall.rs).           *)
(*                                                                         *)
(* CPUs run either their scheduler context or the kernel thread of one     *)
(* process.  The lock PROCS guards the table and is handed over by swtch:  *)
(* the context that acquires it is not the one that releases it.  A        *)
(* section under PROCS that ends by releasing it is one action; one that   *)
(* ends in sched() keeps PROCS until the context switched to releases it.  *)
(*                                                                         *)
(* sleep(chan, lock) is exercised by one condition, ev, guarded by a       *)
(* spinlock lk as in pipe.rs, console.rs and trap::ticksleep: processes    *)
(* wait for ev and a device interrupt on CPU 0 sets it and calls wakeup(). *)
(***************************************************************************)
EXTENDS Naturals

CONSTANTS CPUs, BootCPU, NoCPU,
          NPROC,      \* slots of the process table
          MaxPid,     \* bound: the last pid next_pid hands out
          Ops,        \* what the user programs do
          InitOps,    \* what the first one, init, does
          KillPids    \* arguments of kill()

ASSUME ProcAssumption ==
  /\ BootCPU \in CPUs /\ NoCPU \notin CPUs
  /\ NPROC \in Nat \ {0} /\ MaxPid \in Nat \ {0}
  /\ KillPids \subseteq Nat

Slots == 1..NPROC
INIT_PROC == 1
Event == NPROC + 1            \* the channel of ev; a slot is its own channel
NoProc == 0

States == {"UNUSED", "SLEEPING", "RUNNABLE", "RUNNING", "ZOMBIE"}
Points == {"none", "forkret", "start", "user", "sysret", "wlock", "wait", "exit",
           "sched", "yield", "unlock", "await", "sleep", "release", "sleeping", "awake", "relock"}

VARIABLES
  state, chan,          \* Proc.state; chan is the argument of SLEEPING
  pid, parent, killed,  \* Proc.pid, parent and killed
  kstack,               \* the slot owns a kernel stack and a page table
  next_pid,
  PROCS, lk,            \* the CPU that holds each spinlock, or NoCPU
  ev,
  proc,                 \* CPU.proc: the process on each CPU, or NoProc
  spc, scan,            \* the scheduler context of each CPU; next slot to visit
  hpc,                  \* the interrupt handler running on each CPU
  pc, ret,              \* each process's kernel thread; its return from sched()
  frame,                \* the point at which the timer interrupted it
  boot,                 \* firstret has yet to read the file system
  intr, saved, isave,   \* RFLAGS.IF, CPU.saved_intr_status, sched's copy of it
  panic

ids == <<pid, parent, killed, kstack, next_pid>>
table == <<state, chan, ids>>
locks == <<PROCS, lk, ev>>
cpus == <<proc, spc, scan, hpc>>
threads == <<pc, ret, frame, boot>>
intrs == <<intr, saved, isave>>
vars == <<table, locks, cpus, threads, intrs, panic>>

\* proc::init: the first process sits in slot 1 and is its own parent.
Init ==
  /\ state = [p \in Slots |-> IF p = INIT_PROC THEN "RUNNABLE" ELSE "UNUSED"]
  /\ chan = [p \in Slots |-> NoProc]
  /\ pid = [p \in Slots |-> IF p = INIT_PROC THEN 1 ELSE 0]
  /\ parent = [p \in Slots |-> IF p = INIT_PROC THEN INIT_PROC ELSE NoProc]
  /\ killed = [p \in Slots |-> FALSE]
  /\ kstack = [p \in Slots |-> p = INIT_PROC]
  /\ next_pid = 2
  /\ PROCS = NoCPU /\ lk = NoCPU /\ ev = FALSE
  /\ proc = [c \in CPUs |-> NoProc]
  /\ spc = [c \in CPUs |-> "loop"]
  /\ scan = [c \in CPUs |-> 1]
  /\ hpc = [c \in CPUs |-> "none"]
  /\ pc = [p \in Slots |-> IF p = INIT_PROC THEN "forkret" ELSE "none"]
  /\ ret = [p \in Slots |-> "none"]
  /\ frame = [p \in Slots |-> "none"]
  /\ boot = TRUE
  /\ intr = [c \in CPUs |-> TRUE]
  /\ saved = [c \in CPUs |-> FALSE]
  /\ isave = [p \in Slots |-> FALSE]
  /\ panic = "none"

Initialized(p) == state[p] # "UNUSED"
Children(p) == {q \in Slots : Initialized(q) /\ parent[q] = p}
ZombieChildren(p) == {q \in Children(p) : state[q] = "ZOMBIE"}
Unused == {p \in Slots : state[p] = "UNUSED"}

\* The slot at which a scan of the table for one of S stops.
Lowest(p, S) == p \in S /\ \A q \in S : p <= q

\* The process p runs on CPU c, at point, and no handler interrupts it.
Runs(c, p, point) == proc[c] = p /\ pc[p] = point /\ hpc[c] = "none" /\ panic = "none"

\* The user program of p, running on CPU c, makes the call op.
Calls(c, p, op) ==
  Runs(c, p, "user") /\ op \in IF p = INIT_PROC THEN InitOps ELSE Ops

Goto(p, point) == pc' = [pc EXCEPT ![p] = point] /\ UNCHANGED <<ret, frame, boot>>
Quiet == UNCHANGED <<table, cpus, panic>>

\* PROCS.lock() and its release; a whole section under PROCS.
LockProcs(c) == PROCS = NoCPU /\ PROCS' = c /\ UNCHANGED <<lk, ev>>
UnlockProcs == PROCS' = NoCPU /\ UNCHANGED <<lk, ev>>
WithProcs == PROCS = NoCPU /\ UNCHANGED locks

\* push_intr_disable and pop_intr_disable of a CPU's outermost lock.
SetIntr(c, flag) == intr' = [intr EXCEPT ![c] = flag] /\ UNCHANGED <<saved, isave>>
PopIntr(c) == SetIntr(c, saved[c])
PushIntr(c) ==
  /\ saved' = [saved EXCEPT ![c] = intr[c]]
  /\ intr' = [intr EXCEPT ![c] = FALSE]
  /\ UNCHANGED isave

\* A system call or trap masks interrupts: what its first lock saves is "off".
Masked(c) ==
  /\ saved' = [saved EXCEPT ![c] = FALSE]
  /\ intr' = [intr EXCEPT ![c] = FALSE]
  /\ UNCHANGED isave

\* The table's states become st; chan is the argument of SLEEPING, if any.
SetStates(st) ==
  /\ state' = st
  /\ chan' = [q \in Slots |-> IF st[q] = "SLEEPING" THEN chan[q] ELSE NoProc]

\* wakeup1: the states once the sleepers of the channels chs are woken.
Wakeup1(chs) ==
  [q \in Slots |-> IF state[q] = "SLEEPING" /\ chan[q] \in chs THEN "RUNNABLE"
                   ELSE state[q]]

\* die_if_dead: where p goes instead of next if it was killed.
\* Mutant: the check is missing.
SpareDead(p, next) == next
DieIfDead(p, next) == IF killed[p] THEN "exit" ELSE next
-----------------------------------------------------------------------------
(* The scheduler context of CPU c.                                         *)

\* The top of scheduler()'s loop: sti, then PROCS.lock().
SchedLock(c) ==
  /\ spc[c] = "loop" /\ hpc[c] = "none" /\ panic = "none"
  /\ LockProcs(c) /\ PushIntr(c)
  /\ spc' = [spc EXCEPT ![c] = "scan"]
  /\ scan' = [scan EXCEPT ![c] = 1]
  /\ UNCHANGED <<table, proc, hpc, threads, panic>>

Runnable(c) == {p \in Slots : p >= scan[c] /\ state[p] = "RUNNABLE"}

\* Mutant: the scheduler forgets to mark the process RUNNING.
StaysRunnable(p) == state
Dispatched(p) == [state EXCEPT ![p] = "RUNNING"]

\* A thread that left through sched() restores the status it had saved there.
\* Mutant: it does not.
KeptStatus(c, p) == saved[c]
RestoredStatus(c, p) == IF pc[p] = "forkret" THEN saved[c] ELSE isave[p]

\* The scheduler switches to p, still holding PROCS.
Dispatch(c) ==
  /\ spc[c] = "scan" /\ panic = "none"
  /\ \E p \in Slots :
       /\ Lowest(p, Runnable(c))
       /\ SetStates(Dispatched(p))
       /\ proc' = [proc EXCEPT ![c] = p]
       /\ saved' = [saved EXCEPT ![c] = RestoredStatus(c, p)]
       /\ isave' = [isave EXCEPT ![p] = FALSE]
  /\ spc' = [spc EXCEPT ![c] = "switched"]
  /\ UNCHANGED <<ids, locks, scan, hpc, threads, intr, panic>>

\* The end of the pass: PROCS is released, and the loop starts again with sti.
ScanEnd(c) ==
  /\ spc[c] = "scan" /\ panic = "none"
  /\ Runnable(c) = {}
  /\ UnlockProcs /\ SetIntr(c, TRUE)
  /\ spc' = [spc EXCEPT ![c] = "loop"]
  /\ UNCHANGED <<table, proc, scan, hpc, threads, panic>>

\* The slot the scheduler visits after p.
\* Mutant: it skips one.
SkipSlot(p) == p + 2
NextSlot(p) == p + 1

\* sched(): its asserts, and swtch back to the scheduler context, which
\* clears the CPU's process and goes on with the next slot, holding PROCS.
SchedOK(c, p) == PROCS = c /\ lk # c /\ state[p] # "RUNNING" /\ ~intr[c]

Sched(c, p) ==
  /\ Runs(c, p, "sched")
  /\ panic' = IF SchedOK(c, p) THEN "none" ELSE "sched"
  /\ isave' = [isave EXCEPT ![p] = saved[c]]
  /\ pc' = [pc EXCEPT ![p] = ret[p]]
  /\ ret' = [ret EXCEPT ![p] = "none"]
  /\ proc' = [proc EXCEPT ![c] = NoProc]
  /\ spc' = [spc EXCEPT ![c] = "scan"]
  /\ scan' = [scan EXCEPT ![c] = NextSlot(p)]
  /\ UNCHANGED <<table, locks, hpc, frame, boot, intr, saved>>

\* What a thread does before it calls sched(): its new state, and the point
\* it resumes at.
Leave(p, st, ch, resume) ==
  /\ state' = [state EXCEPT ![p] = st]
  /\ chan' = [chan EXCEPT ![p] = ch]
  /\ pc' = [pc EXCEPT ![p] = "sched"]
  /\ ret' = [ret EXCEPT ![p] = resume]
  /\ UNCHANGED <<ids, cpus, frame, boot, panic>>

\* forkret(), the first thing a new process runs: its release of PROCS restores
\* the CPU's saved status, which is the scheduler's own (on) only if the new
\* process is the first of the pass.
Forkret(c, p) ==
  Runs(c, p, "forkret") /\ UnlockProcs /\ PopIntr(c) /\ Goto(p, "start") /\ Quiet

\* syscallret: cli, and out to user mode with interrupts on.
Syscallret(c, p) ==
  /\ Runs(c, p, "start")
  /\ p = INIT_PROC => ~boot
  /\ Goto(p, "user") /\ SetIntr(c, TRUE)
  /\ Quiet /\ UNCHANGED locks

\* The end of syscall() and of a trap from user mode.
Return(c, p) ==
  /\ Runs(c, p, "sysret")
  /\ Goto(p, DieIfDead(p, "user")) /\ SetIntr(c, DieIfDead(p, "user") = "user")
  /\ Quiet /\ UNCHANGED locks
-----------------------------------------------------------------------------
(* System calls.                                                           *)

Enter(c, p, op, point) ==
  Calls(c, p, op) /\ Goto(p, point) /\ SetIntr(c, FALSE) /\ Quiet /\ UNCHANGED locks

\* fork() fails: alloc() finds no memory for a stack, or no free slot.
ForkFails(c, p) ==
  /\ Calls(c, p, "nomem") \/ (Calls(c, p, "fork") /\ Unused = {} /\ PROCS = NoCPU)
  /\ Goto(p, "sysret") /\ Masked(c)
  /\ Quiet /\ UNCHANGED locks

\* fork() cannot copy the page table: the slot is UNUSED again, but keeps the
\* pid that alloc() gave it.
ForkAborts(c, p) ==
  /\ Calls(c, p, "nomem") /\ WithProcs
  /\ next_pid <= MaxPid
  /\ \E np \in Slots : Lowest(np, Unused) /\ pid' = [pid EXCEPT ![np] = next_pid]
  /\ next_pid' = next_pid + 1
  /\ Goto(p, "sysret") /\ Masked(c)
  /\ UNCHANGED <<state, chan, parent, killed, kstack, cpus, panic>>

Fork(c, p) ==
  /\ Calls(c, p, "fork") /\ WithProcs
  /\ next_pid <= MaxPid
  /\ \E np \in Slots :
       /\ Lowest(np, Unused)
       /\ state' = [state EXCEPT ![np] = "RUNNABLE"]
       /\ pid' = [pid EXCEPT ![np] = next_pid]
       /\ parent' = [parent EXCEPT ![np] = p]
       /\ kstack' = [kstack EXCEPT ![np] = TRUE]
       /\ pc' = [pc EXCEPT ![np] = "forkret", ![p] = "sysret"]
  /\ next_pid' = next_pid + 1
  /\ Masked(c)
  /\ UNCHANGED <<chan, killed, cpus, ret, frame, boot, panic>>

\* kill(): the first slot with that pid, whatever its state.
Kill(c, p, k) ==
  /\ Calls(c, p, "kill") /\ WithProcs
  /\ LET found == {q \in Slots : pid[q] = k} IN
       \/ found = {} /\ UNCHANGED <<killed, state, chan>>
       \/ \E q \in Slots :
            /\ Lowest(q, found)
            /\ killed' = [killed EXCEPT ![q] = TRUE]
            /\ SetStates([state EXCEPT ![q] = IF @ = "SLEEPING" THEN "RUNNABLE" ELSE @])
  /\ Goto(p, "sysret") /\ Masked(c)
  /\ UNCHANGED <<pid, parent, kstack, next_pid, cpus, panic>>

\* The channels exit() wakes: its parent's, and init's if it inherits a zombie.
\* Mutant: the parent is not told.
HideExit(p) == {INIT_PROC : q \in ZombieChildren(p)}
ExitChannels(p) == {parent[p]} \cup {INIT_PROC : q \in ZombieChildren(p)}

\* The parents once the children of p are handed to init.
\* Mutant: they are not.
KeepParents(p) == parent
Reparented(p) == [q \in Slots |-> IF q \in Children(p) THEN INIT_PROC ELSE parent[q]]

ExitCall(c, p) == Enter(c, p, "exit", "exit")

\* exit(), reached from the system call or from die_if_dead: it becomes a
\* zombie and switches away for good.
Exit(c, p) ==
  /\ Runs(c, p, "exit")
  /\ LockProcs(c) /\ Masked(c)
  /\ panic' = IF p = INIT_PROC THEN "init_exiting" ELSE "none"
  /\ SetStates([Wakeup1(ExitChannels(p)) EXCEPT ![p] = "ZOMBIE"])
  /\ parent' = Reparented(p)
  /\ Goto(p, "sched")
  /\ UNCHANGED <<pid, killed, kstack, next_pid, cpus>>

\* wait1(), which takes PROCS and looks for a zombie child; sleep() on PROCS
\* keeps it, and returns to the top of the loop holding it.
WaitCall(c, p) == Enter(c, p, "wait", "wlock")
Wait(c, p) ==
  Runs(c, p, "wlock") /\ LockProcs(c) /\ Masked(c) /\ Goto(p, "wait") /\ Quiet

Reap(c, p) ==
  /\ Runs(c, p, "wait")
  /\ \E q \in Slots :
       /\ Lowest(q, ZombieChildren(p))
       /\ SetStates([state EXCEPT ![q] = "UNUSED"])
       /\ pid' = [pid EXCEPT ![q] = 0]
       /\ parent' = [parent EXCEPT ![q] = NoProc]
       /\ killed' = [killed EXCEPT ![q] = FALSE]
       /\ kstack' = [kstack EXCEPT ![q] = FALSE]
  /\ UnlockProcs /\ PopIntr(c) /\ Goto(p, "sysret")
  /\ UNCHANGED <<next_pid, cpus, panic>>

WaitFails(c, p) ==
  /\ Runs(c, p, "wait")
  /\ ZombieChildren(p) = {} /\ (Children(p) = {} \/ killed[p])
  /\ UnlockProcs /\ PopIntr(c) /\ Goto(p, "sysret") /\ Quiet

WaitSleeps(c, p) ==
  /\ Runs(c, p, "wait")
  /\ ZombieChildren(p) = {} /\ Children(p) # {} /\ ~killed[p]
  /\ Leave(p, "SLEEPING", p, "wait")
  /\ UNCHANGED <<locks, intrs>>
-----------------------------------------------------------------------------
(* Waiting for ev under the lock lk: the loop of ticksleep, of the console *)
(* and of the pipes, and sleep(chan, lk) step by step.                     *)

LockLk(c) == lk = NoCPU /\ lk' = c /\ UNCHANGED <<PROCS, ev>>

Await(c, p) == Calls(c, p, "await") /\ LockLk(c) /\ Masked(c) /\ Goto(p, "await") /\ Quiet

\* firstret() reads the file system, with interrupts on but for its locks.
Firstret(c, p) ==
  /\ Runs(c, p, "start")
  /\ p = INIT_PROC /\ boot
  /\ LockLk(c) /\ PushIntr(c) /\ Goto(p, "await") /\ Quiet

AwaitDone(c, p) ==
  /\ Runs(c, p, "await")
  /\ ev \/ killed[p]
  /\ ev' = FALSE /\ lk' = NoCPU /\ UNCHANGED PROCS
  /\ PopIntr(c)
  /\ pc' = [pc EXCEPT ![p] = IF p = INIT_PROC /\ boot THEN "start" ELSE "sysret"]
  /\ boot' = (boot /\ p # INIT_PROC)
  /\ Quiet /\ UNCHANGED <<ret, frame>>

\* Mutant: sleep() releases the caller's lock before it takes PROCS.
AwaitUnlocks(c, p) ==
  /\ Runs(c, p, "await") /\ ~ev /\ ~killed[p]
  /\ lk' = NoCPU /\ Goto(p, "sleep")
  /\ Quiet /\ UNCHANGED <<PROCS, ev, intrs>>

\* The caller has seen that it must wait, and calls sleep().
AwaitSleeps(c, p) ==
  /\ Runs(c, p, "await")
  /\ ~ev /\ ~killed[p]
  /\ Goto(p, "sleep")
  /\ Quiet /\ UNCHANGED <<locks, intrs>>

SleepLock(c, p) ==
  /\ Runs(c, p, "sleep")
  /\ LockProcs(c) /\ Goto(p, "release")
  /\ Quiet /\ UNCHANGED intrs

\* Mutant: sleep() keeps the caller's lock.
SleepKeepsLock(c, p) ==
  Runs(c, p, "release") /\ Goto(p, "sleeping") /\ Quiet /\ UNCHANGED <<locks, intrs>>
SleepRelease(c, p) ==
  /\ Runs(c, p, "release")
  /\ lk' = NoCPU /\ Goto(p, "sleeping")
  /\ Quiet /\ UNCHANGED <<PROCS, ev, intrs>>

SleepState(c, p) ==
  /\ Runs(c, p, "sleeping")
  /\ Leave(p, "SLEEPING", Event, "awake")
  /\ UNCHANGED <<locks, intrs>>

Awake(c, p) ==
  Runs(c, p, "awake") /\ UnlockProcs /\ PopIntr(c) /\ Goto(p, "relock") /\ Quiet

Relock(c, p) ==
  Runs(c, p, "relock") /\ LockLk(c) /\ PushIntr(c) /\ Goto(p, "await") /\ Quiet
-----------------------------------------------------------------------------
(* Traps and interrupts, taken while the CPU's interrupt flag is on.       *)

\* A fault of the user program: kill() on the process itself, then die_if_dead.
Fault(c, p) ==
  /\ Calls(c, p, "fault")
  /\ killed' = [killed EXCEPT ![p] = TRUE]
  /\ Goto(p, "sysret") /\ SetIntr(c, FALSE)
  /\ UNCHANGED <<state, chan, pid, parent, kstack, next_pid, locks, cpus, panic>>

\* The timer: a process in user mode dies if it was killed; otherwise, and in
\* kernel code that runs with interrupts on, yield_if_running switches away.
Timer(c, p) ==
  /\ Runs(c, p, pc[p])
  /\ intr[c]
  /\ pc' = [pc EXCEPT ![p] = IF @ = "user" THEN DieIfDead(p, "yield") ELSE "yield"]
  /\ frame' = [frame EXCEPT ![p] = IF pc'[p] = "yield" THEN pc[p] ELSE @]
  /\ SetIntr(c, FALSE)
  /\ Quiet /\ UNCHANGED <<locks, ret, boot>>

Yield(c, p) ==
  /\ Runs(c, p, "yield")
  /\ LockProcs(c) /\ Masked(c)
  /\ Leave(p, "RUNNABLE", NoProc, "unlock")

\* Back from yield_if_running: PROCS is released; a user process may have been
\* killed meanwhile, kernel code goes on where it was, with interrupts on.
Yielded(c, p) ==
  /\ Runs(c, p, "unlock")
  /\ UnlockProcs
  /\ pc' = [pc EXCEPT ![p] = IF frame[p] = "user" THEN "sysret" ELSE frame[p]]
  /\ frame' = [frame EXCEPT ![p] = "none"]
  /\ SetIntr(c, frame[p] # "user")
  /\ Quiet /\ UNCHANGED <<ret, boot>>

\* A device interrupt, on CPU 0 only: the handler sets ev under lk and calls
\* wakeup(), which takes PROCS; it returns to the code it interrupted.
DeviceInterrupt(c) ==
  /\ c = BootCPU /\ intr[c] /\ hpc[c] = "none" /\ panic = "none"
  /\ lk = NoCPU /\ lk' = c /\ ev' = TRUE /\ UNCHANGED PROCS
  /\ hpc' = [hpc EXCEPT ![c] = "wakeup"]
  /\ Masked(c)
  /\ UNCHANGED <<table, proc, spc, scan, threads, panic>>

HandlerWakeup(c) ==
  /\ hpc[c] = "wakeup" /\ panic = "none"
  /\ PROCS = NoCPU
  /\ SetStates(Wakeup1({Event}))
  /\ lk' = NoCPU /\ UNCHANGED <<PROCS, ev>>
  /\ hpc' = [hpc EXCEPT ![c] = "none"]
  /\ LET p == proc[c] IN
       IF p # NoProc /\ pc[p] = "user" THEN Goto(p, "sysret") /\ SetIntr(c, FALSE)
                                       ELSE UNCHANGED threads /\ SetIntr(c, TRUE)
  /\ UNCHANGED <<ids, proc, spc, scan, panic>>
-----------------------------------------------------------------------------
\* What user programs choose to do, and what the kernel then must do.
UserStep(c) ==
  \E p \in Slots :
    \/ ForkFails(c, p) \/ ForkAborts(c, p) \/ Fork(c, p)
    \/ \E k \in KillPids : Kill(c, p, k)
    \/ ExitCall(c, p) \/ WaitCall(c, p) \/ Await(c, p) \/ Fault(c, p)

\* Kernel steps at points where interrupts may be on, and the others.
OpenStep(c, p) == Firstret(c, p) \/ Syscallret(c, p) \/ Relock(c, p)

ThreadStep(c, p) ==
  \/ Forkret(c, p) \/ Return(c, p)
  \/ Exit(c, p) \/ Wait(c, p) \/ Reap(c, p) \/ WaitFails(c, p) \/ WaitSleeps(c, p)
  \/ AwaitDone(c, p) \/ AwaitSleeps(c, p) \/ SleepLock(c, p) \/ SleepRelease(c, p)
  \/ SleepState(c, p) \/ Awake(c, p)
  \/ Yield(c, p) \/ Sched(c, p) \/ Yielded(c, p)

TimerInterrupt(c) == \E p \in Slots : Timer(c, p)

CPUStep(c) == SchedLock(c) \/ Dispatch(c) \/ ScanEnd(c)

Next ==
  \E c \in CPUs :
    \/ UserStep(c) \/ CPUStep(c) \/ TimerInterrupt(c)
    \/ DeviceInterrupt(c) \/ HandlerWakeup(c)
    \/ \E p \in Slots : ThreadStep(c, p) \/ OpenStep(c, p)

Spec == Init /\ [][Next]_vars

(* Fairness.  Every CPU executes its kernel code, and gets a lock that it  *)
(* spins for and that is free again and again.  Code that runs with        *)
(* interrupts on executes between two interrupts.  Timer and device        *)
(* interrupts keep arriving, and the init program calls wait() in a loop.  *)
KernelStep(c) == CPUStep(c) \/ \E p \in Slots : ThreadStep(c, p)

Fairness ==
  /\ \A c \in CPUs : SF_vars(KernelStep(c)) /\ SF_vars(TimerInterrupt(c))
  /\ \A p \in Slots : SF_vars(\E c \in CPUs : OpenStep(c, p))
  /\ SF_vars(DeviceInterrupt(BootCPU)) /\ SF_vars(HandlerWakeup(BootCPU))
  /\ SF_vars(\E c \in CPUs : WaitCall(c, INIT_PROC))

FairSpec == Spec /\ Fairness
-----------------------------------------------------------------------------
\* Every variable has a value of its type.
TypeOK ==
  /\ state \in [Slots -> States]
  /\ chan \in [Slots -> 0..Event]
  /\ pid \in [Slots -> 0..MaxPid]
  /\ parent \in [Slots -> Slots \cup {NoProc}]
  /\ killed \in [Slots -> BOOLEAN] /\ kstack \in [Slots -> BOOLEAN]
  /\ next_pid \in 1..(MaxPid + 1)
  /\ PROCS \in CPUs \cup {NoCPU} /\ lk \in CPUs \cup {NoCPU} /\ ev \in BOOLEAN
  /\ proc \in [CPUs -> Slots \cup {NoProc}]
  /\ spc \in [CPUs -> {"loop", "scan", "switched"}]
  /\ scan \in [CPUs -> 1..(NPROC + 1)]
  /\ hpc \in [CPUs -> {"none", "wakeup"}]
  /\ pc \in [Slots -> Points] /\ ret \in [Slots -> Points] /\ frame \in [Slots -> Points]
  /\ boot \in BOOLEAN
  /\ intr \in [CPUs -> BOOLEAN] /\ saved \in [CPUs -> BOOLEAN]
  /\ isave \in [Slots -> BOOLEAN]
  /\ panic \in {"none", "sched", "init_exiting"}

OnCPU(p) == \E c \in CPUs : proc[c] = p

\* A process runs on at most one CPU, and it is RUNNING exactly while it is on
\* one and has not yet called sched(): two CPUs never share a kernel stack.
RunsOnce ==
  /\ \A c, d \in CPUs : proc[c] = proc[d] => c = d \/ proc[c] = NoProc
  /\ \A p \in Slots : state[p] = "RUNNING" <=> OnCPU(p) /\ pc[p] # "sched"

\* wait() never frees the kernel stack a CPU still runs on: an exiting process
\* is a zombie before it has switched off its stack.
StackInUse == \A p \in Slots : OnCPU(p) => kstack[p] /\ state[p] # "UNUSED"

\* A process and its stack are used by one CPU at a time.
ExclusiveRun == TypeOK /\ RunsOnce /\ StackInUse

\* The asserts of sched() and exit() hold.
NoPanic == panic = "none"

\* Two processes never have one pid.
UniquePids ==
  \A p, q \in Slots : Initialized(p) /\ Initialized(q) /\ pid[p] = pid[q] => p = q

\* The parent of a process is a process that has not exited, through all
\* exits, reparentings and reuses of its slot: somebody can still wait for it.
ParentIsLive ==
  \A p \in Slots : Initialized(p) =>
    parent[p] \in Slots /\ state[parent[p]] \notin {"UNUSED", "ZOMBIE"}

\* A process asleep in wait() has a child to wait for, no zombie child to reap
\* and no kill to act upon: no exit and no kill is ever missed there.
NoLostChild ==
  \A p \in Slots : state[p] = "SLEEPING" /\ chan[p] = p =>
    Children(p) # {} /\ ZombieChildren(p) = {} /\ ~killed[p]

\* Pids name one process, and every process has a parent that hears of its end.
FamilyExact == UniquePids /\ ParentIsLive /\ NoLostChild

\* A process asleep for ev while ev holds is about to be woken: sleep() loses
\* no wakeup between the test of the condition and the change of state.
NoLostWakeup ==
  \A p \in Slots : state[p] = "SLEEPING" /\ chan[p] = Event /\ ev =>
    hpc[BootCPU] = "wakeup"

\* The interrupt flag belongs to the thread, whatever CPU it resumes on: on in
\* user mode and in firstret outside its locks, off in every system call.  (A
\* forked process starts with what the CPU's previous thread left in
\* saved_intr_status; syscallret's cli makes that harmless.)
InterruptFlag ==
  \A c \in CPUs : hpc[c] = "none" /\ proc[c] # NoProc =>
    LET p == proc[c]
        first == p = INIT_PROC /\ boot
    IN  /\ pc[p] = "user" \/ (first /\ pc[p] \in {"start", "relock"}) => intr[c]
        /\ pc[p] \notin {"user", "start"} /\ ~(first /\ pc[p] = "relock") => ~intr[c]

\* Every runnable process is dispatched: the scan from slot 1 starves nobody.
NoStarvation == \A p \in Slots : state[p] = "RUNNABLE" ~> state[p] = "RUNNING"

\* Every zombie whose parent is init is reaped.
ZombiesReaped ==
  \A p \in Slots : state[p] = "ZOMBIE" /\ parent[p] = INIT_PROC ~> state[p] = "UNUSED"

\* A killed process exits, as long as what it waits for keeps happening.
KilledExits ==
  \A p \in Slots : killed[p] /\ Initialized(p) ~> state[p] \in {"ZOMBIE", "UNUSED"}
=============================================================================
