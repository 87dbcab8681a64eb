------------------------------ MODULE ProcProofs ------------------------------
(*****************************************************************************)
(* The inductive invariant of Proc, for any CPUs, slots and programs: the    *)
(* types, who holds PROCS and lk, where the thread of a process in each      *)
(* state is, and what its interrupt flag and the saved copies of it are.     *)
(* Then two more on top of it: no wakeup is lost, and every process keeps a  *)
(* parent that can wait for it as long as init does not exit.                *)
(*****************************************************************************)
EXTENDS Proc, TLAPS

\* The slots are channels and the next event's channel is none of them.
LEMMA SlotFacts ==
  /\ INIT_PROC \in Slots /\ NoProc \notin Slots /\ NoProc \in 0..Event
  /\ Event \in 0..Event /\ Event \notin Slots
  /\ \A p \in Slots : p \in 0..Event /\ NextSlot(p) \in 1..(NPROC + 1)
  BY ProcAssumption DEF Slots, INIT_PROC, NoProc, Event, NextSlot

\* TypeOK in parts.
TableOK ==
  /\ state \in [Slots -> States] /\ chan \in [Slots -> 0..Event]
  /\ pid \in [Slots -> 0..MaxPid] /\ parent \in [Slots -> Slots \cup {NoProc}]
  /\ killed \in [Slots -> BOOLEAN] /\ kstack \in [Slots -> BOOLEAN]
  /\ next_pid \in 1..(MaxPid + 1)
ThreadsOK ==
  /\ pc \in [Slots -> Points] /\ ret \in [Slots -> Points] /\ frame \in [Slots -> Points]
  /\ boot \in BOOLEAN
LocksOK == PROCS \in CPUs \cup {NoCPU} /\ lk \in CPUs \cup {NoCPU} /\ ev \in BOOLEAN
CpusOK ==
  /\ proc \in [CPUs -> Slots \cup {NoProc}]
  /\ spc \in [CPUs -> {"loop", "scan", "switched"}]
  /\ scan \in [CPUs -> 1..(NPROC + 1)]
  /\ hpc \in [CPUs -> {"none", "wakeup"}]
IntrsOK ==
  intr \in [CPUs -> BOOLEAN] /\ saved \in [CPUs -> BOOLEAN] /\ isave \in [Slots -> BOOLEAN]
PanicOK == panic \in {"none", "sched", "init_exiting"}
Types == TableOK /\ ThreadsOK /\ LocksOK /\ CpusOK /\ IntrsOK /\ PanicOK

\* Together they are TypeOK.
LEMMA TypeParts == TypeOK <=> Types
  BY Zenon DEF TypeOK, Types, TableOK, ThreadsOK, LocksOK, CpusOK, IntrsOK, PanicOK

\* What leaves a part alone keeps its types.
LEMMA Kept ==
  ASSUME Types
  PROVE  /\ UNCHANGED table => TableOK'
         /\ UNCHANGED threads => ThreadsOK'
         /\ UNCHANGED locks => LocksOK'
         /\ UNCHANGED cpus => CpusOK'
         /\ UNCHANGED intrs => IntrsOK'
         /\ UNCHANGED panic => PanicOK'
  BY Zenon DEF Types, TableOK, ThreadsOK, LocksOK, CpusOK, IntrsOK, PanicOK, table, ids, threads, locks, cpus, intrs

\* The building blocks of the actions keep them too.
LEMMA BlockTypes ==
  ASSUME Types, NEW c \in CPUs, NEW p \in Slots
  PROVE  /\ \A x \in Points : Goto(p, x) => ThreadsOK'
         /\ LockProcs(c) \/ UnlockProcs \/ LockLk(c) => LocksOK'
         /\ \A flag \in BOOLEAN : SetIntr(c, flag) => IntrsOK'
         /\ PopIntr(c) \/ PushIntr(c) \/ Masked(c) => IntrsOK'
<1>1. \A x \in Points : Goto(p, x) => ThreadsOK'
  BY Zenon DEF Types, ThreadsOK, Goto
<1>2. LockProcs(c) \/ UnlockProcs \/ LockLk(c) => LocksOK'
  BY Zenon DEF Types, LocksOK, LockProcs, UnlockProcs, LockLk
<1>3. \A flag \in BOOLEAN : SetIntr(c, flag) => IntrsOK'
  BY Zenon DEF Types, IntrsOK, SetIntr
<1>4. PopIntr(c) \/ PushIntr(c) \/ Masked(c) => IntrsOK'
  BY Zenon DEF Types, IntrsOK, PopIntr, SetIntr, PushIntr, Masked
<1> QED
  BY Zenon, <1>1, <1>2, <1>3, <1>4

\* A new state for every process.
LEMMA SetStatesTypes ==
  ASSUME Types, NEW st \in [Slots -> States], SetStates(st)
  PROVE  state' \in [Slots -> States] /\ chan' \in [Slots -> 0..Event]
  BY Zenon, SlotFacts DEF SetStates, Types, TableOK

\* A thread about to call sched().
LEMMA LeaveTypes ==
  ASSUME Types, NEW p \in Slots, NEW st \in States, NEW ch \in 0..Event, NEW x \in Points,
         Leave(p, st, ch, x)
  PROVE  TableOK' /\ ThreadsOK' /\ CpusOK' /\ PanicOK'
<1>1. TableOK'
  BY Zenon DEF Leave, Types, TableOK, ids
<1>2. ThreadsOK'
  BY Zenon DEF Leave, Types, ThreadsOK, Points
<1> QED
  BY Zenon, <1>1, <1>2, Kept DEF Leave

\* Every step of a thread keeps the types.
LEMMA ThreadTypes ==
  ASSUME Types, NEW c \in CPUs, NEW p \in Slots, ThreadStep(c, p) \/ OpenStep(c, p)
  PROVE  Types'
<1> USE DEF Points
<1>1. CASE Forkret(c, p) \/ Wait(c, p) \/ WaitFails(c, p) \/ Awake(c, p)
  BY Zenon, <1>1, Kept, BlockTypes DEF Types, Forkret, Wait, WaitFails, Awake, Quiet
<1>2. CASE Return(c, p) \/ Syscallret(c, p)
  <2>1. DieIfDead(p, "user") \in Points
    BY Zenon DEF DieIfDead
  <2>2. IntrsOK'
    BY Zenon, <1>2, Kept, BlockTypes DEF Return, Syscallret
  <2> QED
    BY Zenon, <1>2, <2>1, <2>2, Kept, BlockTypes DEF Types, Return, Syscallret, Quiet
<1>3. CASE AwaitSleeps(c, p) \/ SleepLock(c, p) \/ Firstret(c, p) \/ Relock(c, p)
  BY Zenon, <1>3, Kept, BlockTypes DEF Types, AwaitSleeps, SleepLock, Firstret, Relock, Quiet
<1>4. CASE AwaitDone(c, p)
  <2>1. ThreadsOK'
    BY Zenon, <1>4 DEF AwaitDone, Types, ThreadsOK
  <2>2. LocksOK'
    BY Zenon, <1>4 DEF AwaitDone, Types, LocksOK
  <2> QED
    BY Zenon, <1>4, <2>1, <2>2, Kept, BlockTypes DEF Types, AwaitDone, Quiet
<1>5. CASE SleepRelease(c, p)
  <2>1. LocksOK'
    BY Zenon, <1>5 DEF SleepRelease, Types, LocksOK
  <2> QED
    BY Zenon, <1>5, <2>1, Kept, BlockTypes DEF Types, SleepRelease, Quiet
<1>6. CASE WaitSleeps(c, p) \/ SleepState(c, p) \/ Yield(c, p)
  BY Zenon, <1>6, LeaveTypes, SlotFacts, Kept, BlockTypes DEF Types, WaitSleeps, SleepState, Yield, States
<1>7. CASE Yielded(c, p)
  <2>1. ThreadsOK'
    BY Zenon, <1>7 DEF Yielded, Types, ThreadsOK
  <2> QED
    BY Zenon, <1>7, <2>1, Kept, BlockTypes DEF Types, Yielded, Quiet
<1>8. CASE Sched(c, p)
  <2>1. ThreadsOK'
    BY Zenon, <1>8 DEF Sched, Types, ThreadsOK
  <2>2. CpusOK'
    BY Zenon, <1>8, SlotFacts DEF Sched, Types, CpusOK
  <2>3. IntrsOK' /\ PanicOK'
    BY Zenon, <1>8 DEF Sched, Types, IntrsOK, PanicOK
  <2> QED
    BY Zenon, <1>8, <2>1, <2>2, <2>3, Kept, BlockTypes DEF Types, Sched
<1>9. CASE Exit(c, p)
  <2>1. [Wakeup1(ExitChannels(p)) EXCEPT ![p] = "ZOMBIE"] \in [Slots -> States]
    BY Zenon DEF Types, TableOK, Wakeup1, States
  <2>2. state' \in [Slots -> States] /\ chan' \in [Slots -> 0..Event]
    BY Zenon, <1>9, <2>1, SetStatesTypes DEF Exit
  <2>3. TableOK'
    BY Zenon, <1>9, <2>2, SlotFacts DEF Exit, Types, TableOK, Reparented
  <2>4. PanicOK'
    BY Zenon, <1>9 DEF Exit, PanicOK
  <2> QED
    BY Zenon, <1>9, <2>3, <2>4, Kept, BlockTypes DEF Types, Exit
<1>10. CASE Reap(c, p)
  <2>1. PICK q \in Slots :
          /\ SetStates([state EXCEPT ![q] = "UNUSED"]) /\ pid' = [pid EXCEPT ![q] = 0]
          /\ parent' = [parent EXCEPT ![q] = NoProc] /\ killed' = [killed EXCEPT ![q] = FALSE]
          /\ kstack' = [kstack EXCEPT ![q] = FALSE]
    BY Zenon, <1>10 DEF Reap
  <2>2. [state EXCEPT ![q] = "UNUSED"] \in [Slots -> States]
    BY Zenon DEF Types, TableOK, States
  <2>3. state' \in [Slots -> States] /\ chan' \in [Slots -> 0..Event]
    BY Zenon, <2>1, <2>2, SetStatesTypes
  <2>4. 0 \in 0..MaxPid
    BY ProcAssumption
  <2>5. pid' \in [Slots -> 0..MaxPid] /\ parent' \in [Slots -> Slots \cup {NoProc}]
    BY Zenon, <2>1, <2>4 DEF Types, TableOK
  <2>6. killed' \in [Slots -> BOOLEAN] /\ kstack' \in [Slots -> BOOLEAN]
    BY Zenon, <2>1 DEF Types, TableOK
  <2>7. TableOK'
    BY Zenon, <1>10, <2>3, <2>5, <2>6 DEF Types, TableOK, Reap
  <2> QED
    BY Zenon, <1>10, <2>7, Kept, BlockTypes DEF Types, Reap
<1> QED
  BY Zenon, <1>1, <1>2, <1>3, <1>4, <1>5, <1>6, <1>7, <1>8, <1>9, <1>10 DEF ThreadStep, OpenStep

\* So does every system call that a user program makes.
LEMMA UserTypes ==
  ASSUME Types, NEW c \in CPUs, UserStep(c)
  PROVE  Types'
<1>0. PICK p \in Slots :
        \/ ForkFails(c, p) \/ ForkAborts(c, p) \/ Fork(c, p)
        \/ (\E k \in KillPids : Kill(c, p, k))
        \/ ExitCall(c, p) \/ WaitCall(c, p) \/ Await(c, p) \/ Fault(c, p)
  BY Zenon DEF UserStep
<1> USE DEF Points
<1>1. CASE ForkFails(c, p) \/ ExitCall(c, p) \/ WaitCall(c, p) \/ Await(c, p)
  BY Zenon, <1>1, Kept, BlockTypes DEF Types, ForkFails, ExitCall, WaitCall, Enter, Await, Quiet
<1>2. CASE ForkAborts(c, p)
  <2>1. PICK np \in Slots : pid' = [pid EXCEPT ![np] = next_pid]
    BY Zenon, <1>2 DEF ForkAborts
  <2>2. next_pid \in 0..MaxPid /\ next_pid + 1 \in 1..(MaxPid + 1)
    BY <1>2, ProcAssumption DEF ForkAborts, Types, TableOK
  <2>3. TableOK'
    BY Zenon, <1>2, <2>1, <2>2 DEF ForkAborts, Types, TableOK
  <2> QED
    BY Zenon, <1>2, <2>3, Kept, BlockTypes DEF Types, ForkAborts, WithProcs
<1>3. CASE Fork(c, p)
  <2>1. PICK np \in Slots :
          /\ state' = [state EXCEPT ![np] = "RUNNABLE"] /\ pid' = [pid EXCEPT ![np] = next_pid]
          /\ parent' = [parent EXCEPT ![np] = p] /\ kstack' = [kstack EXCEPT ![np] = TRUE]
          /\ pc' = [pc EXCEPT ![np] = "forkret", ![p] = "sysret"]
    BY Zenon, <1>3 DEF Fork
  <2>2. next_pid \in 0..MaxPid /\ next_pid + 1 \in 1..(MaxPid + 1)
    BY <1>3, ProcAssumption DEF Fork, Types, TableOK
  <2>3. TableOK'
    BY Zenon, <1>3, <2>1, <2>2 DEF Fork, Types, TableOK, States
  <2>4. ThreadsOK'
    BY Zenon, <1>3, <2>1 DEF Fork, Types, ThreadsOK
  <2> QED
    BY Zenon, <1>3, <2>3, <2>4, Kept, BlockTypes DEF Types, Fork, WithProcs
<1>4. ASSUME NEW k \in KillPids, Kill(c, p, k) PROVE Types'
  <2>1. CASE UNCHANGED <<killed, state, chan>>
    BY Zenon, <1>4, <2>1, Kept, BlockTypes DEF Types, Kill, WithProcs, table, ids
  <2>2. ASSUME NEW q \in Slots, killed' = [killed EXCEPT ![q] = TRUE],
               SetStates([state EXCEPT ![q] = IF @ = "SLEEPING" THEN "RUNNABLE" ELSE @])
        PROVE  Types'
    <3>1. [state EXCEPT ![q] = IF @ = "SLEEPING" THEN "RUNNABLE" ELSE @] \in [Slots -> States]
      BY Zenon DEF Types, TableOK, States
    <3>2. state' \in [Slots -> States] /\ chan' \in [Slots -> 0..Event]
      BY Zenon, <2>2, <3>1, SetStatesTypes
    <3>3. TableOK'
      BY Zenon, <1>4, <2>2, <3>2 DEF Types, TableOK, Kill
    <3> QED
      BY Zenon, <1>4, <3>3, Kept, BlockTypes DEF Types, Kill, WithProcs
  <2> QED
    BY Zenon, <1>4, <2>1, <2>2 DEF Kill
<1>5. CASE Fault(c, p)
  <2>1. TableOK'
    BY Zenon, <1>5 DEF Fault, Types, TableOK
  <2> QED
    BY Zenon, <1>5, <2>1, Kept, BlockTypes DEF Types, Fault
<1> QED
  BY Zenon, <1>0, <1>1, <1>2, <1>3, <1>4, <1>5

\* And so do the scheduler, the timer and the device handler.
LEMMA MachineTypes ==
  ASSUME Types, NEW c \in CPUs,
         CPUStep(c) \/ TimerInterrupt(c) \/ DeviceInterrupt(c) \/ HandlerWakeup(c)
  PROVE  Types'
<1>0. PICK z \in Slots : TRUE
  BY Zenon, SlotFacts
<1>1. CASE SchedLock(c)
  <2>1. CpusOK'
    BY <1>1, ProcAssumption DEF SchedLock, Types, CpusOK
  <2> QED
    BY Zenon, <1>1, <2>1, Kept, BlockTypes DEF Types, SchedLock
<1>2. CASE Dispatch(c)
  <2>1. PICK p \in Slots :
          /\ SetStates(Dispatched(p)) /\ proc' = [proc EXCEPT ![c] = p]
          /\ saved' = [saved EXCEPT ![c] = RestoredStatus(c, p)]
          /\ isave' = [isave EXCEPT ![p] = FALSE]
    BY Zenon, <1>2 DEF Dispatch
  <2>2. Dispatched(p) \in [Slots -> States]
    BY Zenon DEF Dispatched, Types, TableOK, States
  <2>3. state' \in [Slots -> States] /\ chan' \in [Slots -> 0..Event]
    BY Zenon, <2>1, <2>2, SetStatesTypes
  <2>4. TableOK'
    BY Zenon, <1>2, <2>3 DEF Dispatch, Types, TableOK, ids
  <2>5. CpusOK'
    BY Zenon, <1>2, <2>1 DEF Dispatch, Types, CpusOK
  <2>6. IntrsOK'
    BY Zenon, <1>2, <2>1 DEF RestoredStatus, Types, IntrsOK, Dispatch
  <2> QED
    BY Zenon, <1>2, <2>4, <2>5, <2>6, Kept DEF Types, Dispatch
<1>3. CASE ScanEnd(c)
  <2>1. CpusOK'
    BY Zenon, <1>3 DEF ScanEnd, Types, CpusOK
  <2> QED
    BY Zenon, <1>0, <1>3, <2>1, Kept, BlockTypes DEF Types, ScanEnd
<1>4. ASSUME NEW p \in Slots, Timer(c, p) PROVE Types'
  <2>1. ThreadsOK'
    BY Zenon, <1>4 DEF Timer, Types, ThreadsOK, DieIfDead, Points
  <2> QED
    BY Zenon, <1>4, <2>1, Kept, BlockTypes DEF Types, Timer, Quiet
<1>5. CASE DeviceInterrupt(c)
  <2>1. CpusOK'
    BY Zenon, <1>5 DEF DeviceInterrupt, Types, CpusOK
  <2>2. LocksOK'
    BY Zenon, <1>5 DEF DeviceInterrupt, Types, LocksOK
  <2> QED
    BY Zenon, <1>0, <1>5, <2>1, <2>2, Kept, BlockTypes DEF Types, DeviceInterrupt
<1>6. CASE HandlerWakeup(c)
  <2>1. Wakeup1({Event}) \in [Slots -> States]
    BY Zenon DEF Types, TableOK, Wakeup1, States
  <2>2. state' \in [Slots -> States] /\ chan' \in [Slots -> 0..Event]
    BY Zenon, <1>6, <2>1, SetStatesTypes DEF HandlerWakeup
  <2>3. TableOK'
    BY Zenon, <1>6, <2>2 DEF HandlerWakeup, Types, TableOK, ids
  <2>4. CpusOK' /\ LocksOK'
    BY Zenon, <1>6 DEF HandlerWakeup, Types, CpusOK, LocksOK
  <2>5. ThreadsOK' /\ IntrsOK'
    BY Zenon, <1>0, <1>6, Kept, BlockTypes DEF HandlerWakeup, Types, CpusOK, Points
  <2> QED
    BY Zenon, <1>6, <2>3, <2>4, <2>5, Kept DEF Types, HandlerWakeup
<1> QED
  BY Zenon, <1>1, <1>2, <1>3, <1>4, <1>5, <1>6 DEF CPUStep, TimerInterrupt

\* Every step of the system keeps the types.
LEMMA TypesInductive == Types /\ [Next]_vars => Types'
<1>1. CASE UNCHANGED vars
  BY Zenon, <1>1, Kept DEF vars, Types
<1> QED
  BY Zenon, <1>1, ThreadTypes, UserTypes, MachineTypes DEF Next
-----------------------------------------------------------------------------
\* The points at which a thread holds PROCS, holds lk, or may be interrupted.
Holding == {"forkret", "wait", "sched", "unlock", "release", "sleeping", "awake"}
Awaiting == {"await", "sleep", "release"}
Open == {"user", "start", "relock"}

\* The points of the loop that waits for ev, and all those of firstret.
Waiting == {"await", "sleep", "release", "sleeping", "awake"}
BootPoints == Waiting \cup {"forkret", "start", "relock", "yield", "unlock"}

\* Where the thread on CPU c is, and where p's thread is or will be once it
\* is back from sched().
At(c) == IF proc[c] = NoProc THEN "none" ELSE pc[proc[c]]
Resume(p) == IF pc[p] = "sched" THEN ret[p] ELSE pc[p]
Yields(p) == Resume(p) = "unlock" \/ pc[p] = "yield"

\* p is the first process, in firstret; it has not even started.
First(p) == p = INIT_PROC /\ boot
Early == boot /\ pc[INIT_PROC] = "forkret"

\* The locks of a CPU, its interrupt flag and the saved status follow from
\* what it executes.
LocksInv(c) ==
  /\ spc[c] = "switched" <=> proc[c] # NoProc
  /\ PROCS = c <=> spc[c] = "scan" \/ At(c) \in Holding
  /\ lk = c <=> hpc[c] = "wakeup" \/ At(c) \in Awaiting
  /\ hpc[c] = "wakeup" => c = BootCPU /\ (spc[c] = "loop" \/ At(c) \in Open)
FlagInv(c) ==
  /\ intr[c] => hpc[c] = "none" /\ (spc[c] = "loop" \/ At(c) \in Open)
  /\ hpc[c] = "none" /\ (spc[c] = "loop" \/ At(c) = "user") => intr[c]
  /\ hpc[c] = "none" /\ At(c) \in {"start", "relock"} /\ First(proc[c]) => intr[c]
  /\ At(c) = "relock" /\ (intr[c] \/ hpc[c] = "wakeup") => First(proc[c])
SavedInv(c) ==
  /\ proc[c] # NoProc =>
       /\ Resume(proc[c]) \in Waiting => (saved[c] <=> First(proc[c]))
       /\ Resume(proc[c]) = "wait" => ~saved[c]
  /\ Early /\ (spc[c] = "scan" \/ proc[c] = INIT_PROC) => saved[c]
CpuInv(c) == LocksInv(c) /\ FlagInv(c) /\ SavedInv(c)

\* The state of a process, its kernel stack and its thread agree.
StateInv(p) ==
  /\ state[p] = "RUNNING" <=> OnCPU(p) /\ pc[p] # "sched"
  /\ pc[p] = "sched" => OnCPU(p) /\ state[p] # "UNUSED"
  /\ state[p] \in {"RUNNABLE", "SLEEPING"} => Resume(p) \in {"forkret", "wait", "unlock", "awake"}
  /\ kstack[p] <=> state[p] # "UNUSED"
  /\ Early => p = INIT_PROC \/ state[p] = "UNUSED"
ThreadInv(p) ==
  /\ ret[p] \in {"none", "wait", "unlock", "awake"} /\ (pc[p] # "sched" => ret[p] = "none")
  /\ frame[p] \in Open \cup {"none"}
  /\ Yields(p) => frame[p] # "none" /\ (frame[p] = "relock" => First(p))
  /\ First(p) => Resume(p) \in BootPoints /\ (Yields(p) => frame[p] # "user")
  /\ First(p) => state[p] \notin {"UNUSED", "ZOMBIE"}
  /\ state[p] \in {"RUNNABLE", "SLEEPING"} /\ ~OnCPU(p) =>
       /\ pc[p] = "awake" => (isave[p] <=> First(p))
       /\ pc[p] = "wait" => ~isave[p]
SlotInv(p) == StateInv(p) /\ ThreadInv(p)

OneCPU == \A c, d \in CPUs : proc[c] = proc[d] => c = d \/ proc[c] = NoProc

IInv ==
  /\ Types /\ OneCPU
  /\ \A c \in CPUs : CpuInv(c)
  /\ \A p \in Slots : SlotInv(p)
-----------------------------------------------------------------------------
\* A step of CPU c: no thread but its own moves, no other CPU's scheduler,
\* handler or flags change, and a lock changes hands only from or to c.
OwnLock(lock, c) == lock' = lock \/ (lock \in {c, NoCPU} /\ lock' \in {c, NoCPU})
OtherCPU(d) ==
  spc'[d] = spc[d] /\ hpc'[d] = hpc[d] /\ intr'[d] = intr[d] /\ saved'[d] = saved[d]
OtherThread(q) ==
  /\ pc'[q] = pc[q] /\ ret'[q] = ret[q] /\ frame'[q] = frame[q] /\ isave'[q] = isave[q]
  /\ First(q)' <=> First(q)
  /\ \/ state'[q] = state[q] /\ kstack'[q] = kstack[q]
     \/ state[q] = "SLEEPING" /\ state'[q] = "RUNNABLE" /\ kstack'[q] = kstack[q]
     \/ state[q] = "ZOMBIE" /\ pc[q] # "sched" /\ state'[q] = "UNUSED" /\ ~kstack'[q]
Local(c) ==
  /\ UNCHANGED proc
  /\ OwnLock(PROCS, c) /\ OwnLock(lk, c)
  /\ \A d \in CPUs \ {c} : OtherCPU(d)
  /\ \A q \in Slots : q # proc[c] => OtherThread(q)
  /\ Early' => Early

\* The state proc::init leaves satisfies the invariant.
LEMMA InitInv == Init => IInv
<1> SUFFICES ASSUME Init PROVE IInv
  OBVIOUS
<1>1. Types
  <2>1. TableOK /\ ThreadsOK
    BY SlotFacts, ProcAssumption DEF Init, TableOK, ThreadsOK, States, Points
  <2>2. CpusOK /\ IntrsOK
    BY ProcAssumption DEF Init, CpusOK, IntrsOK
  <2> QED
    BY Zenon, <2>1, <2>2 DEF Init, Types, LocksOK, PanicOK
<1>2. \A c \in CPUs : proc[c] = NoProc /\ spc[c] = "loop" /\ hpc[c] = "none" /\ intr[c]
  BY Zenon DEF Init
<1>3. ASSUME NEW c \in CPUs PROVE CpuInv(c)
  <2>1. At(c) = "none"
    BY Zenon, <1>2 DEF At
  <2>2. PROCS # c /\ lk # c
    BY Zenon, ProcAssumption DEF Init
  <2> QED
    BY Zenon, <1>2, <2>1, <2>2, SlotFacts DEF CpuInv, LocksInv, FlagInv, SavedInv, Holding, Awaiting
<1>4. ASSUME NEW p \in Slots PROVE SlotInv(p)
  <2>1. ~OnCPU(p)
    BY Zenon, <1>2, SlotFacts DEF OnCPU
  <2>2. /\ pc[p] = IF p = INIT_PROC THEN "forkret" ELSE "none"
        /\ ret[p] = "none" /\ frame[p] = "none"
        /\ state[p] = IF p = INIT_PROC THEN "RUNNABLE" ELSE "UNUSED"
        /\ kstack[p] <=> p = INIT_PROC
    BY Zenon DEF Init
  <2>3. StateInv(p)
    BY Zenon, <2>1, <2>2 DEF StateInv, Resume
  <2>4. ThreadInv(p)
    BY Zenon, <2>1, <2>2 DEF ThreadInv, Resume, Yields, First, BootPoints
  <2> QED
    BY Zenon, <2>3, <2>4 DEF SlotInv
<1>5. OneCPU
  BY Zenon, <1>2 DEF OneCPU
<1> QED
  BY Zenon, <1>1, <1>3, <1>4, <1>5 DEF IInv

-----------------------------------------------------------------------------
\* Every other CPU than the one that acts has another process and other locks.
LEMMA OtherCPUs ==
  ASSUME IInv, NEW c \in CPUs, NEW d \in CPUs \ {c}, OtherCPU(d), OwnLock(PROCS, c), OwnLock(lk, c),
         proc'[d] = proc[d], (Early' => Early),
         proc[d] # NoProc => OtherThread(proc[d])
  PROVE  CpuInv(d)'
<1>1. LocksInv(d) /\ FlagInv(d) /\ SavedInv(d)
  BY Zenon DEF IInv, CpuInv
<1>2. (PROCS' = d <=> PROCS = d) /\ (lk' = d <=> lk = d)
  BY ProcAssumption DEF OwnLock
<1>3. At(d)' = At(d)
  BY Zenon DEF At, OtherThread
<1>4. proc[d] # NoProc => Resume(proc[d])' = Resume(proc[d]) /\ (First(proc[d])' <=> First(proc[d]))
  BY Zenon DEF OtherThread, Resume
<1>5. LocksInv(d)'
  BY Zenon, <1>1, <1>2, <1>3 DEF LocksInv, OtherCPU
<1>6. FlagInv(d)'
  BY Zenon, <1>1, <1>3, <1>4 DEF FlagInv, At, OtherCPU
<1>7. SavedInv(d)'
  BY Zenon, <1>1, <1>4 DEF SavedInv, OtherCPU
<1> QED
  BY Zenon, <1>5, <1>6, <1>7 DEF CpuInv

\* A thread that the step does not move keeps what is said of it.
LEMMA OtherSlots ==
  ASSUME IInv, NEW q \in Slots, OtherThread(q), OnCPU(q)' <=> OnCPU(q), Early' => Early
  PROVE  SlotInv(q)'
<1>1. StateInv(q) /\ ThreadInv(q)
  BY Zenon DEF IInv, SlotInv
<1>2. (Resume(q)' = Resume(q)) /\ (Yields(q)' <=> Yields(q))
  BY Zenon DEF OtherThread, Resume, Yields
<1>3. StateInv(q)'
  BY Zenon, <1>1, <1>2 DEF OtherThread, StateInv
<1>4. /\ ret'[q] = ret[q] /\ frame'[q] = frame[q] /\ (First(q)' <=> First(q))
      /\ pc'[q] = pc[q] /\ isave'[q] = isave[q]
      /\ state'[q] \in {"RUNNABLE", "SLEEPING"} => state[q] \in {"RUNNABLE", "SLEEPING"}
      /\ state'[q] \in {"UNUSED", "ZOMBIE"} => state[q] \in {"UNUSED", "ZOMBIE"}
  BY Zenon DEF OtherThread
<1>5. ThreadInv(q)'
  BY Zenon, <1>1, <1>2, <1>4 DEF ThreadInv
<1> QED
  BY Zenon, <1>3, <1>5 DEF SlotInv

\* Such a step need only keep the invariant of its own CPU and thread.
LEMMA LocalStep ==
  ASSUME IInv, Types', NEW c \in CPUs, Local(c), CpuInv(c)',
         \A p \in Slots : p = proc[c] => SlotInv(p)'
  PROVE  IInv'
<1>1. ASSUME NEW d \in CPUs \ {c} PROVE CpuInv(d)'
  <2>1. proc[d] # NoProc => proc[d] \in Slots /\ proc[d] # proc[c]
    BY Zenon DEF IInv, OneCPU, Types, CpusOK
  <2> QED
    BY Zenon, <2>1, OtherCPUs DEF Local
<1>2. ASSUME NEW q \in Slots, q # proc[c] PROVE SlotInv(q)'
  BY Zenon, <1>2, OtherSlots DEF Local, OnCPU
<1>3. OneCPU'
  BY Zenon DEF IInv, OneCPU, Local
<1>4. \A d \in CPUs : CpuInv(d)'
  BY Zenon, <1>1
<1>5. \A q \in Slots : SlotInv(q)'
  BY Zenon, <1>2
<1> QED
  BY Zenon, <1>3, <1>4, <1>5 DEF IInv

\* What the invariant says of a CPU that runs the thread of p, at point a.
LEMMA RunsOn ==
  ASSUME IInv, NEW c \in CPUs, NEW p \in Slots, NEW a, Runs(c, p, a)
  PROVE  /\ proc[c] = p /\ pc[p] = a /\ hpc[c] = "none" /\ spc[c] = "switched" /\ At(c) = a
         /\ OnCPU(p) /\ kstack[p] /\ frame[p] \in Open \cup {"none"}
         /\ a # "sched" => state[p] = "RUNNING"
<1>1. proc[c] = p /\ pc[p] = a /\ hpc[c] = "none" /\ OnCPU(p) /\ p # NoProc
  BY Zenon, SlotFacts DEF Runs, OnCPU
<1>2. LocksInv(c) /\ StateInv(p) /\ ThreadInv(p)
  BY Zenon DEF IInv, CpuInv, SlotInv
<1> QED
  BY Zenon, <1>1, <1>2 DEF At, LocksInv, StateInv, ThreadInv

\* The locks that it holds, and its interrupt flag.
LEMMA RunsLocks ==
  ASSUME IInv, NEW c \in CPUs, NEW p \in Slots, NEW a, Runs(c, p, a)
  PROVE  /\ PROCS = c <=> a \in Holding
         /\ lk = c <=> a \in Awaiting
         /\ intr[c] => a \in Open
         /\ a = "relock" /\ intr[c] => First(p)
         /\ a = "user" \/ (a \in {"start", "relock"} /\ First(p)) => intr[c]
<1>1. proc[c] = p /\ hpc[c] = "none" /\ spc[c] = "switched" /\ At(c) = a
  BY RunsOn
<1>2. LocksInv(c) /\ FlagInv(c)
  BY Zenon DEF IInv, CpuInv
<1> QED
  BY Zenon, <1>1, <1>2 DEF LocksInv, FlagInv

\* The status that it saved, and the frame that an interrupt left.
LEMMA RunsSaved ==
  ASSUME IInv, NEW c \in CPUs, NEW p \in Slots, NEW a, Runs(c, p, a)
  PROVE  /\ a \in Waiting => (saved[c] <=> First(p))
         /\ a = "wait" => ~saved[c]
         /\ a = "forkret" /\ First(p) => saved[c]
         /\ a \in {"yield", "unlock"} =>
              frame[p] # "none" /\ (frame[p] = "relock" => First(p)) /\ (First(p) => frame[p] # "user")
<1>1. proc[c] = p /\ pc[p] = a /\ p # NoProc
  BY RunsOn, SlotFacts
<1>2. SavedInv(c) /\ ThreadInv(p)
  BY Zenon DEF IInv, CpuInv, SlotInv
<1>3. a = "forkret" /\ First(p) => saved[c]
  BY Zenon, <1>1, <1>2 DEF SavedInv, Early, First
<1> QED
  BY Zenon, <1>1, <1>2, <1>3 DEF SavedInv, ThreadInv, Resume, Yields, Waiting

\* The first process is in firstret() until boot ends: it makes no call.
LEMMA RunsCalls ==
  ASSUME IInv, NEW c \in CPUs, NEW p \in Slots,
         NEW a \in {"user", "sysret", "wlock", "wait", "exit"}, Runs(c, p, a)
  PROVE  ~First(p)
<1>1. pc[p] = a /\ ThreadInv(p)
  BY RunsOn DEF IInv, SlotInv
<1> QED
  BY Zenon, <1>1 DEF ThreadInv, Resume, BootPoints, Waiting

\* The thread of p, on CPU c, has the locks, the interrupt flag, the saved
\* status and the frame that belong to the point x.
Placed(c, p, x) ==
  /\ PROCS = c <=> x \in Holding
  /\ lk = c <=> x \in Awaiting
  /\ intr[c] => x \in Open
  /\ x = "user" \/ (x \in {"start", "relock"} /\ First(p)) => intr[c]
  /\ x = "relock" /\ intr[c] => First(p)
  /\ x \in Waiting => (saved[c] <=> First(p))
  /\ x = "wait" => ~saved[c]
  /\ frame[p] \in Open \cup {"none"}
  /\ x = "yield" =>
       frame[p] # "none" /\ (frame[p] = "relock" => First(p)) /\ (First(p) => frame[p] # "user")
  /\ First(p) => x \in BootPoints

\* A thread that moves to a point with what belongs there keeps the invariant
\* of its CPU and its own.
LEMMA Moved ==
  ASSUME IInv, NEW c \in CPUs, NEW p \in Slots, NEW x, UNCHANGED proc, ~Early',
         proc[c] = p, spc[c] = "switched", spc'[c] = spc[c], hpc'[c] = "none",
         state[p] = "RUNNING", state'[p] = "RUNNING", kstack'[p], ret'[p] = ret[p], pc'[p] = x,
         x \notin {"sched", "forkret", "unlock"}, Placed(c, p, x)'
  PROVE  CpuInv(c)' /\ SlotInv(p)'
<1>1. proc'[c] = p /\ p # NoProc /\ At(c)' = x /\ Resume(p)' = x /\ OnCPU(p)'
  BY Zenon, SlotFacts DEF At, Resume, OnCPU
<1>2. LocksInv(c)'
  BY Zenon, <1>1 DEF LocksInv, Placed
<1>3. FlagInv(c)'
  BY Zenon, <1>1 DEF FlagInv, Placed
<1>4. SavedInv(c)'
  BY Zenon, <1>1 DEF SavedInv, Placed
<1>5. StateInv(p)'
  BY Zenon, <1>1 DEF StateInv
<1>6. ThreadInv(p)'
  <2>1. ret'[p] = "none"
    BY Zenon DEF IInv, SlotInv, StateInv, ThreadInv
  <2>2. Yields(p)' <=> x = "yield"
    BY Zenon, <1>1 DEF Yields
  <2> QED
    BY Zenon, <1>1, <2>1, <2>2 DEF ThreadInv, Placed
<1> QED
  BY Zenon, <1>2, <1>3, <1>4, <1>5, <1>6 DEF CpuInv, SlotInv

\* The interrupt status of a CPU is its own.
OwnIntr(c) ==
  (\A d \in CPUs \ {c} : intr'[d] = intr[d] /\ saved'[d] = saved[d]) /\ UNCHANGED isave

\* What the pairs of spinlock.rs do to the status of their CPU.
LEMMA IntrBlocks ==
  ASSUME Types, NEW c \in CPUs
  PROVE  /\ \A flag \in BOOLEAN : SetIntr(c, flag) =>
              OwnIntr(c) /\ (intr'[c] <=> flag) /\ (saved'[c] <=> saved[c])
         /\ PopIntr(c) => OwnIntr(c) /\ (intr'[c] <=> saved[c]) /\ (saved'[c] <=> saved[c])
         /\ PushIntr(c) => OwnIntr(c) /\ ~intr'[c] /\ (saved'[c] <=> intr[c])
         /\ Masked(c) => OwnIntr(c) /\ ~intr'[c] /\ ~saved'[c]
         /\ UNCHANGED intrs => OwnIntr(c) /\ (intr'[c] <=> intr[c]) /\ (saved'[c] <=> saved[c])
<1>1. intr \in [CPUs -> BOOLEAN] /\ saved \in [CPUs -> BOOLEAN]
  BY Zenon DEF Types, IntrsOK
<1>2. ASSUME NEW flag \in BOOLEAN, SetIntr(c, flag)
      PROVE  OwnIntr(c) /\ (intr'[c] <=> flag) /\ (saved'[c] <=> saved[c])
  BY Zenon, <1>1, <1>2 DEF SetIntr, OwnIntr
<1>3. PushIntr(c) => OwnIntr(c) /\ ~intr'[c] /\ (saved'[c] <=> intr[c])
  BY Zenon, <1>1 DEF PushIntr, OwnIntr
<1>4. Masked(c) => OwnIntr(c) /\ ~intr'[c] /\ ~saved'[c]
  BY Zenon, <1>1 DEF Masked, OwnIntr
<1>5. UNCHANGED intrs => OwnIntr(c) /\ (intr'[c] <=> intr[c]) /\ (saved'[c] <=> saved[c])
  BY Zenon DEF intrs, OwnIntr
<1>6. PopIntr(c) => OwnIntr(c) /\ (intr'[c] <=> saved[c]) /\ (saved'[c] <=> saved[c])
  BY Zenon, <1>1, <1>2 DEF PopIntr
<1> QED
  BY Zenon, <1>2, <1>3, <1>4, <1>5, <1>6

\* What taking and releasing a lock does to both.
LEMMA LockBlocks ==
  ASSUME NEW c \in CPUs
  PROVE  /\ LockProcs(c) => OwnLock(PROCS, c) /\ OwnLock(lk, c) /\ PROCS' = c /\ lk' = lk
         /\ PROCS = c /\ UnlockProcs => OwnLock(PROCS, c) /\ OwnLock(lk, c) /\ PROCS' # c /\ lk' = lk
         /\ LockLk(c) => OwnLock(PROCS, c) /\ OwnLock(lk, c) /\ PROCS' = PROCS /\ lk' = c
         /\ lk = c /\ lk' = NoCPU /\ UNCHANGED PROCS =>
              OwnLock(PROCS, c) /\ OwnLock(lk, c) /\ PROCS' = PROCS /\ lk' # c
         /\ UNCHANGED locks => OwnLock(PROCS, c) /\ OwnLock(lk, c) /\ PROCS' = PROCS /\ lk' = lk
  BY Zenon, ProcAssumption DEF LockProcs, UnlockProcs, LockLk, OwnLock, locks

-----------------------------------------------------------------------------
\* A step that changes no thread keeps what is said of each.
LEMMA SlotKept ==
  ASSUME IInv, NEW p \in Slots, UNCHANGED <<proc, state, kstack, isave>>, UNCHANGED threads
  PROVE  SlotInv(p)' /\ OtherThread(p) /\ (Early' <=> Early) /\ (Resume(p)' = Resume(p)) /\ (First(p)' <=> First(p))
<1>1. /\ (Resume(p)' = Resume(p)) /\ (Yields(p)' <=> Yields(p)) /\ (First(p)' <=> First(p))
      /\ (OnCPU(p)' <=> OnCPU(p)) /\ (Early' <=> Early) /\ UNCHANGED <<pc, ret, frame>>
  BY Zenon DEF threads, Resume, Yields, First, OnCPU, Early
<1>2. StateInv(p) /\ ThreadInv(p)
  BY Zenon DEF IInv, SlotInv
<1>3. StateInv(p)'
  BY Zenon, <1>1, <1>2 DEF StateInv
<1>4. ThreadInv(p)'
  BY Zenon, <1>1, <1>2 DEF ThreadInv
<1>5. OtherThread(p)
  BY Zenon, <1>1 DEF OtherThread
<1> QED
  BY Zenon, <1>1, <1>3, <1>4, <1>5 DEF SlotInv

\* The scheduler's loop between two dispatches.
LEMMA ScanSteps ==
  ASSUME IInv, Types', NEW c \in CPUs, SchedLock(c) \/ ScanEnd(c)
  PROVE  IInv'
<1>0. Types /\ spc \in [CPUs -> {"loop", "scan", "switched"}] /\ hpc[c] \in {"none", "wakeup"}
  BY Zenon DEF IInv, Types, CpusOK
<1>1. UNCHANGED <<proc, state, kstack, isave, lk, hpc>> /\ UNCHANGED threads
  BY Zenon DEF SchedLock, ScanEnd, LockProcs, UnlockProcs, PushIntr, SetIntr, table, ids
<1>2. LocksInv(c) /\ FlagInv(c)
  BY Zenon DEF IInv, CpuInv
<1>7. spc[c] = "scan" \/ (spc[c] = "loop" /\ hpc[c] = "none")
  BY Zenon DEF SchedLock, ScanEnd
<1>3. proc[c] = NoProc /\ At(c) = "none" /\ hpc[c] = "none" /\ lk # c
  BY Zenon, <1>0, <1>2, <1>7 DEF LocksInv, At, Open, Awaiting
<1>4. At(c)' = "none"
  BY Zenon, <1>1, <1>3 DEF At
<1>5. CASE SchedLock(c)
  <2>1. OwnIntr(c) /\ ~intr'[c] /\ (saved'[c] <=> intr[c])
    BY Zenon, <1>0, <1>5, IntrBlocks DEF SchedLock
  <2>2. intr[c]
    BY Zenon, <1>2, <1>3, <1>5 DEF SchedLock, FlagInv
  <2>3. OwnLock(PROCS, c) /\ OwnLock(lk, c) /\ PROCS' = c
    BY Zenon, <1>5, LockBlocks DEF SchedLock
  <2>4. spc'[c] = "scan" /\ \A d \in CPUs \ {c} : spc'[d] = spc[d]
    BY Zenon, <1>0, <1>5 DEF SchedLock
  <2>5. Local(c)
    BY Zenon, <1>1, <2>1, <2>3, <2>4, SlotKept, SlotFacts DEF Local, OtherCPU, OwnIntr
  <2>6. CpuInv(c)'
    BY Zenon, <1>1, <1>3, <1>4, <2>1, <2>2, <2>3, <2>4, SlotFacts DEF CpuInv, LocksInv, FlagInv, SavedInv, Holding, Awaiting
  <2> QED
    BY Zenon, <1>1, <2>5, <2>6, LocalStep, SlotKept
<1>6. CASE ScanEnd(c)
  <2>1. OwnIntr(c) /\ intr'[c]
    BY Zenon, <1>0, <1>6, IntrBlocks DEF ScanEnd
  <2>2. PROCS = c
    BY Zenon, <1>2, <1>6 DEF ScanEnd, LocksInv
  <2>3. OwnLock(PROCS, c) /\ OwnLock(lk, c) /\ PROCS' # c
    BY Zenon, <1>6, <2>2, LockBlocks DEF ScanEnd
  <2>4. spc'[c] = "loop" /\ \A d \in CPUs \ {c} : spc'[d] = spc[d]
    BY Zenon, <1>0, <1>6 DEF ScanEnd
  <2>5. Local(c)
    BY Zenon, <1>1, <2>1, <2>3, <2>4, SlotKept, SlotFacts DEF Local, OtherCPU, OwnIntr
  <2>6. CpuInv(c)'
    BY Zenon, <1>1, <1>3, <1>4, <2>1, <2>3, <2>4, SlotFacts DEF CpuInv, LocksInv, FlagInv, SavedInv, Holding, Awaiting
  <2> QED
    BY Zenon, <1>1, <2>5, <2>6, LocalStep, SlotKept
<1> QED
  BY Zenon, <1>5, <1>6

\* The device interrupt, and the end of its handler.
LEMMA DeviceSteps ==
  ASSUME IInv, Types', NEW c \in CPUs, DeviceInterrupt(c)
  PROVE  IInv'
<1>0. Types /\ hpc \in [CPUs -> {"none", "wakeup"}] /\ proc[c] \in Slots \cup {NoProc}
  BY Zenon DEF IInv, Types, CpusOK
<1>1. UNCHANGED <<proc, state, kstack, isave, PROCS, spc>> /\ UNCHANGED threads
  BY Zenon DEF DeviceInterrupt, Masked, table, ids
<1>2. LocksInv(c) /\ FlagInv(c) /\ SavedInv(c)
  BY Zenon DEF IInv, CpuInv
<1>3. intr[c] /\ c = BootCPU /\ lk = NoCPU /\ lk' = c
  BY Zenon DEF DeviceInterrupt
<1>4. /\ spc[c] = "loop" \/ At(c) \in Open
      /\ At(c) = "relock" => First(proc[c])
  BY Zenon, <1>2, <1>3 DEF FlagInv
<1>5. At(c)' = At(c) /\ (First(proc[c])' <=> First(proc[c]))
  BY Zenon, <1>1 DEF At, First, threads
<1>6. hpc'[c] = "wakeup" /\ \A d \in CPUs \ {c} : hpc'[d] = hpc[d]
  BY Zenon, <1>0 DEF DeviceInterrupt
<1>7. OwnIntr(c) /\ ~intr'[c]
  BY Zenon, <1>0, IntrBlocks DEF DeviceInterrupt
<1>8. LocksInv(c)'
  BY Zenon, <1>1, <1>2, <1>3, <1>4, <1>5, <1>6 DEF LocksInv
<1>9. FlagInv(c)'
  BY Zenon, <1>4, <1>5, <1>6, <1>7 DEF FlagInv
<1>10. SavedInv(c)'
  <2>1. proc[c] # NoProc => Resume(proc[c])' \in Open
    BY Zenon, <1>1, <1>2, <1>4 DEF Resume, At, threads, LocksInv, Open
  <2>2. spc[c] # "scan" /\ (Early => proc[c] # INIT_PROC)
    BY Zenon, <1>2, <1>4, SlotFacts DEF LocksInv, At, Open, Early
  <2>3. Early' <=> Early
    BY Zenon, <1>1 DEF Early, threads
  <2> QED
    BY Zenon, <1>1, <2>1, <2>2, <2>3 DEF SavedInv, Open, Waiting
<1>11. Local(c)
  BY Zenon, <1>1, <1>3, <1>6, <1>7, SlotKept, SlotFacts DEF Local, OtherCPU, OwnIntr, OwnLock
<1> QED
  BY Zenon, <1>1, <1>8, <1>9, <1>10, <1>11, LocalStep, SlotKept DEF CpuInv
-----------------------------------------------------------------------------
(* The steps of a thread, but for fork() and the switch itself.            *)

\* The thread of p moves to x: the other threads stay, but kill(), exit() and
\* wait() may change the states of others as OtherThread says.
LEMMA MoveStep ==
  ASSUME IInv, Types', NEW c \in CPUs, NEW p \in Slots, NEW a, NEW x \in Points,
         Runs(c, p, a), a # "sched", x \notin {"sched", "forkret", "unlock"},
         pc' = [pc EXCEPT ![p] = x], UNCHANGED cpus, UNCHANGED ret, boot' => boot,
         state'[p] = state[p], kstack'[p] = kstack[p], \A q \in Slots : q # p => OtherThread(q),
         OwnLock(PROCS, c), OwnLock(lk, c), OwnIntr(c), Placed(c, p, x)'
  PROVE  IInv'
<1>1. pc'[p] = x
  BY Zenon DEF IInv, Types, ThreadsOK
<1>2. Early' => Early
  BY Zenon, <1>1, SlotFacts DEF Early, OtherThread
<1>3. /\ proc[c] = p /\ spc[c] = "switched" /\ spc'[c] = spc[c] /\ hpc'[c] = "none" /\ UNCHANGED proc
      /\ state[p] = "RUNNING" /\ state'[p] = "RUNNING" /\ kstack'[p]
  BY RunsOn DEF cpus
<1>4. ~Early'
  BY Zenon, <1>1, <1>2, <1>3, SlotFacts DEF IInv, SlotInv, StateInv, Early
<1>5. CpuInv(c)' /\ SlotInv(p)'
  BY Zenon, <1>1, <1>3, <1>4, Moved
<1>6. \A d \in CPUs \ {c} : OtherCPU(d)
  BY Zenon DEF OtherCPU, OwnIntr, cpus
<1>7. Local(c)
  BY Zenon, <1>2, <1>3, <1>6 DEF Local
<1> QED
  BY Zenon, <1>3, <1>5, <1>7, LocalStep

\* A step that changes no table entry and makes p's thread go on disturbs no
\* other thread.
LEMMA QuietThreads ==
  ASSUME IInv, NEW c \in CPUs, NEW p \in Slots, NEW x, Goto(p, x), UNCHANGED <<state, kstack>>, OwnIntr(c)
  PROVE  \A q \in Slots : q # p => OtherThread(q)
  BY Zenon DEF Goto, IInv, Types, ThreadsOK, OtherThread, OwnIntr, First

\* A step that moves the thread of p to x and touches no table entry.
LEMMA QuietMove ==
  ASSUME IInv, Types', NEW c \in CPUs, NEW p \in Slots, NEW a, NEW x \in Points,
         Runs(c, p, a), a # "sched", x \notin {"sched", "forkret", "unlock"},
         Goto(p, x), UNCHANGED <<state, kstack, cpus>>,
         OwnLock(PROCS, c), OwnLock(lk, c), OwnIntr(c), Placed(c, p, x)'
  PROVE  IInv'
  BY Zenon, QuietThreads, MoveStep DEF Goto

\* A step that holds no lock, before or after.
LEMMA NoLocks ==
  ASSUME IInv, NEW c \in CPUs, NEW p \in Slots,
         NEW a \in {"start", "user", "sysret", "relock"}, Runs(c, p, a), UNCHANGED locks
  PROVE  OwnLock(PROCS, c) /\ OwnLock(lk, c) /\ PROCS' # c /\ lk' # c
<1>1. PROCS # c /\ lk # c
  BY Zenon, RunsLocks DEF Holding, Awaiting
<1> QED
  BY Zenon, <1>1 DEF OwnLock, locks

\* A step that releases PROCS.
LEMMA Unlocks ==
  ASSUME IInv, NEW c \in CPUs, NEW p \in Slots,
         NEW a \in {"forkret", "wait", "unlock", "awake"}, Runs(c, p, a), UnlockProcs
  PROVE  OwnLock(PROCS, c) /\ OwnLock(lk, c) /\ PROCS' # c /\ lk' # c
<1>1. PROCS = c /\ lk # c
  BY Zenon, RunsLocks DEF Holding, Awaiting
<1> QED
  BY Zenon, <1>1, ProcAssumption DEF OwnLock, UnlockProcs

-----------------------------------------------------------------------------
\* forkret(): the release of PROCS restores the status that the CPU saved.
LEMMA ForkretStep ==
  ASSUME IInv, Types', NEW c \in CPUs, NEW p \in Slots, Forkret(c, p)
  PROVE  IInv'
<1>1. Runs(c, p, "forkret") /\ UnlockProcs /\ Goto(p, "start") /\ UNCHANGED <<state, kstack, cpus>>
  BY Zenon DEF Forkret, Quiet, table, ids
<1>2. OwnIntr(c) /\ (intr'[c] <=> saved[c])
  BY Zenon, IntrBlocks DEF Forkret, IInv
<1>3. OwnLock(PROCS, c) /\ OwnLock(lk, c) /\ PROCS' # c /\ lk' # c
  BY Zenon, <1>1, Unlocks
<1>4. UNCHANGED <<frame, boot>> /\ frame[p] \in Open \cup {"none"} /\ (First(p) => saved[c])
  BY Zenon, <1>1, RunsOn, RunsSaved DEF Goto
<1>5. Placed(c, p, "start")'
  BY Zenon, <1>2, <1>3, <1>4 DEF Placed, First, Holding, Awaiting, Open, Waiting, BootPoints
<1> QED
  BY Zenon, <1>1, <1>2, <1>3, <1>5, QuietMove DEF Points

\* The two ways out to user mode, unless the process was killed.
LEMMA ReturnSteps ==
  ASSUME IInv, Types', NEW c \in CPUs, NEW p \in Slots, Syscallret(c, p) \/ Return(c, p)
  PROVE  IInv'
<1>1. PICK x \in {"user", "exit"} : Goto(p, x) /\ SetIntr(c, x = "user")
  BY Zenon DEF Syscallret, Return, DieIfDead
<1>2. PICK a \in {"start", "sysret"} : Runs(c, p, a) /\ (a = "start" => ~First(p))
  BY Zenon DEF Syscallret, Return, First
<1>3. UNCHANGED <<state, kstack, cpus>> /\ UNCHANGED locks
  BY Zenon DEF Syscallret, Return, Quiet, table, ids
<1>4. OwnIntr(c) /\ (intr'[c] <=> x = "user")
  BY Zenon, <1>1, IntrBlocks DEF IInv
<1>5. OwnLock(PROCS, c) /\ OwnLock(lk, c) /\ PROCS' # c /\ lk' # c
  BY Zenon, <1>2, <1>3, NoLocks
<1>6. UNCHANGED <<frame, boot>> /\ frame[p] \in Open \cup {"none"} /\ ~First(p)
  BY <1>1, <1>2, RunsOn, RunsCalls DEF Goto
<1>7. Placed(c, p, x)'
  BY Zenon, <1>4, <1>5, <1>6 DEF Placed, First, Holding, Awaiting, Open, Waiting
<1> QED
  BY Zenon, <1>1, <1>2, <1>3, <1>4, <1>5, <1>7, QuietMove DEF Points

\* System calls and traps that go on in the kernel without a lock.
LEMMA CallMove ==
  ASSUME IInv, Types', NEW c \in CPUs, NEW p \in Slots, NEW a \in {"user", "wait"},
         NEW x \in {"sysret", "exit", "wlock"}, Runs(c, p, a),
         Goto(p, x), UNCHANGED cpus, state'[p] = state[p], kstack'[p] = kstack[p],
         \A q \in Slots : q # p => OtherThread(q),
         OwnLock(PROCS, c), OwnLock(lk, c), OwnIntr(c), PROCS' # c, lk' # c, ~intr'[c]
  PROVE  IInv'
<1>1. UNCHANGED <<frame, boot>> /\ frame[p] \in Open \cup {"none"} /\ ~First(p)
  BY RunsOn, RunsCalls DEF Goto
<1>2. Placed(c, p, x)'
  BY Zenon, <1>1 DEF Placed, First, Holding, Awaiting, Open, Waiting
<1>3. x \in Points /\ x \notin {"sched", "forkret", "unlock"} /\ a # "sched"
  BY Zenon DEF Points
<1>4. pc' = [pc EXCEPT ![p] = x] /\ UNCHANGED ret /\ (boot' => boot)
  BY Zenon DEF Goto
<1> QED
  BY Zenon, <1>2, <1>3, <1>4, MoveStep

\* exit(), wait(), the failures of fork() and wait(), and a fault in user mode.
LEMMA CallSteps ==
  ASSUME IInv, Types', NEW c \in CPUs, NEW p \in Slots,
         \/ ExitCall(c, p) \/ WaitCall(c, p) \/ ForkFails(c, p) \/ ForkAborts(c, p)
         \/ Fault(c, p) \/ WaitFails(c, p)
  PROVE  IInv'
<1>1. PICK x \in {"sysret", "exit", "wlock"} : Goto(p, x)
  BY Zenon DEF ExitCall, WaitCall, Enter, ForkFails, ForkAborts, Fault, WaitFails
<1>2. UNCHANGED <<state, kstack, cpus>>
  BY Zenon DEF ExitCall, WaitCall, Enter, ForkFails, ForkAborts, Fault, WaitFails, Quiet, table, ids
<1>3. CASE WaitFails(c, p)
  <2>1. OwnIntr(c) /\ (intr'[c] <=> saved[c]) /\ ~saved[c]
    BY Zenon, <1>3, IntrBlocks, RunsSaved DEF WaitFails, IInv
  <2> QED
    BY Zenon, <1>1, <1>2, <1>3, <2>1, Unlocks, QuietThreads, CallMove DEF WaitFails
<1>4. CASE ~WaitFails(c, p)
  <2>1. Runs(c, p, "user") /\ UNCHANGED locks /\ (SetIntr(c, FALSE) \/ Masked(c))
    BY Zenon, <1>4 DEF ExitCall, WaitCall, Enter, ForkFails, ForkAborts, Fault, Calls, WithProcs
  <2>2. OwnIntr(c) /\ ~intr'[c]
    BY Zenon, <2>1, IntrBlocks DEF IInv
  <2> QED
    BY Zenon, <1>1, <1>2, <2>1, <2>2, NoLocks, QuietThreads, CallMove
<1> QED
  BY Zenon, <1>3, <1>4

\* The loop that waits for ev, but for its end, and wait() up to its loop.
LEMMA WaitSteps ==
  ASSUME IInv, Types', NEW c \in CPUs, NEW p \in Slots, NEW a, NEW x \in Points,
         Runs(c, p, a), Goto(p, x), Quiet,
         \/ a = "wlock" /\ x = "wait" /\ LockProcs(c) /\ Masked(c)
         \/ a = "user" /\ x = "await" /\ LockLk(c) /\ Masked(c)
         \/ a = "start" /\ First(p) /\ x = "await" /\ LockLk(c) /\ PushIntr(c)
         \/ a = "relock" /\ x = "await" /\ LockLk(c) /\ PushIntr(c)
         \/ a = "await" /\ x = "sleep" /\ UNCHANGED <<locks, intrs>>
         \/ a = "sleep" /\ x = "release" /\ LockProcs(c) /\ UNCHANGED intrs
         \/ a = "release" /\ x = "sleeping" /\ lk' = NoCPU /\ UNCHANGED <<PROCS, ev, intrs>>
         \/ a = "awake" /\ x = "relock" /\ UnlockProcs /\ PopIntr(c)
  PROVE  IInv'
<1>1. UNCHANGED <<frame, boot, state, kstack, cpus>>
  BY Zenon DEF Goto, Quiet, table, ids
<1>2. /\ PROCS = c <=> a \in {"release", "awake"}
      /\ lk = c <=> a \in {"await", "sleep", "release"}
      /\ intr[c] => a \in {"start", "user", "relock"}
  BY Zenon, RunsLocks DEF Holding, Awaiting, Open
<1>3. OwnLock(PROCS, c) /\ OwnLock(lk, c) /\ (PROCS' = c <=> x \in Holding) /\ (lk' = c <=> x \in Awaiting)
  BY Zenon, <1>2, LockBlocks DEF Holding, Awaiting
<1>4. OwnIntr(c) /\ (intr'[c] <=> x = "relock" /\ saved[c])
  BY Zenon, <1>2, IntrBlocks DEF IInv
<1>5. /\ a \in {"user", "wlock"} => ~First(p)
      /\ a \in {"await", "sleep", "release", "awake"} => (saved[c] <=> First(p))
      /\ a = "relock" => (intr[c] <=> First(p)) 
      /\ a = "start" /\ First(p) => intr[c]
      /\ frame[p] \in Open \cup {"none"}
  BY RunsOn, RunsCalls, RunsSaved, RunsLocks DEF Waiting
<1>6. saved'[c] <=> First(p)
  BY Zenon, <1>5, IntrBlocks DEF IInv
<1>7. Placed(c, p, x)'
  BY Zenon, <1>1, <1>3, <1>4, <1>5, <1>6 DEF Placed, First, Open, Waiting, BootPoints
<1> QED
  BY Zenon, <1>1, <1>3, <1>4, <1>7, QuietMove

\* A step that also changes the interrupted point of p.
LEMMA FrameMove ==
  ASSUME IInv, Types', NEW c \in CPUs, NEW p \in Slots, NEW a, NEW x \in Points,
         Runs(c, p, a), a # "sched", x \notin {"sched", "forkret", "unlock"},
         pc' = [pc EXCEPT ![p] = x], UNCHANGED <<state, kstack, cpus, ret>>,
         \A q \in Slots : q # p => frame'[q] = frame[q] /\ (First(q)' <=> First(q)),
         boot' => boot,
         OwnLock(PROCS, c), OwnLock(lk, c), OwnIntr(c), Placed(c, p, x)'
  PROVE  IInv'
<1>1. \A q \in Slots : q # p => OtherThread(q)
  BY Zenon DEF IInv, Types, ThreadsOK, OtherThread, OwnIntr
<1> QED
  BY Zenon, <1>1, MoveStep

\* The end of the loop that waits for ev: it releases lk.
LEMMA AwaitDoneStep ==
  ASSUME IInv, Types', NEW c \in CPUs, NEW p \in Slots, AwaitDone(c, p)
  PROVE  IInv'
<1>1. PICK x \in {"start", "sysret"} : x = IF First(p) THEN "start" ELSE "sysret"
  OBVIOUS
<1>2. /\ Runs(c, p, "await") /\ UNCHANGED frame /\ (boot' <=> boot /\ p # INIT_PROC)
      /\ UNCHANGED <<state, kstack, cpus, ret>>
  BY Zenon DEF AwaitDone, Quiet, table, ids
<1>3. pc' = [pc EXCEPT ![p] = x]
  BY Zenon, <1>1 DEF AwaitDone, First
<1>4. lk = c /\ PROCS # c /\ (saved[c] <=> First(p)) /\ frame[p] \in Open \cup {"none"}
  BY <1>2, RunsOn, RunsLocks, RunsSaved DEF Holding, Awaiting, Waiting
<1>5. OwnLock(PROCS, c) /\ OwnLock(lk, c) /\ PROCS' # c /\ lk' # c
  BY Zenon, <1>4, LockBlocks DEF AwaitDone
<1>6. OwnIntr(c) /\ (intr'[c] <=> First(p))
  BY Zenon, <1>4, IntrBlocks DEF AwaitDone, IInv
<1>7. Placed(c, p, x)'
  BY Zenon, <1>1, <1>2, <1>4, <1>5, <1>6 DEF Placed, First, Holding, Awaiting, Open, Waiting, BootPoints
<1>8. x \in Points /\ (boot' => boot) /\ \A q \in Slots : q # p => (First(q)' <=> First(q))
  BY Zenon, <1>2 DEF Points, First
<1> QED
  BY Zenon, <1>2, <1>3, <1>5, <1>6, <1>7, <1>8, FrameMove

\* The timer: the interrupted point is one of those with interrupts on.
LEMMA TimerStep ==
  ASSUME IInv, Types', NEW c \in CPUs, NEW p \in Slots, Timer(c, p)
  PROVE  IInv'
<1>1. /\ Runs(c, p, pc[p]) /\ UNCHANGED boot /\ intr[c] /\ UNCHANGED locks
      /\ UNCHANGED <<state, kstack, cpus, ret>>
  BY Zenon DEF Timer, Quiet, table, ids
<1>2. pc \in [Slots -> Points] /\ frame \in [Slots -> Points]
  BY Zenon DEF IInv, Types, ThreadsOK
<1>3. PICK x \in {"exit", "yield"} : pc' = [pc EXCEPT ![p] = x] /\ (x = "exit" => pc[p] = "user")
  BY Zenon, <1>2 DEF Timer, DieIfDead
<1>4. frame' = [frame EXCEPT ![p] = IF x = "yield" THEN pc[p] ELSE @]
  BY Zenon, <1>2, <1>3 DEF Timer
<1>5. /\ pc[p] \in {"start", "user", "relock"} /\ (pc[p] = "relock" => First(p))
      /\ (pc[p] = "user" => ~First(p)) /\ frame[p] \in Open \cup {"none"}
  BY <1>1, RunsOn, RunsLocks, RunsCalls DEF Open
<1>6. OwnLock(PROCS, c) /\ OwnLock(lk, c) /\ PROCS' # c /\ lk' # c
  BY Zenon, <1>1, <1>5, NoLocks
<1>7. OwnIntr(c) /\ ~intr'[c]
  BY Zenon, IntrBlocks DEF Timer, IInv
<1>8. /\ frame'[p] \in Open \cup {"none"}
      /\ x = "yield" => frame'[p] # "none" /\ (frame'[p] = "relock" => First(p)) /\ (First(p) => frame'[p] # "user")
      /\ x = "exit" => ~First(p)
  BY Zenon, <1>2, <1>3, <1>4, <1>5 DEF Open
<1>9. Placed(c, p, x)'
  BY Zenon, <1>1, <1>6, <1>7, <1>8 DEF Placed, First, Holding, Awaiting, Open, Waiting, BootPoints
<1>10. \A q \in Slots : q # p => frame'[q] = frame[q] /\ (First(q)' <=> First(q))
  BY Zenon, <1>1, <1>2, <1>4 DEF First
<1>11. x \in Points /\ x \notin {"sched", "forkret", "unlock"} /\ pc[p] # "sched"
  BY Zenon, <1>5 DEF Points
<1> QED
  BY Zenon, <1>1, <1>3, <1>6, <1>7, <1>9, <1>10, <1>11, FrameMove

\* The return from yield_if_running to the interrupted point.
LEMMA YieldedStep ==
  ASSUME IInv, Types', NEW c \in CPUs, NEW p \in Slots, Yielded(c, p)
  PROVE  IInv'
<1>1. /\ Runs(c, p, "unlock") /\ UNCHANGED boot /\ UnlockProcs
      /\ UNCHANGED <<state, kstack, cpus, ret>> /\ frame' = [frame EXCEPT ![p] = "none"]
  BY Zenon DEF Yielded, Quiet, table, ids
<1>2. /\ frame[p] \in {"user", "start", "relock"} /\ (frame[p] = "relock" => First(p))
      /\ First(p) => frame[p] # "user"
  BY <1>1, RunsOn, RunsSaved DEF Open
<1>3. PICK x \in {"sysret", "start", "relock"} : x = IF frame[p] = "user" THEN "sysret" ELSE frame[p]
  BY Zenon, <1>2
<1>4. pc' = [pc EXCEPT ![p] = x]
  BY Zenon, <1>3 DEF Yielded
<1>5. OwnLock(PROCS, c) /\ OwnLock(lk, c) /\ PROCS' # c /\ lk' # c
  BY Zenon, <1>1, Unlocks
<1>6. OwnIntr(c) /\ (intr'[c] <=> frame[p] # "user")
  BY Zenon, IntrBlocks DEF Yielded, IInv
<1>7. (x = "relock" => First(p)) /\ (First(p) => x # "sysret") /\ (intr'[c] <=> x # "sysret")
  BY Zenon, <1>2, <1>3, <1>6
<1>8. frame'[p] = "none" /\ \A q \in Slots : q # p => frame'[q] = frame[q] /\ (First(q)' <=> First(q))
  BY Zenon, <1>1 DEF IInv, Types, ThreadsOK, First
<1>9. Placed(c, p, x)'
  BY Zenon, <1>1, <1>5, <1>7, <1>8 DEF Placed, First, Holding, Awaiting, Open, Waiting, BootPoints
<1>10. x \in Points /\ x \notin {"sched", "forkret", "unlock"}
  BY Zenon DEF Points
<1> QED
  BY Zenon, <1>1, <1>4, <1>5, <1>6, <1>8, <1>9, <1>10, FrameMove
-----------------------------------------------------------------------------
\* A zombie that wait() finds has switched off its stack: it would hold PROCS.
LEMMA ZombieIsOff ==
  ASSUME IInv, NEW c \in CPUs, NEW p \in Slots, Runs(c, p, "wait"), NEW q \in ZombieChildren(p)
  PROVE  q \in Slots /\ q # p /\ state[q] = "ZOMBIE" /\ pc[q] # "sched"
<1>1. q \in Slots /\ state[q] = "ZOMBIE"
  BY Zenon DEF ZombieChildren, Children
<1>2. proc[c] = p /\ PROCS = c /\ state[p] = "RUNNING"
  BY RunsOn, RunsLocks DEF Holding
<1>3. ASSUME pc[q] = "sched" PROVE FALSE
  <2>1. PICK d \in CPUs : proc[d] = q
    BY Zenon, <1>1, <1>3 DEF IInv, SlotInv, StateInv, OnCPU
  <2>2. At(d) = "sched"
    BY Zenon, <1>1, <1>3, <2>1, SlotFacts DEF At
  <2>3. PROCS = d
    BY Zenon, <2>2 DEF IInv, CpuInv, LocksInv, Holding
  <2> QED
    BY Zenon, <1>1, <1>2, <2>1, <2>3
<1> QED
  BY Zenon, <1>1, <1>2, <1>3

\* wait() that finds a zombie frees its slot.
LEMMA ReapStep ==
  ASSUME IInv, Types', NEW c \in CPUs, NEW p \in Slots, Reap(c, p)
  PROVE  IInv'
<1>1. /\ Runs(c, p, "wait") /\ UnlockProcs /\ PopIntr(c) /\ Goto(p, "sysret") /\ UNCHANGED cpus
  BY Zenon DEF Reap
<1>2. PICK z \in ZombieChildren(p) :
        state' = [state EXCEPT ![z] = "UNUSED"] /\ kstack' = [kstack EXCEPT ![z] = FALSE]
  BY Zenon DEF Reap, SetStates, Lowest
<1>3. z \in Slots /\ z # p /\ state[z] = "ZOMBIE" /\ pc[z] # "sched"
  BY Zenon, <1>1, ZombieIsOff
<1>4. OwnLock(PROCS, c) /\ OwnLock(lk, c) /\ PROCS' # c /\ lk' # c
  BY Zenon, <1>1, Unlocks
<1>5. OwnIntr(c) /\ ~intr'[c]
  BY Zenon, <1>1, IntrBlocks, RunsSaved DEF IInv
<1>6. /\ state'[p] = state[p] /\ kstack'[p] = kstack[p] /\ state'[z] = "UNUSED" /\ ~kstack'[z]
      /\ \A q \in Slots : q # z => state'[q] = state[q] /\ kstack'[q] = kstack[q]
  BY Zenon, <1>2, <1>3 DEF IInv, Types, TableOK
<1>7. \A q \in Slots : q # p => OtherThread(q)
  BY Zenon, <1>1, <1>3, <1>5, <1>6 DEF Goto, IInv, Types, ThreadsOK, OtherThread, OwnIntr, First
<1> QED
  BY Zenon, <1>1, <1>4, <1>5, <1>6, <1>7, CallMove

\* kill() makes a sleeping process runnable.
LEMMA KillStep ==
  ASSUME IInv, Types', NEW c \in CPUs, NEW p \in Slots, NEW k \in KillPids, Kill(c, p, k)
  PROVE  IInv'
<1>1. Runs(c, p, "user") /\ UNCHANGED <<locks, kstack, cpus>> /\ Goto(p, "sysret") /\ Masked(c)
  BY Zenon DEF Kill, Calls, WithProcs
<1>2. \A q \in Slots : state'[q] = state[q] \/ (state[q] = "SLEEPING" /\ state'[q] = "RUNNABLE")
  <2>1. ASSUME NEW q \in Slots,
               state' = [state EXCEPT ![q] = IF @ = "SLEEPING" THEN "RUNNABLE" ELSE @]
        PROVE  \A r \in Slots : state'[r] = state[r] \/ (state[r] = "SLEEPING" /\ state'[r] = "RUNNABLE")
    BY Zenon, <2>1 DEF IInv, Types, TableOK
  <2> QED
    BY Zenon, <2>1 DEF Kill, SetStates
<1>3. OwnLock(PROCS, c) /\ OwnLock(lk, c) /\ PROCS' # c /\ lk' # c
  BY Zenon, <1>1, NoLocks
<1>4. OwnIntr(c) /\ ~intr'[c] /\ state'[p] = state[p] /\ kstack'[p] = kstack[p]
  BY <1>1, <1>2, IntrBlocks, RunsOn DEF IInv
<1>5. \A q \in Slots : q # p => OtherThread(q)
  BY Zenon, <1>1, <1>2, <1>4 DEF Goto, IInv, Types, ThreadsOK, OtherThread, OwnIntr, First
<1> QED
  BY Zenon, <1>1, <1>3, <1>4, <1>5, CallMove
-----------------------------------------------------------------------------
\* The thread of p is about to switch off CPU c and to resume at r: what it
\* leaves behind belongs to r.
Left(c, p, r) ==
  /\ PROCS = c /\ lk # c /\ ~intr[c]
  /\ state[p] \in {"RUNNABLE", "SLEEPING", "ZOMBIE"} /\ (state[p] # "ZOMBIE" => r # "none")
  /\ r = "unlock" =>
       frame[p] # "none" /\ (frame[p] = "relock" => First(p)) /\ (First(p) => frame[p] # "user")
  /\ First(p) => r \in BootPoints /\ state[p] # "ZOMBIE"
  /\ r = "awake" => (saved[c] <=> First(p))
  /\ r = "wait" => ~saved[c]

\* A thread that calls sched() with what belongs to its return keeps the
\* invariant.
LEMMA LeaveStep ==
  ASSUME IInv, Types', NEW c \in CPUs, NEW p \in Slots, NEW a, NEW r \in {"none", "wait", "unlock", "awake"},
         Runs(c, p, a), a # "sched", UNCHANGED cpus, UNCHANGED <<kstack, frame, boot>>,
         OwnLock(PROCS, c), OwnLock(lk, c), OwnIntr(c),
         pc' = [pc EXCEPT ![p] = "sched"], ret' = [ret EXCEPT ![p] = r],
         \A q \in Slots : q # p =>
           state'[q] = state[q] \/ (state[q] = "SLEEPING" /\ state'[q] = "RUNNABLE"),
         Left(c, p, r)'
  PROVE  IInv'
<1>1. /\ pc'[p] = "sched" /\ ret'[p] = r
      /\ \A q \in Slots : q # p => pc'[q] = pc[q] /\ ret'[q] = ret[q]
  BY Zenon DEF IInv, Types, ThreadsOK
<1>2. \A q \in Slots : q # p => OtherThread(q)
  BY Zenon, <1>1 DEF OtherThread, OwnIntr, First
<1>3. \A d \in CPUs \ {c} : OtherCPU(d)
  BY Zenon DEF OtherCPU, OwnIntr, cpus
<1>4. /\ proc[c] = p /\ proc'[c] = p /\ p # NoProc /\ spc'[c] = "switched" /\ hpc'[c] = "none"
      /\ state[p] = "RUNNING" /\ kstack'[p] /\ frame'[p] \in Open \cup {"none"}
  BY RunsOn, SlotFacts DEF cpus
<1>5. ~Early'
  BY <1>1, <1>4, SlotFacts DEF Early, IInv, SlotInv, StateInv
<1>6. Local(c)
  BY Zenon, <1>2, <1>3, <1>4, <1>5 DEF Local, cpus
<1>7. At(c)' = "sched" /\ Resume(p)' = r /\ OnCPU(p)'
  BY Zenon, <1>1, <1>4 DEF At, Resume, OnCPU
<1>8. LocksInv(c)'
  BY Zenon, <1>4, <1>7 DEF LocksInv, Left, Holding, Awaiting
<1>9. FlagInv(c)'
  BY Zenon, <1>4, <1>7 DEF FlagInv, Left
<1>10. SavedInv(c)'
  BY Zenon, <1>4, <1>5, <1>7 DEF SavedInv, Left, Waiting
<1>11. StateInv(p)'
  BY Zenon, <1>1, <1>4, <1>5, <1>7 DEF StateInv, Left
<1>12. ThreadInv(p)'
  <2>1. Yields(p)' <=> r = "unlock"
    BY Zenon, <1>1, <1>7 DEF Yields
  <2> QED
    BY Zenon, <1>1, <1>4, <1>7, <2>1 DEF ThreadInv, Left
<1> QED
  BY Zenon, <1>4, <1>6, <1>8, <1>9, <1>10, <1>11, <1>12, LocalStep DEF CpuInv, SlotInv

\* What the callers of sched() set before the call.
LEMMA LeaveFacts ==
  ASSUME Types, NEW p \in Slots, NEW st, NEW ch, NEW r, Leave(p, st, ch, r)
  PROVE  /\ pc' = [pc EXCEPT ![p] = "sched"] /\ ret' = [ret EXCEPT ![p] = r]
         /\ UNCHANGED cpus /\ UNCHANGED <<kstack, frame, boot>>
         /\ state'[p] = st
         /\ \A q \in Slots : q # p =>
              state'[q] = state[q] \/ (state[q] = "SLEEPING" /\ state'[q] = "RUNNABLE")
  BY Zenon DEF Leave, ids, Types, TableOK

\* The sleeps of wait() and of the loop that waits for ev.
LEMMA SleepSteps ==
  ASSUME IInv, Types', NEW c \in CPUs, NEW p \in Slots, WaitSleeps(c, p) \/ SleepState(c, p)
  PROVE  IInv'
<1>1. PICK a \in {"wait", "sleeping"}, ch \in 0..Event, r \in {"wait", "awake"} :
        Runs(c, p, a) /\ Leave(p, "SLEEPING", ch, r) /\ (r = "wait" <=> a = "wait")
  BY Zenon, SlotFacts DEF WaitSleeps, SleepState
<1>2. UNCHANGED <<PROCS, lk, intr, saved>> /\ OwnLock(PROCS, c) /\ OwnLock(lk, c) /\ OwnIntr(c)
  BY Zenon DEF WaitSleeps, SleepState, locks, intrs, OwnLock, OwnIntr
<1>3. PROCS = c /\ lk # c /\ ~intr[c]
  BY Zenon, <1>1, RunsLocks DEF Holding, Awaiting, Open
<1>4. (a = "wait" => ~First(p) /\ ~saved[c]) /\ (a = "sleeping" => (saved[c] <=> First(p)))
  BY Zenon, <1>1, RunsCalls, RunsSaved DEF Waiting
<1>5. UNCHANGED boot /\ state'[p] = "SLEEPING"
  BY Zenon, <1>1, LeaveFacts DEF IInv
<1>6. Left(c, p, r)'
  BY Zenon, <1>1, <1>2, <1>3, <1>4, <1>5 DEF Left, First, BootPoints, Waiting
<1>7. a # "sched" /\ r \in {"none", "wait", "unlock", "awake"} /\ Runs(c, p, a)
  BY Zenon, <1>1
<1>8. /\ pc' = [pc EXCEPT ![p] = "sched"] /\ ret' = [ret EXCEPT ![p] = r]
      /\ UNCHANGED cpus /\ UNCHANGED <<kstack, frame, boot>>
      /\ \A q \in Slots : q # p =>
           state'[q] = state[q] \/ (state[q] = "SLEEPING" /\ state'[q] = "RUNNABLE")
  BY Zenon, <1>1, LeaveFacts DEF IInv
<1> QED
  BY Zenon, <1>2, <1>6, <1>7, <1>8, LeaveStep

\* yield(), after a timer interrupt.
LEMMA YieldStep ==
  ASSUME IInv, Types', NEW c \in CPUs, NEW p \in Slots, Yield(c, p)
  PROVE  IInv'
<1>1. /\ Runs(c, p, "yield") /\ Leave(p, "RUNNABLE", NoProc, "unlock") /\ LockProcs(c) /\ Masked(c)
      /\ Types
  BY Zenon DEF Yield, IInv
<1>2. /\ lk # c /\ frame[p] # "none"
      /\ (frame[p] = "relock" => First(p)) /\ (First(p) => frame[p] # "user")
  BY <1>1, RunsLocks, RunsSaved DEF Awaiting
<1>3. OwnLock(PROCS, c) /\ OwnLock(lk, c) /\ PROCS' = c /\ lk' = lk
  BY Zenon, <1>1, LockBlocks
<1>4. OwnIntr(c) /\ ~intr'[c] /\ ~saved'[c]
  BY Zenon, <1>1, IntrBlocks
<1>5. UNCHANGED <<boot, frame>> /\ state'[p] = "RUNNABLE"
  BY Zenon, <1>1, LeaveFacts
<1>6. Left(c, p, "unlock")'
  BY Zenon, <1>2, <1>3, <1>4, <1>5 DEF Left, First, BootPoints
<1>7. "yield" # "sched" /\ "unlock" \in {"none", "wait", "unlock", "awake"}
  OBVIOUS
<1> QED
  BY Zenon, <1>1, <1>3, <1>4, <1>6, <1>7, LeaveFacts, LeaveStep

\* exit(): the process is a zombie, and whoever waits for it is runnable.
LEMMA ExitStep ==
  ASSUME IInv, Types', NEW c \in CPUs, NEW p \in Slots, Exit(c, p)
  PROVE  IInv'
<1>1. Runs(c, p, "exit") /\ LockProcs(c) /\ Masked(c) /\ Goto(p, "sched") /\ UNCHANGED <<kstack, cpus>>
  BY Zenon DEF Exit
<1>2. lk # c /\ ~First(p) /\ pc[p] = "exit"
  BY <1>1, RunsOn, RunsLocks, RunsCalls DEF Awaiting
<1>3. ret[p] = "none" /\ ret \in [Slots -> Points]
  BY Zenon, <1>2 DEF IInv, SlotInv, ThreadInv, Types, ThreadsOK
<1>4. OwnLock(PROCS, c) /\ OwnLock(lk, c) /\ PROCS' = c /\ lk' = lk
  BY Zenon, <1>1, LockBlocks
<1>5. OwnIntr(c) /\ ~intr'[c]
  BY Zenon, <1>1, IntrBlocks DEF IInv
<1>6. state' = [Wakeup1(ExitChannels(p)) EXCEPT ![p] = "ZOMBIE"]
  BY Zenon DEF Exit, SetStates
<1>7. /\ state'[p] = "ZOMBIE"
      /\ \A q \in Slots : q # p => state'[q] = state[q] \/ (state[q] = "SLEEPING" /\ state'[q] = "RUNNABLE")
  BY Zenon, <1>6 DEF Wakeup1
<1>8. ret' = [ret EXCEPT ![p] = "none"] /\ pc' = [pc EXCEPT ![p] = "sched"] /\ UNCHANGED <<frame, boot>>
  BY Zenon, <1>1, <1>3 DEF Goto
<1>9. Left(c, p, "none")'
  BY Zenon, <1>2, <1>4, <1>5, <1>7, <1>8 DEF Left, First
<1> QED
  BY Zenon, <1>1, <1>4, <1>5, <1>7, <1>8, <1>9, LeaveStep
-----------------------------------------------------------------------------
(* The switch of contexts, fork() and the device handler.                  *)

\* The end of the handler: it returns to the thread or to the scheduler.
LEMMA HandlerSteps ==
  ASSUME IInv, Types', NEW c \in CPUs, HandlerWakeup(c)
  PROVE  IInv'
<1>0. /\ Types /\ hpc \in [CPUs -> {"none", "wakeup"}] /\ proc[c] \in Slots \cup {NoProc}
      /\ pc \in [Slots -> Points]
  BY Zenon DEF IInv, Types, CpusOK, ThreadsOK
<1>1. UNCHANGED <<proc, kstack, PROCS, spc, ret, frame, boot>> /\ lk' = NoCPU
  BY Zenon DEF HandlerWakeup, Goto, threads, ids
<1>2. LocksInv(c) /\ FlagInv(c) /\ SavedInv(c)
  BY Zenon DEF IInv, CpuInv
<1>3. hpc[c] = "wakeup" /\ hpc'[c] = "none" /\ \A d \in CPUs \ {c} : hpc'[d] = hpc[d]
  BY Zenon, <1>0 DEF HandlerWakeup
<1>4. /\ spc[c] = "loop" \/ At(c) \in Open
      /\ At(c) = "relock" => First(proc[c])
      /\ lk = c
  BY Zenon, <1>2, <1>3 DEF FlagInv, LocksInv
<1>5. \A q \in Slots : state'[q] = state[q] \/ (state[q] = "SLEEPING" /\ state'[q] = "RUNNABLE")
  BY Zenon DEF HandlerWakeup, SetStates, Wakeup1
<1>6. OwnLock(PROCS, c) /\ OwnLock(lk, c) /\ lk' # c
  BY Zenon, <1>1, <1>4, ProcAssumption DEF OwnLock
<1>7. proc[c] # NoProc =>
        /\ proc[c] \in Slots /\ spc[c] = "switched" /\ pc[proc[c]] \in Open
        /\ state[proc[c]] = "RUNNING" /\ state'[proc[c]] = "RUNNING" /\ kstack'[proc[c]]
  <2>1. ASSUME proc[c] # NoProc PROVE proc[c] \in Slots /\ spc[c] = "switched" /\ pc[proc[c]] \in Open
    BY Zenon, <1>0, <1>2, <1>4, <2>1 DEF LocksInv, At
  <2>2. ASSUME proc[c] # NoProc PROVE state[proc[c]] = "RUNNING" /\ kstack[proc[c]]
    BY Zenon, <2>1, <2>2 DEF IInv, SlotInv, StateInv, OnCPU, Open
  <2> QED
    BY Zenon, <1>1, <1>5, <2>1, <2>2
<1>8. CASE proc[c] # NoProc /\ pc[proc[c]] = "user"
  <2>1. PICK p \in Slots : p = proc[c]
    BY Zenon, <1>7, <1>8
  <2>2. Goto(p, "sysret") /\ SetIntr(c, FALSE)
    BY Zenon, <1>8, <2>1 DEF HandlerWakeup
  <2>3. OwnIntr(c) /\ ~intr'[c]
    BY Zenon, <1>0, <2>2, IntrBlocks
  <2>4. pc'[p] = "sysret" /\ \A q \in Slots : q # p => pc'[q] = pc[q]
    BY Zenon, <1>0, <2>2 DEF Goto
  <2>5. Local(c)
    <3>1. \A q \in Slots : q # p => OtherThread(q)
      BY Zenon, <1>1, <1>5, <2>3, <2>4 DEF OtherThread, OwnIntr, First
    <3>2. Early' => Early
      BY Zenon, <1>1, <2>4, SlotFacts DEF Early
    <3>3. \A d \in CPUs \ {c} : OtherCPU(d)
      BY Zenon, <1>1, <1>3, <2>3 DEF OtherCPU, OwnIntr
    <3> QED
      BY Zenon, <1>1, <1>6, <2>1, <3>1, <3>2, <3>3 DEF Local
  <2>6. /\ frame[p] \in Open \cup {"none"} /\ ~First(p)
    BY Zenon, <1>8, <2>1 DEF IInv, SlotInv, ThreadInv, Resume, BootPoints, Waiting
  <2>7. PROCS' # c
    BY Zenon, <1>1, <1>2, <1>7, <1>8 DEF LocksInv, At, Holding
  <2>9. ~Early'
    BY Zenon, <1>7, <1>8, <2>1, <2>5 DEF Local, Early, IInv, SlotInv, StateInv
  <2>8. Placed(c, p, "sysret")'
    BY Zenon, <1>1, <1>6, <2>3, <2>6, <2>7 DEF Placed, First, Holding, Awaiting, Open, Waiting
  <2> QED
    BY Zenon, <1>1, <1>3, <1>7, <1>8, <2>1, <2>4, <2>5, <2>8, <2>9, Moved, LocalStep
<1>9. CASE ~(proc[c] # NoProc /\ pc[proc[c]] = "user")
  <2>1. UNCHANGED threads /\ SetIntr(c, TRUE)
    BY Zenon, <1>9 DEF HandlerWakeup
  <2>2. OwnIntr(c) /\ intr'[c] /\ (saved'[c] <=> saved[c])
    BY Zenon, <1>0, <2>1, IntrBlocks
  <2>3. At(c)' = At(c) /\ (First(proc[c])' <=> First(proc[c])) /\ (Early' <=> Early)
    BY <1>1, <2>1 DEF At, First, threads, Early
  <2>4. LocksInv(c)'
    <3>1. At(c) \notin Awaiting
      BY Zenon, <1>2, <1>4 DEF LocksInv, At, Open, Awaiting
    <3> QED
      BY Zenon, <1>1, <1>2, <1>3, <1>6, <2>3, <3>1 DEF LocksInv
  <2>5. FlagInv(c)'
    BY Zenon, <1>1, <1>3, <1>4, <2>2, <2>3 DEF FlagInv
  <2>6. SavedInv(c)'
    BY Zenon, <1>1, <1>2, <2>1, <2>2, <2>3 DEF SavedInv, Resume, threads
  <2>7. Local(c)
    <3>1. \A q \in Slots : OtherThread(q)
      BY <1>1, <1>5, <2>1, <2>2 DEF OtherThread, OwnIntr, First, threads
    <3>2. \A d \in CPUs \ {c} : OtherCPU(d)
      BY Zenon, <1>1, <1>3, <2>2 DEF OtherCPU, OwnIntr
    <3> QED
      BY Zenon, <1>1, <1>6, <2>3, <3>1, <3>2 DEF Local
  <2>8. ASSUME NEW p \in Slots, p = proc[c] PROVE SlotInv(p)'
    <3>1. /\ (Resume(p)' = Resume(p)) /\ (Yields(p)' <=> Yields(p)) /\ (First(p)' <=> First(p))
          /\ (OnCPU(p)' <=> OnCPU(p)) /\ UNCHANGED <<pc, ret, frame>>
      BY <1>1, <2>1 DEF threads, Resume, Yields, First, OnCPU
    <3>2. StateInv(p) /\ ThreadInv(p) /\ state'[p] = state[p]
      BY Zenon, <1>7, <2>8, SlotFacts DEF IInv, SlotInv
    <3>3. StateInv(p)'
      BY Zenon, <1>1, <2>3, <3>1, <3>2 DEF StateInv
    <3>4. ThreadInv(p)'
      BY Zenon, <3>1, <3>2, <2>2 DEF ThreadInv, OwnIntr
    <3> QED
      BY Zenon, <3>3, <3>4 DEF SlotInv
  <2> QED
    BY Zenon, <2>4, <2>5, <2>6, <2>7, <2>8, LocalStep DEF CpuInv
<1> QED
  BY Zenon, <1>8, <1>9
-----------------------------------------------------------------------------
\* sched(): its asserts hold, and the scheduler context takes over the CPU.
LEMMA SchedStep ==
  ASSUME IInv, Types', NEW c \in CPUs, NEW p \in Slots, Sched(c, p)
  PROVE  IInv' /\ SchedOK(c, p)
<1>0. /\ pc \in [Slots -> Points] /\ ret \in [Slots -> Points] /\ isave \in [Slots -> BOOLEAN]
      /\ proc \in [CPUs -> Slots \cup {NoProc}] /\ spc \in [CPUs -> {"loop", "scan", "switched"}]
  BY Zenon DEF IInv, Types, ThreadsOK, IntrsOK, CpusOK
<1>1. Runs(c, p, "sched")
  BY Zenon DEF Sched
<1>2. /\ proc[c] = p /\ pc[p] = "sched" /\ hpc[c] = "none" /\ OnCPU(p) /\ PROCS = c /\ lk # c /\ ~intr[c]
      /\ frame[p] \in Open \cup {"none"}
  BY <1>1, RunsOn, RunsLocks DEF Holding, Awaiting, Open
<1>3. StateInv(p) /\ ThreadInv(p) /\ SavedInv(c)
  BY Zenon DEF IInv, SlotInv, CpuInv
<1>4. SchedOK(c, p)
  BY Zenon, <1>2, <1>3 DEF SchedOK, StateInv
<1>5. /\ pc'[p] = ret[p] /\ ret'[p] = "none" /\ (isave'[p] <=> saved[c])
      /\ \A q \in Slots : q # p => pc'[q] = pc[q] /\ ret'[q] = ret[q] /\ isave'[q] = isave[q]
  BY Zenon, <1>0 DEF Sched
<1>6. /\ proc'[c] = NoProc /\ spc'[c] = "scan"
      /\ \A d \in CPUs : d # c => proc'[d] = proc[d] /\ spc'[d] = spc[d]
  BY Zenon, <1>0 DEF Sched
<1>7. UNCHANGED <<state, kstack, PROCS, lk, hpc, frame, boot, intr, saved>>
  BY Zenon DEF Sched, table, ids, locks
<1>8. \A d \in CPUs : d # c => proc[d] # p
  BY Zenon, <1>2, SlotFacts DEF IInv, OneCPU
<1>9. ~Early'
  BY Zenon, <1>2, <1>3, <1>5, <1>7, SlotFacts DEF Early, StateInv, ThreadInv
<1>10. \A q \in Slots : q # p => OtherThread(q) /\ (OnCPU(q)' <=> OnCPU(q))
  BY <1>2, <1>5, <1>6, <1>7, SlotFacts DEF OtherThread, First, OnCPU
<1>11. ASSUME NEW q \in Slots, q # p PROVE SlotInv(q)'
  BY Zenon, <1>9, <1>10, <1>11, OtherSlots
<1>12. SlotInv(p)'
  <2>1. ~OnCPU(p)' /\ Resume(p)' = ret[p] /\ Resume(p) = ret[p] /\ (First(p)' <=> First(p))
    BY Zenon, <1>2, <1>3, <1>5, <1>6, <1>7, <1>8, SlotFacts DEF OnCPU, Resume, First, ThreadInv
  <2>2. (Yields(p)' <=> Yields(p)) /\ pc'[p] # "sched"
    BY Zenon, <1>2, <1>3, <1>5, <2>1 DEF Yields, ThreadInv
  <2>3. StateInv(p)'
    BY Zenon, <1>2, <1>3, <1>7, <1>9, <2>1, <2>2 DEF StateInv
  <2>4. (ret[p] = "awake" => (saved[c] <=> First(p))) /\ (ret[p] = "wait" => ~saved[c])
    BY Zenon, <1>2, <1>3, <2>1, SlotFacts DEF SavedInv, Waiting
  <2>5. ThreadInv(p)'
    BY Zenon, <1>3, <1>5, <1>7, <2>1, <2>2, <2>4 DEF ThreadInv
  <2> QED
    BY Zenon, <2>3, <2>5 DEF SlotInv
<1>13. CpuInv(c)'
  <2>1. At(c)' = "none"
    BY Zenon, <1>6 DEF At
  <2> QED
    BY Zenon, <1>2, <1>6, <1>7, <1>9, <2>1 DEF CpuInv, LocksInv, FlagInv, SavedInv, Awaiting, Open
<1>14. ASSUME NEW d \in CPUs \ {c} PROVE CpuInv(d)'
  <2>1. OtherCPU(d) /\ OwnLock(PROCS, c) /\ OwnLock(lk, c)
    BY Zenon, <1>6, <1>7 DEF OtherCPU, OwnLock
  <2>2. proc[d] # NoProc => OtherThread(proc[d])
    BY Zenon, <1>0, <1>8, <1>10
  <2> QED
    BY Zenon, <1>6, <1>9, <2>1, <2>2, OtherCPUs
<1>15. OneCPU'
  BY Zenon, <1>6 DEF IInv, OneCPU
<1>16. (\A d \in CPUs : CpuInv(d)') /\ \A q \in Slots : SlotInv(q)'
  BY Zenon, <1>11, <1>12, <1>13, <1>14
<1> QED
  BY Zenon, <1>4, <1>15, <1>16 DEF IInv

\* The scheduler switches to a process that is on no CPU.
LEMMA DispatchStep ==
  ASSUME IInv, Types', NEW c \in CPUs, Dispatch(c)
  PROVE  IInv'
<1>0. /\ state \in [Slots -> States] /\ isave \in [Slots -> BOOLEAN] /\ saved \in [CPUs -> BOOLEAN]
      /\ proc \in [CPUs -> Slots \cup {NoProc}] /\ spc \in [CPUs -> {"loop", "scan", "switched"}]
      /\ hpc[c] \in {"none", "wakeup"}
  BY Zenon DEF IInv, Types, TableOK, IntrsOK, CpusOK
<1>1. PICK p \in Slots :
        /\ state[p] = "RUNNABLE"
        /\ state' = [state EXCEPT ![p] = "RUNNING"] /\ proc' = [proc EXCEPT ![c] = p]
        /\ saved' = [saved EXCEPT ![c] = RestoredStatus(c, p)] /\ isave' = [isave EXCEPT ![p] = FALSE]
  BY Zenon DEF Dispatch, Dispatched, SetStates, Lowest, Runnable
<1>2. spc' = [spc EXCEPT ![c] = "switched"] /\ spc[c] = "scan"
  BY Zenon DEF Dispatch
<1>3. UNCHANGED <<kstack, PROCS, lk, hpc, pc, ret, frame, boot, intr>>
  BY Zenon DEF Dispatch, ids, locks, threads
<1>4. /\ proc'[c] = p /\ spc'[c] = "switched"
      /\ \A d \in CPUs : d # c => proc'[d] = proc[d] /\ spc'[d] = spc[d] /\ saved'[d] = saved[d]
      /\ state'[p] = "RUNNING" /\ \A q \in Slots : q # p => state'[q] = state[q] /\ isave'[q] = isave[q]
  BY Zenon, <1>0, <1>1, <1>2
<1>5. saved'[c] <=> IF pc[p] = "forkret" THEN saved[c] ELSE isave[p]
  BY Zenon, <1>0, <1>1 DEF RestoredStatus
<1>6. LocksInv(c) /\ FlagInv(c) /\ SavedInv(c) /\ StateInv(p) /\ ThreadInv(p)
  BY Zenon DEF IInv, CpuInv, SlotInv
<1>7. proc[c] = NoProc /\ PROCS = c /\ hpc[c] = "none" /\ lk # c /\ ~intr[c]
  BY Zenon, <1>0, <1>2, <1>6 DEF LocksInv, FlagInv, At, Open, Awaiting
<1>8. ~OnCPU(p)
  <2>1. ASSUME NEW d \in CPUs, proc[d] = p PROVE FALSE
    <3>1. pc[p] = "sched"
      BY Zenon, <1>1, <1>6, <2>1 DEF StateInv, OnCPU
    <3>2. PROCS = d
      BY Zenon, <2>1, <3>1, SlotFacts DEF IInv, CpuInv, LocksInv, At, Holding
    <3> QED
      BY Zenon, <1>7, <2>1, <3>2, SlotFacts
  <2> QED
    BY Zenon, <2>1 DEF OnCPU
<1>9. pc[p] \in {"forkret", "wait", "unlock", "awake"} /\ Resume(p) = pc[p]
  BY Zenon, <1>1, <1>6, <1>8 DEF StateInv, Resume
<1>10. /\ (Early' <=> Early) /\ \A q \in Slots : (Resume(q)' = Resume(q)) /\ (First(q)' <=> First(q))
  BY Zenon, <1>3 DEF Early, Resume, First
<1>11. \A q \in Slots : q # p => OtherThread(q) /\ (OnCPU(q)' <=> OnCPU(q))
  BY <1>3, <1>4, <1>7, <1>10, SlotFacts DEF OtherThread, OnCPU
<1>12. ASSUME NEW q \in Slots, q # p PROVE SlotInv(q)'
  BY Zenon, <1>10, <1>11, <1>12, OtherSlots
<1>13. StateInv(p)'
  <2>1. OnCPU(p)' /\ pc'[p] # "sched" /\ kstack'[p]
    BY Zenon, <1>1, <1>3, <1>4, <1>6, <1>9 DEF OnCPU, StateInv
  <2>2. Early => p = INIT_PROC
    BY Zenon, <1>1, <1>6 DEF StateInv
  <2> QED
    BY Zenon, <1>4, <1>10, <2>1, <2>2 DEF StateInv
<1>14. ThreadInv(p)'
  <2>1. Yields(p)' <=> Yields(p)
    BY Zenon, <1>3, <1>10 DEF Yields
  <2> QED
    BY Zenon, <1>3, <1>4, <1>6, <1>10, <2>1 DEF ThreadInv
<1>15. CpuInv(c)'
  <2>1. At(c)' = pc[p] /\ p # NoProc
    BY Zenon, <1>3, <1>4, SlotFacts DEF At
  <2>2. LocksInv(c)'
    BY Zenon, <1>3, <1>4, <1>7, <1>9, <2>1 DEF LocksInv, Holding, Awaiting
  <2>3. FlagInv(c)'
    BY Zenon, <1>3, <1>4, <1>7, <1>9, <2>1 DEF FlagInv
  <2>4. (pc[p] = "awake" => (saved'[c] <=> First(p))) /\ (pc[p] = "wait" => ~saved'[c])
    BY Zenon, <1>1, <1>5, <1>6, <1>8 DEF ThreadInv
  <2>5. Early /\ p = INIT_PROC => saved'[c]
    BY Zenon, <1>2, <1>5, <1>6 DEF SavedInv, Early
  <2>6. SavedInv(c)'
    BY Zenon, <1>4, <1>9, <1>10, <2>1, <2>4, <2>5 DEF SavedInv, Waiting
  <2> QED
    BY Zenon, <2>2, <2>3, <2>6 DEF CpuInv
<1>16. ASSUME NEW d \in CPUs \ {c} PROVE CpuInv(d)'
  <2>1. OtherCPU(d) /\ OwnLock(PROCS, c) /\ OwnLock(lk, c)
    BY Zenon, <1>3, <1>4 DEF OtherCPU, OwnLock
  <2>2. proc[d] # NoProc => OtherThread(proc[d])
    BY Zenon, <1>0, <1>8, <1>11 DEF OnCPU
  <2> QED
    BY Zenon, <1>4, <1>10, <2>1, <2>2, OtherCPUs
<1>17. OneCPU'
  BY <1>4, <1>8 DEF IInv, OneCPU, OnCPU
<1>18. (\A d \in CPUs : CpuInv(d)') /\ \A q \in Slots : SlotInv(q)'
  BY Zenon, <1>12, <1>13, <1>14, <1>15, <1>16 DEF SlotInv
<1> QED
  BY Zenon, <1>17, <1>18 DEF IInv

\* fork(): the child's slot was on no CPU, and its thread starts at forkret.
LEMMA ForkStep ==
  ASSUME IInv, Types', NEW c \in CPUs, NEW p \in Slots, Fork(c, p)
  PROVE  IInv'
<1>0. /\ state \in [Slots -> States] /\ kstack \in [Slots -> BOOLEAN]
      /\ pc \in [Slots -> Points] /\ proc \in [CPUs -> Slots \cup {NoProc}] /\ Types
  BY Zenon DEF IInv, Types, TableOK, ThreadsOK, CpusOK
<1>3. PICK np \in Slots :
        /\ state[np] = "UNUSED"
        /\ state' = [state EXCEPT ![np] = "RUNNABLE"] /\ kstack' = [kstack EXCEPT ![np] = TRUE]
        /\ pc' = [pc EXCEPT ![np] = "forkret", ![p] = "sysret"]
  BY Zenon DEF Fork, Lowest, Unused
<1>1. state[np] = "UNUSED"
  BY Zenon, <1>3
<1>2. Runs(c, p, "user") /\ UNCHANGED locks /\ Masked(c) /\ UNCHANGED <<cpus, ret, frame, boot>>
  BY Zenon DEF Fork, Calls, WithProcs
<1>4. /\ proc[c] = p /\ hpc[c] = "none" /\ OnCPU(p) /\ spc[c] = "switched" /\ PROCS # c /\ lk # c
      /\ state[p] = "RUNNING" /\ ~First(p) /\ frame[p] \in Open \cup {"none"} /\ kstack[p]
  BY <1>2, RunsOn, RunsLocks, RunsCalls DEF Holding, Awaiting
<1>5. np # p
  BY Zenon, <1>1, <1>4
<1>6. /\ pc'[np] = "forkret" /\ pc'[p] = "sysret" /\ \A q \in Slots : q \notin {p, np} => pc'[q] = pc[q]
      /\ state'[np] = "RUNNABLE" /\ \A q \in Slots : q # np => state'[q] = state[q]
      /\ kstack'[np] /\ \A q \in Slots : q # np => kstack'[q] = kstack[q]
  BY Zenon, <1>0, <1>3, <1>5
<1>7. OwnIntr(c) /\ ~intr'[c]
  BY Zenon, <1>0, <1>2, IntrBlocks
<1>8. StateInv(np) /\ ThreadInv(np) /\ StateInv(p)
  BY Zenon DEF IInv, SlotInv
<1>9. ~OnCPU(np) /\ pc[np] # "sched" /\ ret[np] = "none" /\ frame[np] \in Open \cup {"none"} /\ ~First(np)
  BY Zenon, <1>1, <1>8 DEF StateInv, ThreadInv
<1>10. ~Early'
  <2>1. ~Early
    BY Zenon, <1>2, <1>4, <1>8 DEF Early, StateInv, Runs
  <2> QED
    BY Zenon, <1>2, <1>5, <1>6, <1>9, <2>1, SlotFacts DEF Early, First
<1>11. \A q \in Slots : q \notin {p, np} => OtherThread(q)
  BY Zenon, <1>2, <1>6, <1>7 DEF OtherThread, OwnIntr, First
<1>12. \A q \in Slots : OnCPU(q)' <=> OnCPU(q)
  BY Zenon, <1>2 DEF OnCPU, cpus
<1>13. CpuInv(c)' /\ SlotInv(p)'
  <2>1. Placed(c, p, "sysret")'
    BY Zenon, <1>2, <1>4, <1>7 DEF Placed, First, locks, Holding, Awaiting, Open, Waiting
  <2>2. UNCHANGED proc /\ spc'[c] = spc[c] /\ hpc'[c] = "none" /\ ret'[p] = ret[p]
    BY Zenon, <1>2, <1>4 DEF cpus
  <2>3. state'[p] = "RUNNING" /\ kstack'[p]
    BY Zenon, <1>4, <1>5, <1>6
  <2> QED
    BY Zenon, <1>4, <1>6, <1>10, <2>1, <2>2, <2>3, Moved
<1>14. StateInv(np)'
  BY Zenon, <1>6, <1>9, <1>10, <1>12 DEF StateInv, Resume
<1>15. ThreadInv(np)'
  BY Zenon, <1>2, <1>6, <1>9, <1>12 DEF ThreadInv, Resume, Yields, First
<1>16. ASSUME NEW q \in Slots, q \notin {p, np} PROVE SlotInv(q)'
  BY Zenon, <1>10, <1>11, <1>12, <1>16, OtherSlots
<1>17. ASSUME NEW d \in CPUs \ {c} PROVE CpuInv(d)'
  <2>1. OtherCPU(d) /\ OwnLock(PROCS, c) /\ OwnLock(lk, c) /\ proc'[d] = proc[d]
    BY Zenon, <1>2, <1>7 DEF OtherCPU, OwnLock, OwnIntr, cpus, locks
  <2>2. proc[d] # NoProc => proc[d] \in Slots /\ proc[d] \notin {p, np}
    BY Zenon, <1>0, <1>4, <1>9 DEF IInv, OneCPU, OnCPU
  <2> QED
    BY Zenon, <1>10, <1>11, <2>1, <2>2, OtherCPUs
<1>18. OneCPU'
  BY Zenon, <1>2 DEF IInv, OneCPU, cpus
<1>19. (\A d \in CPUs : CpuInv(d)') /\ \A q \in Slots : SlotInv(q)'
  BY Zenon, <1>13, <1>14, <1>15, <1>16, <1>17 DEF SlotInv
<1> QED
  BY Zenon, <1>18, <1>19 DEF IInv
-----------------------------------------------------------------------------
\* Every step of every CPU keeps it.
LEMMA NextInv == IInv /\ [Next]_vars => IInv'
<1> SUFFICES ASSUME IInv, [Next]_vars PROVE IInv'
  OBVIOUS
<1>0. Types'
  BY Zenon, TypesInductive DEF IInv
<1>1. ASSUME NEW c \in CPUs, UserStep(c) PROVE IInv'
  <2>1. PICK p \in Slots :
          \/ ForkFails(c, p) \/ ForkAborts(c, p) \/ Fork(c, p)
          \/ (\E k \in KillPids : Kill(c, p, k))
          \/ ExitCall(c, p) \/ WaitCall(c, p) \/ Await(c, p) \/ Fault(c, p)
    BY Zenon, <1>1 DEF UserStep
  <2>2. CASE Await(c, p)
    BY Zenon, <1>0, <2>2, WaitSteps DEF Await, Calls, Points
  <2> QED
    BY Zenon, <1>0, <2>1, <2>2, CallSteps, ForkStep, KillStep
<1>2. ASSUME NEW c \in CPUs, NEW p \in Slots, ThreadStep(c, p) \/ OpenStep(c, p) PROVE IInv'
  <2>1. CASE Wait(c, p) \/ AwaitSleeps(c, p) \/ SleepLock(c, p) \/ SleepRelease(c, p) \/ Awake(c, p)
    BY Zenon, <1>0, <2>1, WaitSteps DEF Wait, AwaitSleeps, SleepLock, SleepRelease, Awake, Points
  <2>2. CASE Firstret(c, p) \/ Relock(c, p)
    BY Zenon, <1>0, <2>2, WaitSteps DEF Firstret, Relock, Points, First
  <2>3. CASE \/ Forkret(c, p) \/ Syscallret(c, p) \/ Return(c, p) \/ WaitFails(c, p)
             \/ AwaitDone(c, p) \/ Yielded(c, p) \/ Reap(c, p)
    BY Zenon, <1>0, <2>3, ForkretStep, ReturnSteps, CallSteps, AwaitDoneStep, YieldedStep, ReapStep
  <2>4. CASE WaitSleeps(c, p) \/ SleepState(c, p) \/ Yield(c, p) \/ Exit(c, p) \/ Sched(c, p)
    BY Zenon, <1>0, <2>4, SleepSteps, YieldStep, ExitStep, SchedStep
  <2> QED
    BY Zenon, <1>2, <2>1, <2>2, <2>3, <2>4 DEF ThreadStep, OpenStep
<1>3. ASSUME NEW c \in CPUs, CPUStep(c) \/ TimerInterrupt(c) PROVE IInv'
  BY Zenon, <1>0, <1>3, ScanSteps, DispatchStep, TimerStep DEF CPUStep, TimerInterrupt
<1>4. ASSUME NEW c \in CPUs, DeviceInterrupt(c) \/ HandlerWakeup(c) PROVE IInv'
  BY Zenon, <1>0, <1>4, DeviceSteps, HandlerSteps
<1>5. CASE UNCHANGED vars
  <2>1. UNCHANGED <<proc, state, kstack, isave>> /\ UNCHANGED threads /\ UNCHANGED <<PROCS, lk, spc, hpc, intr, saved, boot, pc, ret>>
    BY Zenon, <1>5 DEF vars, table, ids, locks, cpus, threads, intrs
  <2>2. ASSUME NEW c \in CPUs PROVE CpuInv(c)'
    <3>1. LocksInv(c) /\ FlagInv(c) /\ SavedInv(c)
      BY Zenon DEF IInv, CpuInv
    <3>2. LocksInv(c)'
      BY Zenon, <2>1, <3>1 DEF LocksInv, At
    <3>3. FlagInv(c)'
      BY Zenon, <2>1, <3>1 DEF FlagInv, At, First
    <3>4. SavedInv(c)'
      BY Zenon, <2>1, <3>1 DEF SavedInv, Resume, First, Early
    <3> QED
      BY Zenon, <3>2, <3>3, <3>4 DEF CpuInv
  <2>3. \A p \in Slots : SlotInv(p)'
    BY Zenon, <2>1, SlotKept
  <2>4. OneCPU'
    BY Zenon, <2>1 DEF IInv, OneCPU
  <2> QED
    BY Zenon, <1>0, <2>2, <2>3, <2>4 DEF IInv
<1> QED
  BY Zenon, <1>1, <1>2, <1>3, <1>4, <1>5 DEF Next
-----------------------------------------------------------------------------
\* The inductive invariant holds in every behaviour.
THEOREM InvariantHolds == Spec => []IInv
  BY InitInv, NextInv, PTL DEF Spec

\* For any number of CPUs and slots, two CPUs never run one process: sched()
\* and scheduler() hand PROCS over so that a process is RUNNING exactly while
\* a CPU executes it, and wait() frees no stack that a CPU still uses.
THEOREM RunsExclusively == Spec => []ExclusiveRun
<1>1. IInv => ExclusiveRun
  <2> SUFFICES ASSUME IInv PROVE ExclusiveRun
    OBVIOUS
  <2>1. TypeOK
    BY Zenon, TypeParts DEF IInv
  <2>2. \A p \in Slots : StateInv(p)
    BY Zenon DEF IInv, SlotInv
  <2>3. RunsOnce
    BY Zenon, <2>2 DEF IInv, OneCPU, RunsOnce, StateInv
  <2>4. StackInUse
    BY <2>2 DEF StackInUse, StateInv
  <2> QED
    BY Zenon, <2>1, <2>3, <2>4 DEF ExclusiveRun
<1> QED
  BY <1>1, InvariantHolds, PTL

\* The interrupt flag of a CPU is what its thread expects, whichever CPU it
\* left through sched() and whichever one it resumed on: saved_intr_status and
\* the copy that sched() keeps are enough.
THEOREM FlagIsTheThreads == Spec => []InterruptFlag
<1>1. IInv => InterruptFlag
  <2> SUFFICES ASSUME IInv, NEW c \in CPUs, hpc[c] = "none", proc[c] # NoProc
               PROVE  LET p == proc[c]
                          first == p = INIT_PROC /\ boot
                      IN  /\ pc[p] = "user" \/ (first /\ pc[p] \in {"start", "relock"}) => intr[c]
                          /\ pc[p] \notin {"user", "start"} /\ ~(first /\ pc[p] = "relock") => ~intr[c]
    BY Zenon DEF InterruptFlag
  <2>1. FlagInv(c) /\ spc[c] = "switched" /\ At(c) = pc[proc[c]]
    BY Zenon DEF IInv, CpuInv, LocksInv, At
  <2> QED
    BY <2>1 DEF FlagInv, First, Open
<1> QED
  BY <1>1, InvariantHolds, PTL

\* A step of any CPU leaves the panic flag alone, but for the two asserts.
LEMMA PanicSteps ==
  ASSUME [Next]_vars
  PROVE  \/ UNCHANGED panic
         \/ \E c \in CPUs, p \in Slots : Sched(c, p) \/ Exit(c, p)
<1>1. ASSUME NEW c \in CPUs, UserStep(c) PROVE UNCHANGED panic
  BY Zenon, <1>1 DEF UserStep, ForkFails, ForkAborts, Fork, Kill, ExitCall, WaitCall, Await, Fault, Enter, Quiet
<1>2. ASSUME NEW c \in CPUs, NEW p \in Slots, ThreadStep(c, p)
      PROVE  UNCHANGED panic \/ Sched(c, p) \/ Exit(c, p)
  BY Zenon, <1>2 DEF ThreadStep, Forkret, Return, Wait, Reap, WaitFails, WaitSleeps, AwaitDone, AwaitSleeps,
     SleepLock, SleepRelease, SleepState, Awake, Yield, Yielded, Leave, Quiet
<1>3. ASSUME NEW c \in CPUs, NEW p \in Slots, OpenStep(c, p) \/ Timer(c, p) PROVE UNCHANGED panic
  BY Zenon, <1>3 DEF OpenStep, Firstret, Syscallret, Relock, Timer, Quiet
<1>4. ASSUME NEW c \in CPUs, CPUStep(c) \/ DeviceInterrupt(c) \/ HandlerWakeup(c) PROVE UNCHANGED panic
  BY Zenon, <1>4 DEF CPUStep, SchedLock, Dispatch, ScanEnd, DeviceInterrupt, HandlerWakeup
<1> QED
  BY Zenon, <1>1, <1>2, <1>3, <1>4 DEF Next, TimerInterrupt, vars

\* No assert of sched() has failed.
SchedHolds == panic # "sched"

\* The asserts of sched() hold at every call: the caller holds PROCS and no
\* other lock, its process is not RUNNING, and interrupts are off.
THEOREM SchedAsserts == Spec => []SchedHolds
<1>1. Init => SchedHolds
  BY Zenon DEF Init, SchedHolds
<1>2. IInv /\ IInv' /\ SchedHolds /\ [Next]_vars => SchedHolds'
  <2> SUFFICES ASSUME IInv, IInv', panic # "sched", [Next]_vars PROVE panic' # "sched"
    BY Zenon DEF SchedHolds
  <2>1. ASSUME NEW c \in CPUs, NEW p \in Slots, Sched(c, p) PROVE panic' # "sched"
    BY Zenon, <2>1, SchedStep DEF Sched, IInv
  <2>2. ASSUME NEW c \in CPUs, NEW p \in Slots, Exit(c, p) PROVE panic' # "sched"
    BY Zenon, <2>2 DEF Exit
  <2> QED
    BY Zenon, <2>1, <2>2, PanicSteps
<1> QED
  BY <1>1, <1>2, InvariantHolds, PTL DEF Spec
-----------------------------------------------------------------------------
\* From the test of ev to the change of state: the thread that found ev false
\* holds lk until it holds PROCS, and whoever sets ev meanwhile still has to
\* take PROCS for its wakeup().
Sleeper(p) == state[p] = "SLEEPING" /\ chan[p] = Event
Tested(c, p) == proc[c] = p /\ pc[p] \in {"sleep", "release"}
Sleeping(c, p) == proc[c] = p /\ pc[p] = "sleeping"
WakeInv ==
  /\ \A c \in CPUs, p \in Slots : Tested(c, p) => ~ev
  /\ \A c \in CPUs, p \in Slots : Sleeping(c, p) /\ ev => hpc[BootCPU] = "wakeup"
  /\ \A p \in Slots : Sleeper(p) /\ ev => hpc[BootCPU] = "wakeup"

\* A pid is given to one slot; only a slot that is in use need have one.
PidInv ==
  /\ \A p \in Slots : pid[p] < next_pid /\ (Initialized(p) => pid[p] # 0)
  /\ \A p, q \in Slots : pid[p] = pid[q] /\ pid[p] # 0 => p = q

\* Until init exits, no parent has, and nobody but init is its own parent.
Live(p) == state[p] \notin {"UNUSED", "ZOMBIE"}
InWait(p) == state[p] = "SLEEPING" /\ chan[p] = p
LiveInv ==
  /\ Live(INIT_PROC)
  /\ ParentIsLive /\ NoLostChild
  /\ \A p \in Slots : Initialized(p) /\ p # INIT_PROC => parent[p] # p

\* The init program neither exits nor faults, and nobody kills it.
InitStays == 1 \notin KillPids /\ InitOps \cap {"exit", "fault"} = {}
StayInv == panic = "none" /\ pid[INIT_PROC] = 1 /\ ~killed[INIT_PROC] /\ pc[INIT_PROC] # "exit"
FamInv == PidInv /\ (panic = "none" => LiveInv)
-----------------------------------------------------------------------------
\* The steps of a thread that change nothing but the thread itself, a lock and
\* the interrupt flag, and do not take it into sleep().
Moves(c, p) ==
  \/ Forkret(c, p) \/ Return(c, p) \/ Syscallret(c, p)
  \/ ExitCall(c, p) \/ WaitCall(c, p) \/ ForkFails(c, p) \/ Wait(c, p) \/ WaitFails(c, p)
  \/ Await(c, p) \/ Firstret(c, p) \/ Awake(c, p) \/ Relock(c, p)

\* Where they take it.
LEMMA MovesFacts ==
  ASSUME NEW c \in CPUs, NEW p \in Slots, Moves(c, p)
  PROVE  /\ Quiet /\ UNCHANGED ev
         /\ \E x \in Points \ {"sleep", "release", "sleeping"} : Goto(p, x)
<1>1. Quiet /\ UNCHANGED ev
  BY Zenon DEF Moves, Forkret, Return, Syscallret, ExitCall, WaitCall, Enter, ForkFails, Wait, WaitFails,
     Await, Firstret, Awake, Relock, LockProcs, UnlockProcs, LockLk, locks
<1>2. PICK x \in {"start", "user", "exit", "wlock", "sysret", "wait", "await", "relock"} : Goto(p, x)
  BY Zenon DEF Moves, Forkret, Return, Syscallret, ExitCall, WaitCall, Enter, ForkFails, Wait, WaitFails,
     Await, Firstret, Awake, Relock, DieIfDead
<1> QED
  BY <1>1, <1>2 DEF Points

\* A step that leaves ev and the handler alone, brings no thread into sleep()
\* and puts none to sleep on ev keeps WakeInv.
LEMMA TameWake ==
  ASSUME WakeInv, UNCHANGED ev, hpc'[BootCPU] = hpc[BootCPU],
         \A c \in CPUs, p \in Slots : (Tested(c, p)' => Tested(c, p)) /\ (Sleeping(c, p)' => Sleeping(c, p)),
         \A p \in Slots : Sleeper(p)' => Sleeper(p)
  PROVE  WakeInv'
  BY Zenon DEF WakeInv

\* In particular one that moves a thread elsewhere.
LEMMA WakeMove ==
  ASSUME IInv, WakeInv, NEW p \in Slots, NEW x \in Points \ {"sleep", "release", "sleeping"},
         pc' = [pc EXCEPT ![p] = x], UNCHANGED ev, UNCHANGED cpus,
         \A q \in Slots : Sleeper(q)' => Sleeper(q)
  PROVE  WakeInv'
<1>1. pc'[p] = x /\ \A q \in Slots : q # p => pc'[q] = pc[q]
  BY Zenon DEF IInv, Types, ThreadsOK
<1>2. \A c \in CPUs, q \in Slots : (Tested(c, q)' => Tested(c, q)) /\ (Sleeping(c, q)' => Sleeping(c, q))
  BY Zenon, <1>1 DEF Tested, Sleeping, cpus
<1> QED
  BY Zenon, <1>2, TameWake DEF cpus

\* The steps that change no state.
LEMMA WakeMoves ==
  ASSUME IInv, WakeInv, NEW c \in CPUs, NEW p \in Slots,
         Moves(c, p) \/ Timer(c, p) \/ Yielded(c, p) \/ ForkAborts(c, p) \/ Fault(c, p)
  PROVE  WakeInv'
<1>1. UNCHANGED <<state, chan, ev>> /\ UNCHANGED cpus
  BY Zenon, MovesFacts DEF Timer, Yielded, ForkAborts, Fault, UnlockProcs, WithProcs, Quiet, table, locks
<1>2. PICK x \in Points \ {"sleep", "release", "sleeping"} : pc' = [pc EXCEPT ![p] = x]
  <2>1. CASE Moves(c, p)
    BY Zenon, <2>1, MovesFacts DEF Goto
  <2>2. CASE Timer(c, p)
    <3>1. PICK x \in {"exit", "yield"} : pc' = [pc EXCEPT ![p] = x]
      BY Zenon, <2>2 DEF Timer, DieIfDead, IInv, Types, ThreadsOK
    <3> QED
      BY Zenon, <3>1 DEF Points
  <2>3. CASE Yielded(c, p)
    <3>1. frame[p] \in {"user", "start", "relock", "none"}
      BY Zenon DEF IInv, SlotInv, ThreadInv, Open
    <3> QED
      BY Zenon, <2>3, <3>1 DEF Yielded, Points
  <2>4. CASE ForkAborts(c, p) \/ Fault(c, p)
    BY Zenon, <2>4 DEF ForkAborts, Fault, Goto, Points
  <2> QED
    BY Zenon, <2>1, <2>2, <2>3, <2>4
<1>3. \A q \in Slots : Sleeper(q)' => Sleeper(q)
  BY Zenon, <1>1 DEF Sleeper
<1> QED
  BY Zenon, <1>1, <1>2, <1>3, WakeMove

\* The wait for ev: its test is made under lk, and its sleep under PROCS.
LEMMA WakeAwaits ==
  ASSUME IInv, WakeInv, NEW c \in CPUs, NEW p \in Slots,
         \/ AwaitDone(c, p) \/ AwaitSleeps(c, p) \/ SleepLock(c, p) \/ SleepRelease(c, p)
         \/ SleepState(c, p)
  PROVE  WakeInv'
<1>1. CASE AwaitDone(c, p) \/ AwaitSleeps(c, p) \/ SleepLock(c, p) \/ SleepRelease(c, p)
  <2>1. ~ev'
    BY Zenon, <1>1 DEF AwaitDone, AwaitSleeps, SleepLock, SleepRelease, LockProcs, locks, WakeInv, Tested, Runs
  <2> QED
    BY Zenon, <2>1 DEF WakeInv
<1>2. CASE SleepState(c, p)
  <2>1. Sleeping(c, p) /\ UNCHANGED ev /\ UNCHANGED cpus /\ Leave(p, "SLEEPING", Event, "awake")
    BY Zenon, <1>2 DEF SleepState, Runs, Sleeping, Leave, locks
  <2>2. /\ pc'[p] = "sched"
        /\ \A q \in Slots : q # p => pc'[q] = pc[q] /\ state'[q] = state[q] /\ chan'[q] = chan[q]
    BY Zenon, <2>1 DEF Leave, IInv, Types, ThreadsOK, TableOK
  <2>3. UNCHANGED <<proc, hpc>>
    BY Zenon, <2>1 DEF cpus
  <2>4. ev' => hpc'[BootCPU] = "wakeup"
    BY Zenon, <2>1, <2>3 DEF WakeInv
  <2>5. \A d \in CPUs, q \in Slots : Tested(d, q)' => Tested(d, q)
    BY Zenon, <2>2, <2>3 DEF Tested
  <2> QED
    BY Zenon, <2>1, <2>4, <2>5 DEF WakeInv
<1> QED
  BY Zenon, <1>1, <1>2

\* States that put nobody to sleep make no new sleeper.
LEMMA NoNewSleeper ==
  ASSUME NEW st, SetStates(st), \A q \in Slots : st[q] = "SLEEPING" => state[q] = "SLEEPING"
  PROVE  \A q \in Slots : Sleeper(q)' => Sleeper(q)
<1>1. \A q \in Slots : state'[q] = "SLEEPING" => chan'[q] = chan[q]
  BY Zenon DEF SetStates
<1> QED
  BY Zenon, <1>1 DEF SetStates, Sleeper

\* The steps that change the table.
LEMMA WakeTable ==
  ASSUME IInv, WakeInv, NEW c \in CPUs, NEW p \in Slots,
         \/ Fork(c, p) \/ Reap(c, p) \/ Exit(c, p) \/ WaitSleeps(c, p) \/ Yield(c, p)
         \/ \E k \in KillPids : Kill(c, p, k)
  PROVE  WakeInv'
<1>0. state \in [Slots -> States] /\ chan \in [Slots -> 0..Event] /\ pc \in [Slots -> Points]
  BY Zenon DEF IInv, Types, TableOK, ThreadsOK
<1>1. "sched" \in Points /\ "sysret" \in Points
  BY DEF Points
<1>2. UNCHANGED ev /\ UNCHANGED cpus
  BY Zenon DEF Fork, Reap, Exit, WaitSleeps, Yield, Kill, WithProcs, LockProcs, UnlockProcs, Leave, locks
<1>3. CASE Fork(c, p)
  <2>1. PICK np \in Slots :
          state' = [state EXCEPT ![np] = "RUNNABLE"] /\ pc' = [pc EXCEPT ![np] = "forkret", ![p] = "sysret"]
    BY Zenon, <1>3 DEF Fork
  <2>2. \A q \in Slots : pc'[q] \in {"forkret", "sysret"} \/ pc'[q] = pc[q]
    BY Zenon, <1>0, <2>1
  <2>3. \A q \in Slots : Sleeper(q)' => Sleeper(q)
    BY Zenon, <1>0, <1>3, <2>1 DEF Fork, Sleeper
  <2>4. \A d \in CPUs, q \in Slots : (Tested(d, q)' => Tested(d, q)) /\ (Sleeping(d, q)' => Sleeping(d, q))
    BY Zenon, <1>2, <2>2 DEF Tested, Sleeping, cpus
  <2> QED
    BY Zenon, <1>2, <2>3, <2>4, TameWake DEF cpus
<1>4. CASE WaitSleeps(c, p) \/ Yield(c, p)
  <2>1. PICK st \in States, ch \in {p, NoProc} :
          state' = [state EXCEPT ![p] = st] /\ chan' = [chan EXCEPT ![p] = ch] /\ pc' = [pc EXCEPT ![p] = "sched"]
    <3>1. CASE WaitSleeps(c, p)
      BY Zenon, <3>1 DEF WaitSleeps, Leave, States
    <3>2. CASE Yield(c, p)
      BY Zenon, <3>2 DEF Yield, Leave, States
    <3> QED
      BY Zenon, <1>4, <3>1, <3>2
  <2>2. ch # Event
    BY ProcAssumption DEF Slots, NoProc, Event
  <2>3. \A q \in Slots : Sleeper(q)' => Sleeper(q)
    BY Zenon, <1>0, <2>1, <2>2 DEF Sleeper
  <2> QED
    BY Zenon, <1>1, <1>2, <2>1, <2>3, WakeMove
<1>5. CASE Reap(c, p)
  <2>1. PICK q \in Slots : SetStates([state EXCEPT ![q] = "UNUSED"])
    BY Zenon, <1>5 DEF Reap
  <2>2. \A r \in Slots : Sleeper(r)' => Sleeper(r)
    BY Zenon, <1>0, <2>1, NoNewSleeper
  <2> QED
    BY Zenon, <1>1, <1>2, <1>5, <2>2, WakeMove DEF Reap, Goto
<1>6. CASE Exit(c, p)
  <2>1. SetStates([Wakeup1(ExitChannels(p)) EXCEPT ![p] = "ZOMBIE"]) /\ Goto(p, "sched")
    BY Zenon, <1>6 DEF Exit
  <2>2. \A q \in Slots : [Wakeup1(ExitChannels(p)) EXCEPT ![p] = "ZOMBIE"][q] = "SLEEPING" => state[q] = "SLEEPING"
    BY DEF Wakeup1
  <2>3. \A r \in Slots : Sleeper(r)' => Sleeper(r)
    BY Zenon, <2>1, <2>2, NoNewSleeper
  <2> QED
    BY Zenon, <1>1, <1>2, <2>1, <2>3, WakeMove DEF Goto
<1>7. ASSUME NEW k \in KillPids, Kill(c, p, k) PROVE WakeInv'
  <2>1. \/ UNCHANGED <<state, chan>>
        \/ \E q \in Slots : SetStates([state EXCEPT ![q] = IF @ = "SLEEPING" THEN "RUNNABLE" ELSE @])
    BY Zenon, <1>7 DEF Kill
  <2>2. ASSUME NEW q \in Slots, SetStates([state EXCEPT ![q] = IF @ = "SLEEPING" THEN "RUNNABLE" ELSE @])
        PROVE  \A r \in Slots : Sleeper(r)' => Sleeper(r)
    BY Zenon, <1>0, <2>2, NoNewSleeper
  <2>3. \A r \in Slots : Sleeper(r)' => Sleeper(r)
    BY Zenon, <2>1, <2>2 DEF Sleeper
  <2> QED
    BY Zenon, <1>1, <1>2, <1>7, <2>3, WakeMove DEF Kill, Goto
<1> QED
  BY Zenon, <1>3, <1>4, <1>5, <1>6, <1>7

\* The scheduler: a thread that comes back from it is not about to sleep.
LEMMA WakeSwitch ==
  ASSUME IInv, WakeInv, NEW c \in CPUs, CPUStep(c) \/ \E p \in Slots : Sched(c, p)
  PROVE  WakeInv'
<1>1. CASE SchedLock(c) \/ ScanEnd(c)
  <2>1. UNCHANGED <<state, chan, ev, proc, hpc, pc>>
    BY Zenon, <1>1 DEF SchedLock, ScanEnd, LockProcs, UnlockProcs, table, threads
  <2> QED
    BY Zenon, <2>1, TameWake DEF Sleeper, Tested, Sleeping
<1>2. CASE Dispatch(c)
  <2>1. PICK p \in Slots : state[p] = "RUNNABLE" /\ SetStates(Dispatched(p)) /\ proc' = [proc EXCEPT ![c] = p]
    BY Zenon, <1>2 DEF Dispatch, Lowest, Runnable
  <2>2. pc[p] \notin {"sleep", "release", "sleeping"}
    BY Zenon, <2>1 DEF IInv, SlotInv, StateInv, Resume
  <2>3. UNCHANGED <<ev, hpc, pc>>
    BY Zenon, <1>2 DEF Dispatch, locks, threads
  <2>4. proc'[c] = p /\ \A d \in CPUs : d # c => proc'[d] = proc[d]
    BY Zenon, <2>1 DEF IInv, Types, CpusOK
  <2>5. \A d \in CPUs, q \in Slots : (Tested(d, q)' => Tested(d, q)) /\ (Sleeping(d, q)' => Sleeping(d, q))
    BY Zenon, <2>2, <2>3, <2>4 DEF Tested, Sleeping
  <2>6. \A q \in Slots : Dispatched(p)[q] = "SLEEPING" => state[q] = "SLEEPING"
    BY DEF Dispatched, IInv, Types, TableOK
  <2>7. \A q \in Slots : Sleeper(q)' => Sleeper(q)
    BY Zenon, <2>1, <2>6, NoNewSleeper
  <2> QED
    BY Zenon, <2>3, <2>5, <2>7, TameWake
<1>3. ASSUME NEW p \in Slots, Sched(c, p) PROVE WakeInv'
  <2>1. /\ UNCHANGED <<state, chan, ev, hpc>>
        /\ proc' = [proc EXCEPT ![c] = NoProc] /\ pc' = [pc EXCEPT ![p] = ret[p]]
    BY Zenon, <1>3 DEF Sched, table, locks
  <2>2. ret[p] \notin {"sleep", "release", "sleeping"}
    BY Zenon DEF IInv, SlotInv, ThreadInv
  <2>3. proc'[c] = NoProc /\ \A d \in CPUs : d # c => proc'[d] = proc[d]
    BY Zenon, <2>1 DEF IInv, Types, CpusOK
  <2>4. pc'[p] = ret[p] /\ \A q \in Slots : q # p => pc'[q] = pc[q]
    BY Zenon, <2>1 DEF IInv, Types, ThreadsOK
  <2>5. \A d \in CPUs, q \in Slots : (Tested(d, q)' => Tested(d, q)) /\ (Sleeping(d, q)' => Sleeping(d, q))
    BY Zenon, <2>2, <2>3, <2>4, SlotFacts DEF Tested, Sleeping
  <2> QED
    BY Zenon, <2>1, <2>5, TameWake DEF Sleeper
<1> QED
  BY Zenon, <1>1, <1>2, <1>3 DEF CPUStep

\* The device: it sets ev while nobody is between its test and its sleep, and
\* its wakeup() leaves nobody asleep.
LEMMA WakeDevice ==
  ASSUME IInv, WakeInv, NEW c \in CPUs, DeviceInterrupt(c) \/ HandlerWakeup(c)
  PROVE  WakeInv'
<1>1. CASE DeviceInterrupt(c)
  <2>1. UNCHANGED <<state, chan, proc, pc>> /\ lk = NoCPU /\ c = BootCPU
    BY Zenon, <1>1 DEF DeviceInterrupt, table, threads
  <2>2. hpc'[BootCPU] = "wakeup"
    BY Zenon, <1>1, <2>1 DEF DeviceInterrupt, IInv, Types, CpusOK
  <2>3. ASSUME NEW d \in CPUs, NEW q \in Slots, Tested(d, q) PROVE FALSE
    <3>1. At(d) \in Awaiting
      BY Zenon, <2>3, SlotFacts DEF Tested, At, Awaiting
    <3> QED
      BY Zenon, <2>1, <3>1, ProcAssumption DEF IInv, CpuInv, LocksInv
  <2>4. \A d \in CPUs, q \in Slots : ~Tested(d, q)'
    BY Zenon, <2>1, <2>3 DEF Tested
  <2> QED
    BY Zenon, <2>2, <2>4 DEF WakeInv
<1>2. CASE HandlerWakeup(c)
  <2>1. PROCS = NoCPU /\ SetStates(Wakeup1({Event})) /\ UNCHANGED <<proc, ev>>
    BY Zenon, <1>2 DEF HandlerWakeup
  <2>2. \A q \in Slots : pc'[q] = pc[q] \/ pc'[q] = "sysret"
    BY Zenon, <1>2 DEF HandlerWakeup, Goto, threads, IInv, Types, ThreadsOK, CpusOK
  <2>3. ASSUME NEW d \in CPUs, NEW q \in Slots, Sleeping(d, q) PROVE FALSE
    <3>1. At(d) \in Holding
      BY Zenon, <2>3, SlotFacts DEF Sleeping, At, Holding
    <3> QED
      BY Zenon, <2>1, <3>1, ProcAssumption DEF IInv, CpuInv, LocksInv
  <2>4. \A d \in CPUs, q \in Slots : (Tested(d, q)' => Tested(d, q)) /\ ~Sleeping(d, q)'
    BY Zenon, <2>1, <2>2, <2>3 DEF Tested, Sleeping
  <2>5. \A q \in Slots : ~Sleeper(q)'
    BY <2>1 DEF SetStates, Wakeup1, Sleeper
  <2> QED
    BY Zenon, <2>1, <2>4, <2>5 DEF WakeInv
<1> QED
  BY Zenon, <1>1, <1>2

\* Every step keeps WakeInv.
LEMMA NextWake == IInv /\ WakeInv /\ [Next]_vars => WakeInv'
<1> SUFFICES ASSUME IInv, WakeInv, [Next]_vars PROVE WakeInv'
  OBVIOUS
<1>1. CASE UNCHANGED vars
  <2>1. UNCHANGED <<state, chan, ev, proc, hpc, pc>>
    BY Zenon, <1>1 DEF vars, table, locks, cpus, threads
  <2> QED
    BY Zenon, <2>1, TameWake DEF Sleeper, Tested, Sleeping
<1>2. CASE Next
  <2>1. PICK c \in CPUs :
          \/ UserStep(c) \/ CPUStep(c) \/ TimerInterrupt(c) \/ DeviceInterrupt(c) \/ HandlerWakeup(c)
          \/ \E p \in Slots : ThreadStep(c, p) \/ OpenStep(c, p)
    BY Zenon, <1>2 DEF Next
  <2>2. CASE CPUStep(c) \/ DeviceInterrupt(c) \/ HandlerWakeup(c)
    BY Zenon, <2>2, WakeSwitch, WakeDevice
  <2>3. CASE UserStep(c)
    BY Zenon, <2>3, WakeMoves, WakeTable DEF UserStep, Moves
  <2>4. CASE TimerInterrupt(c)
    BY Zenon, <2>4, WakeMoves DEF TimerInterrupt
  <2>5. ASSUME NEW p \in Slots, ThreadStep(c, p) \/ OpenStep(c, p) PROVE WakeInv'
    BY Zenon, <2>5, WakeMoves, WakeAwaits, WakeTable, WakeSwitch DEF ThreadStep, OpenStep, Moves
  <2> QED
    BY Zenon, <2>1, <2>2, <2>3, <2>4, <2>5
<1> QED
  BY Zenon, <1>1, <1>2

\* sleep() loses no wakeup, on any number of CPUs: a process asleep for ev
\* while ev holds is about to be woken by the handler that set it.
THEOREM LosesNoWakeup == Spec => []NoLostWakeup
<1>1. Init => WakeInv
  BY Zenon DEF Init, WakeInv
<1>2. WakeInv => NoLostWakeup
  BY Zenon DEF WakeInv, NoLostWakeup, Sleeper
<1> QED
  BY <1>1, <1>2, InvariantHolds, NextWake, PTL DEF Spec
-----------------------------------------------------------------------------
\* A step that starts, ends and reaps no process, and brings none into wait().
Tame(q) ==
  /\ Initialized(q)' <=> Initialized(q)
  /\ Live(q)' <=> Live(q)
  /\ InWait(q)' => InWait(q) /\ killed'[q] = killed[q]

\* It keeps the family.
LEMMA TameFamily ==
  ASSUME LiveInv, UNCHANGED parent, \A q \in Slots : Tame(q)
  PROVE  LiveInv'
<1>1. \A p \in Slots : Children(p)' = Children(p)
  BY Zenon DEF Tame, Children
<1>2. \A q \in Slots : state'[q] = "ZOMBIE" <=> state[q] = "ZOMBIE"
  BY Zenon DEF Tame, Live, Initialized
<1>3. \A p \in Slots : ZombieChildren(p)' = ZombieChildren(p)
  BY Zenon, <1>1, <1>2 DEF ZombieChildren, Children
<1>4. NoLostChild'
  BY Zenon, <1>1, <1>3 DEF LiveInv, NoLostChild, Tame, InWait
<1>5. ParentIsLive'
  BY Zenon DEF LiveInv, ParentIsLive, Tame, Live
<1> QED
  BY Zenon, <1>4, <1>5, SlotFacts DEF LiveInv, Tame

\* A step that hands out no pid and starts no process keeps the pids apart.
LEMMA TamePids ==
  ASSUME PidInv, UNCHANGED <<pid, next_pid>>, \A q \in Slots : Initialized(q)' => Initialized(q)
  PROVE  PidInv'
  BY Zenon DEF PidInv

\* Leaving every state alone is tame.
LEMMA StillTame ==
  ASSUME UNCHANGED <<state, chan, killed>>
  PROVE  \A q \in Slots : Tame(q)
  BY Zenon DEF Tame, Initialized, Live, InWait

\* A process that runs is live, and not in wait().
LEMMA RunnerLives ==
  ASSUME IInv, NEW c \in CPUs, NEW p \in Slots, proc[c] = p, pc[p] # "sched"
  PROVE  state[p] = "RUNNING" /\ Live(p) /\ Initialized(p) /\ ~InWait(p)
<1>1. state[p] = "RUNNING"
  BY Zenon DEF IInv, SlotInv, StateInv, OnCPU
<1> QED
  BY Zenon, <1>1 DEF Live, Initialized, InWait

\* Waking sleepers is tame; so is changing a live process's state to a live one.
LEMMA WakingTame ==
  ASSUME NEW st, SetStates(st), UNCHANGED killed,
         \A q \in Slots : \/ st[q] = state[q]
                          \/ Live(q) /\ st[q] \in {"RUNNABLE", "RUNNING"}
  PROVE  \A q \in Slots : Tame(q)
<1> SUFFICES ASSUME NEW q \in Slots PROVE Tame(q)
  OBVIOUS
<1>1. state'[q] = st[q] /\ (st[q] = "SLEEPING" => chan'[q] = chan[q])
  BY Zenon DEF SetStates
<1> QED
  BY Zenon, <1>1 DEF Tame, Live, Initialized, InWait

\* Tame steps keep pids and family.
LEMMA TameFam ==
  ASSUME FamInv, panic = "none", UNCHANGED <<pid, parent, next_pid>>, \A q \in Slots : Tame(q)
  PROVE  FamInv'
<1>1. PidInv'
  BY Zenon, TamePids DEF FamInv, Tame
<1>2. LiveInv'
  BY Zenon, TameFamily DEF FamInv
<1> QED
  BY Zenon, <1>1, <1>2 DEF FamInv

\* The steps that leave the table alone.
LEMMA FamStill ==
  ASSUME FamInv, panic = "none", UNCHANGED table
  PROVE  FamInv'
  BY Zenon, StillTame, TameFam DEF table, ids

\* The steps of a thread that starts, ends and reaps no process.
LEMMA FamThread ==
  ASSUME IInv, FamInv, NEW c \in CPUs, NEW p \in Slots,
         \/ Moves(c, p) \/ Timer(c, p) \/ Yielded(c, p) \/ Sched(c, p)
         \/ AwaitDone(c, p) \/ AwaitSleeps(c, p) \/ SleepLock(c, p) \/ SleepRelease(c, p)
         \/ SleepState(c, p) \/ Yield(c, p) \/ Fault(c, p)
         \/ \E k \in KillPids : Kill(c, p, k)
  PROVE  FamInv'
<1>0. state \in [Slots -> States] /\ chan \in [Slots -> 0..Event] /\ killed \in [Slots -> BOOLEAN]
  BY Zenon DEF IInv, Types, TableOK
<1>1. CASE Moves(c, p)
  <2>1. panic = "none"
    BY Zenon, <1>1 DEF Moves, Forkret, Return, Syscallret, ExitCall, WaitCall, Enter, ForkFails, Wait,
       WaitFails, Await, Firstret, Awake, Relock, Calls, Runs
  <2> QED
    BY Zenon, <1>1, <2>1, MovesFacts, FamStill DEF Quiet
<1>2. CASE Timer(c, p) \/ Yielded(c, p) \/ Sched(c, p) \/ AwaitDone(c, p) \/ AwaitSleeps(c, p)
           \/ SleepLock(c, p) \/ SleepRelease(c, p)
  <2>1. panic = "none" /\ UNCHANGED table
    BY Zenon, <1>2 DEF Timer, Yielded, Sched, AwaitDone, AwaitSleeps, SleepLock, SleepRelease, Quiet, Runs
  <2> QED
    BY Zenon, <2>1, FamStill
<1>3. CASE SleepState(c, p) \/ Yield(c, p)
  <2>1. /\ panic = "none" /\ UNCHANGED ids /\ proc[c] = p /\ pc[p] # "sched"
        /\ \/ state' = [state EXCEPT ![p] = "SLEEPING"] /\ chan' = [chan EXCEPT ![p] = Event]
           \/ state' = [state EXCEPT ![p] = "RUNNABLE"] /\ chan' = [chan EXCEPT ![p] = NoProc]
    BY Zenon, <1>3 DEF SleepState, Yield, Leave, Runs
  <2>2. Live(p)' /\ Initialized(p)' /\ ~InWait(p)'
    BY Zenon, <1>0, <2>1, SlotFacts DEF Live, Initialized, InWait
  <2>3. Tame(p)
    BY Zenon, <2>1, <2>2, RunnerLives DEF Tame
  <2>4. \A q \in Slots : q # p => state'[q] = state[q] /\ chan'[q] = chan[q]
    BY Zenon, <1>0, <2>1
  <2>5. \A q \in Slots : q # p => Tame(q)
    BY Zenon, <2>1, <2>4 DEF Tame, Live, Initialized, InWait, ids
  <2> QED
    BY Zenon, <2>1, <2>3, <2>5, TameFam DEF ids
<1>4. CASE Fault(c, p)
  <2>1. /\ panic = "none" /\ UNCHANGED <<state, chan, pid, parent, next_pid>>
        /\ proc[c] = p /\ pc[p] # "sched" /\ killed' = [killed EXCEPT ![p] = TRUE]
    BY Zenon, <1>4 DEF Fault, Calls, Runs
  <2>2. \A q \in Slots : q # p => killed'[q] = killed[q]
    BY Zenon, <1>0, <2>1
  <2>3. \A q \in Slots : Tame(q)
    BY Zenon, <2>1, <2>2, RunnerLives DEF Tame, Live, Initialized, InWait
  <2> QED
    BY Zenon, <2>1, <2>3, TameFam
<1>5. ASSUME NEW k \in KillPids, Kill(c, p, k) PROVE FamInv'
  <2>1. panic = "none" /\ UNCHANGED <<pid, parent, next_pid>>
    BY Zenon, <1>5 DEF Kill, Calls, Runs
  <2>2. CASE UNCHANGED <<killed, state, chan>>
    BY Zenon, <2>1, <2>2, StillTame, TameFam
  <2>3. ASSUME NEW q \in Slots, killed' = [killed EXCEPT ![q] = TRUE],
               SetStates([state EXCEPT ![q] = IF @ = "SLEEPING" THEN "RUNNABLE" ELSE @])
        PROVE  FamInv'
    <3>1. /\ state'[q] = (IF state[q] = "SLEEPING" THEN "RUNNABLE" ELSE state[q])
          /\ \A r \in Slots : r # q => state'[r] = state[r] /\ killed'[r] = killed[r]
      BY Zenon, <1>0, <2>3 DEF SetStates
    <3>2. \A r \in Slots : state'[r] = "SLEEPING" => chan'[r] = chan[r]
      BY Zenon, <2>3 DEF SetStates
    <3>3. Tame(q)
      BY Zenon, <3>1 DEF Tame, Live, Initialized, InWait
    <3>4. \A r \in Slots : r # q => Tame(r)
      BY Zenon, <3>1, <3>2 DEF Tame, Live, Initialized, InWait
    <3> QED
      BY Zenon, <2>1, <3>3, <3>4, TameFam
  <2> QED
    BY Zenon, <1>5, <2>2, <2>3 DEF Kill
<1> QED
  BY Zenon, <1>1, <1>2, <1>3, <1>4, <1>5

\* The scheduler and the device.
LEMMA FamMachine ==
  ASSUME IInv, FamInv, NEW c \in CPUs, CPUStep(c) \/ DeviceInterrupt(c) \/ HandlerWakeup(c)
  PROVE  FamInv'
<1>0. state \in [Slots -> States]
  BY Zenon DEF IInv, Types, TableOK
<1>1. panic = "none"
  BY Zenon DEF CPUStep, SchedLock, Dispatch, ScanEnd, DeviceInterrupt, HandlerWakeup
<1>2. CASE SchedLock(c) \/ ScanEnd(c) \/ DeviceInterrupt(c)
  BY Zenon, <1>1, <1>2, FamStill DEF SchedLock, ScanEnd, DeviceInterrupt
<1>3. CASE Dispatch(c)
  <2>1. PICK p \in Slots : state[p] = "RUNNABLE" /\ SetStates(Dispatched(p))
    BY Zenon, <1>3 DEF Dispatch, Lowest, Runnable
  <2>2. \A q \in Slots : Dispatched(p)[q] = state[q] \/ (Live(q) /\ Dispatched(p)[q] \in {"RUNNABLE", "RUNNING"})
    BY <1>0, <2>1 DEF Dispatched, Live
  <2>3. UNCHANGED ids
    BY Zenon, <1>3 DEF Dispatch
  <2> QED
    BY Zenon, <1>1, <2>1, <2>2, <2>3, WakingTame, TameFam DEF ids
<1>4. CASE HandlerWakeup(c)
  <2>1. SetStates(Wakeup1({Event})) /\ UNCHANGED ids
    BY Zenon, <1>4 DEF HandlerWakeup
  <2>2. \A q \in Slots : \/ Wakeup1({Event})[q] = state[q]
                         \/ Live(q) /\ Wakeup1({Event})[q] \in {"RUNNABLE", "RUNNING"}
    BY Zenon DEF Wakeup1, Live
  <2> QED
    BY Zenon, <1>1, <2>1, <2>2, WakingTame, TameFam DEF ids
<1> QED
  BY Zenon, <1>2, <1>3, <1>4 DEF CPUStep

\* A slot given the next pid, which no slot has.
LEMMA NewPid ==
  ASSUME Types, PidInv, NEW np \in Slots, pid' = [pid EXCEPT ![np] = next_pid], next_pid' = next_pid + 1,
         \A q \in Slots : q # np => (Initialized(q)' => Initialized(q))
  PROVE  PidInv'
<1>0. pid \in [Slots -> Nat] /\ next_pid \in Nat \ {0}
  BY DEF Types, TableOK
<1>1. pid'[np] = next_pid /\ \A q \in Slots : q # np => pid'[q] = pid[q]
  BY Zenon, <1>0
<1>2. next_pid # 0 /\ next_pid < next_pid'
  BY <1>0
<1>3. \A q \in Slots : pid[q] # next_pid /\ pid[q] < next_pid'
  BY <1>0 DEF PidInv
<1>4. \A q \in Slots : pid'[q] < next_pid' /\ (Initialized(q)' => pid'[q] # 0)
  BY Zenon, <1>1, <1>2, <1>3 DEF PidInv
<1>5. \A q, r \in Slots : pid'[q] = pid'[r] /\ pid'[q] # 0 => q = r
  BY Zenon, <1>1, <1>3 DEF PidInv
<1> QED
  BY Zenon, <1>4, <1>5 DEF PidInv

\* fork(): the child's parent is the caller, which runs.
LEMMA FamFork ==
  ASSUME IInv, FamInv, NEW c \in CPUs, NEW p \in Slots, Fork(c, p) \/ ForkAborts(c, p)
  PROVE  FamInv'
<1>0. /\ state \in [Slots -> States] /\ parent \in [Slots -> Slots \cup {NoProc}] /\ Types
  BY Zenon DEF IInv, Types, TableOK
<1>1. panic = "none" /\ proc[c] = p /\ pc[p] # "sched" /\ PidInv /\ LiveInv
  BY Zenon DEF Fork, ForkAborts, Calls, Runs, FamInv
<1>2. CASE ForkAborts(c, p)
  <2>1. PICK np \in Slots : pid' = [pid EXCEPT ![np] = next_pid]
    BY Zenon, <1>2 DEF ForkAborts
  <2>2. next_pid' = next_pid + 1 /\ UNCHANGED <<state, chan, parent, killed>>
    BY Zenon, <1>2 DEF ForkAborts
  <2>3. \A q \in Slots : Initialized(q)' => Initialized(q)
    BY Zenon, <2>2 DEF Initialized
  <2>4. PidInv'
    BY Zenon, <1>0, <1>1, <2>1, <2>2, <2>3, NewPid
  <2>5. LiveInv'
    BY Zenon, <1>1, <2>2, StillTame, TameFamily
  <2> QED
    BY Zenon, <2>4, <2>5 DEF FamInv
<1>3. CASE Fork(c, p)
  <2>1. PICK np \in Slots :
          /\ state[np] = "UNUSED"
          /\ state' = [state EXCEPT ![np] = "RUNNABLE"] /\ pid' = [pid EXCEPT ![np] = next_pid]
          /\ parent' = [parent EXCEPT ![np] = p]
    BY Zenon, <1>3 DEF Fork, Lowest, Unused
  <2>2. next_pid' = next_pid + 1 /\ UNCHANGED <<chan, killed>>
    BY Zenon, <1>3 DEF Fork
  <2>3. /\ state'[np] = "RUNNABLE" /\ parent'[np] = p
        /\ \A q \in Slots : q # np => state'[q] = state[q] /\ parent'[q] = parent[q]
    BY Zenon, <1>0, <2>1
  <2>4. PidInv'
    <3>1. \A q \in Slots : q # np => (Initialized(q)' => Initialized(q))
      BY Zenon, <2>3 DEF Initialized
    <3> QED
      BY Zenon, <1>0, <1>1, <2>1, <2>2, <3>1, NewPid
  <2>5. p # np /\ Live(p) /\ Live(INIT_PROC) /\ INIT_PROC # np /\ Live(p)' /\ Live(INIT_PROC)'
    BY Zenon, <1>1, <2>1, <2>3, RunnerLives, SlotFacts DEF LiveInv, Live
  <2>6. ParentIsLive'
    <3> SUFFICES ASSUME NEW q \in Slots, Initialized(q)'
                 PROVE  parent'[q] \in Slots /\ state'[parent'[q]] \notin {"UNUSED", "ZOMBIE"}
      BY Zenon DEF ParentIsLive
    <3>1. CASE q = np
      BY Zenon, <2>3, <2>5, <3>1 DEF Live
    <3>2. CASE q # np
      <4>1. parent'[q] = parent[q] /\ parent[q] \in Slots /\ Live(parent[q])
        BY Zenon, <1>1, <2>3, <3>2 DEF LiveInv, ParentIsLive, Initialized, Live
      <4>2. state'[parent[q]] = state[parent[q]]
        BY Zenon, <2>1, <2>3, <4>1 DEF Live
      <4> QED
        BY Zenon, <4>1, <4>2 DEF Live
    <3> QED
      BY Zenon, <3>1, <3>2
  <2>7. NoLostChild'
    <3> SUFFICES ASSUME NEW r \in Slots, InWait(r)'
                 PROVE  Children(r)' # {} /\ ZombieChildren(r)' = {} /\ ~killed'[r]
      BY Zenon DEF NoLostChild, InWait
    <3>1. InWait(r)
      BY Zenon, <2>2, <2>3 DEF InWait
    <3>2. Children(r) # {} /\ ZombieChildren(r) = {} /\ ~killed[r]
      BY Zenon, <1>1, <3>1 DEF LiveInv, NoLostChild, InWait
    <3>3. Children(r)' # {}
      BY Zenon, <2>1, <2>3, <3>2 DEF Children, Initialized
    <3>4. ZombieChildren(r)' = {}
      BY Zenon, <2>3, <3>2 DEF ZombieChildren, Children, Initialized
    <3> QED
      BY Zenon, <2>2, <3>2, <3>3, <3>4
  <2>8. \A q \in Slots : Initialized(q)' /\ q # INIT_PROC => parent'[q] # q
    BY Zenon, <1>1, <2>3, <2>5 DEF LiveInv, Initialized
  <2> QED
    BY Zenon, <2>4, <2>5, <2>6, <2>7, <2>8 DEF FamInv, LiveInv
<1> QED
  BY Zenon, <1>2, <1>3

\* wait(): a zombie it reaps has no children, and nobody else waits for it; one
\* that sleeps has children, none of them a zombie.
LEMMA FamWait ==
  ASSUME IInv, FamInv, NEW c \in CPUs, NEW p \in Slots, Reap(c, p) \/ WaitSleeps(c, p)
  PROVE  FamInv'
<1>0. /\ state \in [Slots -> States] /\ chan \in [Slots -> 0..Event] /\ killed \in [Slots -> BOOLEAN]
      /\ parent \in [Slots -> Slots \cup {NoProc}] /\ pid \in [Slots -> 0..MaxPid] /\ next_pid \in 1..(MaxPid + 1)
  BY Zenon DEF IInv, Types, TableOK
<1>1. panic = "none" /\ proc[c] = p /\ pc[p] # "sched" /\ PidInv /\ LiveInv
  BY Zenon DEF Reap, WaitSleeps, Runs, FamInv
<1>2. CASE Reap(c, p)
  <2>1. PICK z \in Slots :
          /\ state[z] = "ZOMBIE" /\ SetStates([state EXCEPT ![z] = "UNUSED"]) /\ pid' = [pid EXCEPT ![z] = 0]
          /\ parent' = [parent EXCEPT ![z] = NoProc] /\ killed' = [killed EXCEPT ![z] = FALSE]
    BY Zenon, <1>2 DEF Reap, Lowest, ZombieChildren, Children
  <2>2. /\ state'[z] = "UNUSED" /\ pid'[z] = 0
        /\ \A q \in Slots : q # z => /\ state'[q] = state[q] /\ parent'[q] = parent[q]
                                     /\ pid'[q] = pid[q] /\ killed'[q] = killed[q]
        /\ \A q \in Slots : state'[q] = "SLEEPING" => chan'[q] = chan[q]
    BY Zenon, <1>0, <2>1 DEF SetStates
  <2>3. 0 < next_pid /\ UNCHANGED next_pid
    BY <1>0, <1>2 DEF Reap
  <2>4. PidInv'
    <3>1. \A q \in Slots : pid'[q] < next_pid' /\ (Initialized(q)' => pid'[q] # 0)
      <4> TAKE q \in Slots
      <4>1. CASE q = z
        BY Zenon, <2>2, <2>3, <4>1 DEF Initialized
      <4>2. CASE q # z
        <5>1. pid'[q] = pid[q] /\ state'[q] = state[q]
          BY Zenon, <2>2, <4>2
        <5> QED
          BY Zenon, <1>1, <2>3, <5>1 DEF PidInv, Initialized
      <4> QED
        BY Zenon, <4>1, <4>2
    <3>2. \A q, r \in Slots : pid'[q] = pid'[r] /\ pid'[q] # 0 => q # z /\ r # z
      BY Zenon, <2>2
    <3>3. \A q, r \in Slots : pid'[q] = pid'[r] /\ pid'[q] # 0 => q = r
      <4> TAKE q, r \in Slots
      <4> HAVE pid'[q] = pid'[r] /\ pid'[q] # 0
      <4>1. pid'[q] = pid[q] /\ pid'[r] = pid[r]
        BY Zenon, <2>2, <3>2
      <4> QED
        BY Zenon, <1>1, <4>1 DEF PidInv
    <3> QED
      BY Zenon, <3>1, <3>3 DEF PidInv
  <2>5. Live(INIT_PROC)'
    BY Zenon, <1>1, <2>1, <2>2, SlotFacts DEF LiveInv, Live
  <2>6. ParentIsLive'
    <3> SUFFICES ASSUME NEW q \in Slots, Initialized(q)'
                 PROVE  parent'[q] \in Slots /\ state'[parent'[q]] \notin {"UNUSED", "ZOMBIE"}
      BY Zenon DEF ParentIsLive
    <3>1. q # z /\ Initialized(q)
      BY Zenon, <2>2 DEF Initialized
    <3>2. parent'[q] = parent[q] /\ parent[q] \in Slots /\ Live(parent[q])
      BY Zenon, <1>1, <2>2, <3>1 DEF LiveInv, ParentIsLive, Live
    <3>3. state'[parent[q]] = state[parent[q]]
      BY Zenon, <2>1, <2>2, <3>2 DEF Live
    <3> QED
      BY Zenon, <3>2, <3>3 DEF Live
  <2>7. NoLostChild'
    <3> SUFFICES ASSUME NEW r \in Slots, InWait(r)'
                 PROVE  Children(r)' # {} /\ ZombieChildren(r)' = {} /\ ~killed'[r]
      BY Zenon DEF NoLostChild, InWait
    <3>1. InWait(r) /\ r # z
      BY Zenon, <2>2 DEF InWait
    <3>2. Children(r) # {} /\ ZombieChildren(r) = {} /\ ~killed[r]
      BY Zenon, <1>1, <3>1 DEF LiveInv, NoLostChild, InWait
    <3>3. Children(r)' # {}
      <4>1. PICK q \in Slots : q \in Children(r)
        BY Zenon, <3>2 DEF Children
      <4>2. q # z
        BY Zenon, <2>1, <3>2, <4>1 DEF ZombieChildren
      <4>3. q \in Children(r)'
        BY Zenon, <2>2, <4>1, <4>2 DEF Children, Initialized
      <4> QED
        BY Zenon, <4>3
    <3>4. ZombieChildren(r)' = {}
      BY Zenon, <2>2, <3>2 DEF ZombieChildren, Children, Initialized
    <3> QED
      BY Zenon, <2>2, <3>1, <3>2, <3>3, <3>4
  <2>8. \A q \in Slots : Initialized(q)' /\ q # INIT_PROC => parent'[q] # q
    BY Zenon, <1>1, <2>2 DEF LiveInv, Initialized
  <2> QED
    BY Zenon, <2>4, <2>5, <2>6, <2>7, <2>8 DEF FamInv, LiveInv
<1>3. CASE WaitSleeps(c, p)
  <2>1. /\ UNCHANGED ids /\ ZombieChildren(p) = {} /\ Children(p) # {} /\ ~killed[p]
        /\ state' = [state EXCEPT ![p] = "SLEEPING"] /\ chan' = [chan EXCEPT ![p] = p]
    BY Zenon, <1>3 DEF WaitSleeps, Leave
  <2>2. state'[p] = "SLEEPING" /\ \A q \in Slots : q # p => state'[q] = state[q] /\ chan'[q] = chan[q]
    BY Zenon, <1>0, <2>1
  <2>3. state[p] = "RUNNING"
    BY Zenon, <1>1, RunnerLives
  <2>4. \A q \in Slots : /\ Initialized(q)' <=> Initialized(q)
                         /\ Live(q)' <=> Live(q)
                         /\ state'[q] = "ZOMBIE" <=> state[q] = "ZOMBIE"
    BY Zenon, <2>2, <2>3 DEF Initialized, Live
  <2>5. \A q \in Slots : Children(q)' = Children(q) /\ ZombieChildren(q)' = ZombieChildren(q)
    BY Zenon, <2>1, <2>4 DEF ids, Children, ZombieChildren
  <2>6. NoLostChild'
    <3> SUFFICES ASSUME NEW r \in Slots, InWait(r)'
                 PROVE  Children(r)' # {} /\ ZombieChildren(r)' = {} /\ ~killed'[r]
      BY Zenon DEF NoLostChild, InWait
    <3>1. Children(r) # {} /\ ZombieChildren(r) = {} /\ ~killed[r]
      BY Zenon, <1>1, <2>1, <2>2 DEF LiveInv, NoLostChild, InWait
    <3> QED
      BY Zenon, <2>1, <2>5, <3>1 DEF ids
  <2>7. ParentIsLive'
    BY Zenon, <1>1, <2>1, <2>4 DEF ids, LiveInv, ParentIsLive, Live
  <2>8. PidInv'
    BY Zenon, <1>1, <2>1, <2>4, TamePids DEF ids
  <2> QED
    BY Zenon, <1>1, <2>1, <2>4, <2>6, <2>7, <2>8, SlotFacts DEF ids, FamInv, LiveInv
<1> QED
  BY Zenon, <1>2, <1>3

\* exit(): its children go to init, and whoever waits for it hears of it.
LEMMA FamExit ==
  ASSUME IInv, FamInv, NEW c \in CPUs, NEW p \in Slots, Exit(c, p)
  PROVE  FamInv'
<1>0. /\ state \in [Slots -> States] /\ parent \in [Slots -> Slots \cup {NoProc}]
  BY Zenon DEF IInv, Types, TableOK
<1>1. panic = "none" /\ proc[c] = p /\ pc[p] # "sched" /\ PidInv /\ LiveInv
  BY Zenon DEF Exit, Runs, FamInv
<1>2. /\ SetStates([Wakeup1(ExitChannels(p)) EXCEPT ![p] = "ZOMBIE"])
      /\ parent' = Reparented(p) /\ UNCHANGED <<pid, killed, next_pid>>
  BY Zenon DEF Exit
<1>3. state[p] = "RUNNING"
  BY Zenon, <1>1, RunnerLives
<1>4. /\ state'[p] = "ZOMBIE"
      /\ \A q \in Slots : q # p =>
           state'[q] = IF state[q] = "SLEEPING" /\ chan[q] \in ExitChannels(p) THEN "RUNNABLE" ELSE state[q]
  BY Zenon, <1>2 DEF SetStates, Wakeup1
<1>5. \A q \in Slots : state'[q] = "SLEEPING" => q # p /\ state[q] = "SLEEPING" /\ chan'[q] = chan[q]
  BY Zenon, <1>2, <1>4 DEF SetStates
<1>6. \A q \in Slots : /\ Initialized(q)' <=> Initialized(q)
                       /\ q # p => ((Live(q)' <=> Live(q)) /\ (state'[q] = "ZOMBIE" <=> state[q] = "ZOMBIE"))
  BY Zenon, <1>3, <1>4 DEF Initialized, Live
<1>7. \A q \in Slots : parent'[q] = IF q \in Children(p) THEN INIT_PROC ELSE parent[q]
  BY Zenon, <1>2 DEF Reparented
<1>8. PidInv'
  BY Zenon, <1>1, <1>2, <1>6, TamePids
<1>9. ASSUME p # INIT_PROC PROVE LiveInv'
  <2>1. Live(INIT_PROC)'
    BY Zenon, <1>1, <1>6, <1>9, SlotFacts DEF LiveInv
  <2>2. p \notin Children(p) /\ parent'[p] = parent[p]
    BY Zenon, <1>1, <1>7, <1>9 DEF LiveInv, Children
  <2>3. ParentIsLive'
    <3> SUFFICES ASSUME NEW q \in Slots, Initialized(q)'
                 PROVE  parent'[q] \in Slots /\ state'[parent'[q]] \notin {"UNUSED", "ZOMBIE"}
      BY Zenon DEF ParentIsLive
    <3>1. CASE q \in Children(p)
      BY Zenon, <1>7, <2>1, <3>1, SlotFacts DEF Live
    <3>2. CASE q \notin Children(p)
      <4>1. parent'[q] = parent[q] /\ parent[q] \in Slots /\ Live(parent[q]) /\ parent[q] # p
        BY Zenon, <1>1, <1>6, <1>7, <3>2 DEF LiveInv, ParentIsLive, Live, Children
      <4> QED
        BY Zenon, <1>6, <4>1 DEF Live
    <3> QED
      BY Zenon, <3>1, <3>2
  <2>4. NoLostChild'
    <3> SUFFICES ASSUME NEW r \in Slots, InWait(r)'
                 PROVE  Children(r)' # {} /\ ZombieChildren(r)' = {} /\ ~killed'[r]
      BY Zenon DEF NoLostChild, InWait
    <3>1. InWait(r) /\ r # p /\ r \notin ExitChannels(p)
      BY Zenon, <1>4, <1>5 DEF InWait
    <3>2. Children(r) # {} /\ ZombieChildren(r) = {} /\ ~killed[r]
      BY Zenon, <1>1, <3>1 DEF LiveInv, NoLostChild, InWait
    <3>3. r # parent[p] /\ (r = INIT_PROC => ZombieChildren(p) = {})
      BY Zenon, <3>1 DEF ExitChannels
    <3>4. Children(r)' # {}
      <4>1. PICK q \in Slots : q \in Children(r)
        BY Zenon, <3>2 DEF Children
      <4>2. q \notin Children(p)
        BY Zenon, <3>1, <4>1 DEF Children
      <4>3. q \in Children(r)'
        BY Zenon, <1>6, <1>7, <4>1, <4>2 DEF Children
      <4> QED
        BY Zenon, <4>3
    <3>5. ASSUME NEW q \in ZombieChildren(r)' PROVE FALSE
      <4>1. q \in Slots /\ Initialized(q) /\ parent'[q] = r /\ state'[q] = "ZOMBIE"
        BY Zenon, <1>6, <3>5 DEF ZombieChildren, Children
      <4>2. q # p /\ state[q] = "ZOMBIE"
        BY Zenon, <1>6, <2>2, <3>3, <4>1
      <4>3. CASE q \in Children(p)
        BY Zenon, <1>7, <3>3, <4>1, <4>2, <4>3 DEF ZombieChildren
      <4>4. CASE q \notin Children(p)
        BY Zenon, <1>7, <3>2, <4>1, <4>2, <4>4 DEF ZombieChildren, Children
      <4> QED
        BY Zenon, <4>3, <4>4
    <3> QED
      BY Zenon, <1>2, <3>2, <3>4, <3>5
  <2>5. \A q \in Slots : Initialized(q)' /\ q # INIT_PROC => parent'[q] # q
    BY Zenon, <1>1, <1>6, <1>7 DEF LiveInv
  <2> QED
    BY Zenon, <2>1, <2>3, <2>4, <2>5 DEF LiveInv
<1>10. panic' = "none" => p # INIT_PROC
  BY Zenon DEF Exit
<1> QED
  BY Zenon, <1>8, <1>9, <1>10 DEF FamInv

\* Every step keeps the family.
LEMMA NextFam == IInv /\ FamInv /\ [Next]_vars => FamInv'
<1> SUFFICES ASSUME IInv, FamInv, [Next]_vars PROVE FamInv'
  OBVIOUS
<1>1. CASE UNCHANGED vars
  <2>1. UNCHANGED table /\ UNCHANGED panic
    BY Zenon, <1>1 DEF vars
  <2>2. PidInv'
    BY Zenon, <2>1, TamePids DEF table, ids, FamInv, Initialized
  <2>3. CASE panic = "none"
    BY Zenon, <2>1, <2>3, FamStill
  <2>4. CASE panic # "none"
    BY Zenon, <2>1, <2>2, <2>4 DEF FamInv
  <2> QED
    BY Zenon, <2>3, <2>4
<1>2. CASE Next
  <2>1. PICK c \in CPUs :
          \/ UserStep(c) \/ CPUStep(c) \/ TimerInterrupt(c) \/ DeviceInterrupt(c) \/ HandlerWakeup(c)
          \/ \E p \in Slots : ThreadStep(c, p) \/ OpenStep(c, p)
    BY Zenon, <1>2 DEF Next
  <2>2. CASE CPUStep(c) \/ DeviceInterrupt(c) \/ HandlerWakeup(c)
    BY Zenon, <2>2, FamMachine
  <2>3. CASE UserStep(c)
    BY Zenon, <2>3, FamThread, FamFork DEF UserStep, Moves
  <2>4. CASE TimerInterrupt(c)
    BY Zenon, <2>4, FamThread DEF TimerInterrupt
  <2>5. ASSUME NEW p \in Slots, ThreadStep(c, p) \/ OpenStep(c, p) PROVE FamInv'
    BY Zenon, <2>5, FamThread, FamWait, FamExit DEF ThreadStep, OpenStep, Moves
  <2> QED
    BY Zenon, <2>1, <2>2, <2>3, <2>4, <2>5
<1> QED
  BY Zenon, <1>1, <1>2

\* Until init exits, no two processes share a pid, every process has a parent
\* that can still wait for it, and none sleeps in wait() with something to do.
THEOREM FamilyHolds == Spec => []FamInv /\ [](NoPanic => FamilyExact)
<1>1. Init => FamInv
  <2> SUFFICES ASSUME Init PROVE FamInv
    OBVIOUS
  <2>1. /\ \A p \in Slots : state[p] = (IF p = INIT_PROC THEN "RUNNABLE" ELSE "UNUSED")
        /\ \A p \in Slots : pid[p] = (IF p = INIT_PROC THEN 1 ELSE 0)
        /\ parent[INIT_PROC] = INIT_PROC /\ next_pid = 2
    BY Zenon, SlotFacts DEF Init
  <2>2. PidInv
    BY <2>1 DEF PidInv, Initialized, INIT_PROC
  <2>3. LiveInv
    BY Zenon, <2>1, SlotFacts DEF LiveInv, Live, ParentIsLive, NoLostChild, Initialized
  <2> QED
    BY Zenon, <2>2, <2>3 DEF FamInv
<1>2. FamInv => (NoPanic => FamilyExact)
  <2> SUFFICES ASSUME FamInv, NoPanic PROVE FamilyExact
    OBVIOUS
  <2>1. UniquePids
    BY Zenon DEF FamInv, PidInv, UniquePids
  <2> QED
    BY Zenon, <2>1 DEF FamInv, NoPanic, LiveInv, FamilyExact
<1> QED
  BY <1>1, <1>2, InvariantHolds, NextFam, PTL DEF Spec
-----------------------------------------------------------------------------
\* Where a step may take the thread of init: never to exit(), if init does not
\* call it and is not killed.
LEMMA InitGoes ==
  ASSUME IInv, StayInv, InitStays, [Next]_vars
  PROVE  pc'[INIT_PROC] # "exit"
<1>0. pc \in [Slots -> Points] /\ pc[INIT_PROC] # "exit" /\ INIT_PROC \in Slots /\ INIT_PROC # NoProc
  BY Zenon, SlotFacts DEF IInv, Types, ThreadsOK, StayInv
<1>1. ASSUME NEW p \in Slots, NEW x, pc' = [pc EXCEPT ![p] = x], p = INIT_PROC => x # "exit"
      PROVE  pc'[INIT_PROC] # "exit"
  BY Zenon, <1>0, <1>1
<1>2. \A next \in {"user", "yield"} : DieIfDead(INIT_PROC, next) = next
  BY Zenon DEF DieIfDead, StayInv
<1>3. ASSUME NEW c \in CPUs, UserStep(c) PROVE pc'[INIT_PROC] # "exit"
  <2>1. ASSUME NEW p \in Slots, ExitCall(c, p) PROVE pc'[INIT_PROC] # "exit"
    <3>1. p # INIT_PROC
      BY Zenon, <2>1 DEF ExitCall, Enter, Calls, InitStays
    <3> QED
      BY Zenon, <1>1, <2>1, <3>1 DEF ExitCall, Enter, Goto
  <2>2. ASSUME NEW p \in Slots, Fork(c, p) PROVE pc'[INIT_PROC] # "exit"
    BY Zenon, <1>0, <2>2 DEF Fork
  <2> QED
    BY Zenon, <1>1, <1>3, <2>1, <2>2 DEF UserStep, ForkFails, ForkAborts, Kill, WaitCall, Enter, Await, Fault, Goto
<1>4. ASSUME NEW c \in CPUs, CPUStep(c) \/ DeviceInterrupt(c) \/ UNCHANGED vars PROVE pc'[INIT_PROC] # "exit"
  BY Zenon, <1>0, <1>4 DEF CPUStep, SchedLock, Dispatch, ScanEnd, DeviceInterrupt, vars, threads
<1>5. ASSUME NEW c \in CPUs, HandlerWakeup(c) PROVE pc'[INIT_PROC] # "exit"
  BY Zenon, <1>0, <1>5 DEF HandlerWakeup, Goto, threads
<1>6. ASSUME NEW c \in CPUs, NEW p \in Slots, Timer(c, p) PROVE pc'[INIT_PROC] # "exit"
  BY Zenon, <1>1, <1>2, <1>6 DEF Timer
<1>7. ASSUME NEW c \in CPUs, NEW p \in Slots, Return(c, p) PROVE pc'[INIT_PROC] # "exit"
  BY Zenon, <1>1, <1>2, <1>7 DEF Return, Goto
<1>8. ASSUME NEW c \in CPUs, NEW p \in Slots, Sched(c, p) \/ Yielded(c, p) PROVE pc'[INIT_PROC] # "exit"
  <2>1. ret[p] # "exit" /\ frame[p] # "exit"
    BY Zenon DEF IInv, SlotInv, ThreadInv, Open
  <2> QED
    BY Zenon, <1>1, <1>8, <2>1 DEF Sched, Yielded
<1>9. ASSUME NEW c \in CPUs, NEW p \in Slots,
             \/ Forkret(c, p) \/ Exit(c, p) \/ Wait(c, p) \/ Reap(c, p) \/ WaitFails(c, p) \/ WaitSleeps(c, p)
             \/ AwaitDone(c, p) \/ AwaitSleeps(c, p) \/ SleepLock(c, p) \/ SleepRelease(c, p)
             \/ SleepState(c, p) \/ Awake(c, p) \/ Yield(c, p) \/ OpenStep(c, p)
      PROVE  pc'[INIT_PROC] # "exit"
  <2>1. PICK x \in Points \ {"exit"} : pc' = [pc EXCEPT ![p] = x]
    <3>1. PICK x \in {"start", "user", "sysret", "wait", "sched", "await", "sleep", "release", "sleeping", "relock"} :
            pc' = [pc EXCEPT ![p] = x]
      BY Zenon, <1>9 DEF Forkret, Exit, Wait, Reap, WaitFails, WaitSleeps, AwaitDone, AwaitSleeps, SleepLock,
         SleepRelease, SleepState, Awake, Yield, OpenStep, Firstret, Syscallret, Relock, Leave, Goto
    <3> QED
      BY Zenon, <3>1 DEF Points
  <2> QED
    BY Zenon, <1>1, <2>1
<1> QED
  BY Zenon, <1>3, <1>4, <1>5, <1>6, <1>7, <1>8, <1>9, ProcAssumption DEF Next, TimerInterrupt, ThreadStep

\* The steps that hand out a pid or kill a process.
LEMMA IdSteps ==
  ASSUME [Next]_vars
  PROVE  \/ UNCHANGED <<pid, killed>>
         \/ \E c \in CPUs, p \in Slots :
              \/ ForkAborts(c, p) \/ Fork(c, p) \/ Fault(c, p) \/ Reap(c, p)
              \/ \E k \in KillPids : Kill(c, p, k)
<1> USE DEF table, ids
<1>1. ASSUME NEW c \in CPUs, UserStep(c)
      PROVE  \/ UNCHANGED <<pid, killed>>
             \/ \E p \in Slots :
                  \/ ForkAborts(c, p) \/ Fork(c, p) \/ Fault(c, p) \/ \E k \in KillPids : Kill(c, p, k)
  BY Zenon, <1>1 DEF UserStep, ForkFails, ExitCall, WaitCall, Await, Enter, Quiet
<1>2. ASSUME NEW c \in CPUs, NEW p \in Slots, ThreadStep(c, p) PROVE UNCHANGED <<pid, killed>> \/ Reap(c, p)
  BY Zenon, <1>2 DEF ThreadStep, Forkret, Return, Wait, WaitFails, WaitSleeps, AwaitDone, AwaitSleeps,
     SleepLock, SleepRelease, SleepState, Awake, Yield, Yielded, Sched, Exit, Leave, Quiet
<1>3. ASSUME NEW c \in CPUs, NEW p \in Slots, OpenStep(c, p) \/ Timer(c, p) PROVE UNCHANGED <<pid, killed>>
  BY Zenon, <1>3 DEF OpenStep, Firstret, Syscallret, Relock, Timer, Quiet
<1>4. ASSUME NEW c \in CPUs, CPUStep(c) \/ DeviceInterrupt(c) \/ HandlerWakeup(c)
      PROVE  UNCHANGED <<pid, killed>>
  BY Zenon, <1>4 DEF CPUStep, SchedLock, Dispatch, ScanEnd, DeviceInterrupt, HandlerWakeup
<1> QED
  BY Zenon, <1>1, <1>2, <1>3, <1>4 DEF Next, TimerInterrupt, vars

\* None of them is about init: its slot is in use, its pid is not killed, and
\* its program does not fault.
LEMMA InitKeepsIds ==
  ASSUME IInv, FamInv, StayInv, InitStays, [Next]_vars
  PROVE  pid'[INIT_PROC] = 1 /\ ~killed'[INIT_PROC]
<1>0. /\ pid \in [Slots -> 0..MaxPid] /\ killed \in [Slots -> BOOLEAN] /\ INIT_PROC \in Slots
      /\ pid[INIT_PROC] = 1 /\ ~killed[INIT_PROC] /\ Live(INIT_PROC)
  BY Zenon, SlotFacts DEF IInv, Types, TableOK, StayInv, FamInv, LiveInv
<1>1. ASSUME NEW c \in CPUs, NEW p \in Slots, ForkAborts(c, p) \/ Fork(c, p)
      PROVE  pid'[INIT_PROC] = 1 /\ ~killed'[INIT_PROC]
  <2>1. PICK np \in Slots : state[np] = "UNUSED" /\ pid' = [pid EXCEPT ![np] = next_pid]
    BY Zenon, <1>1 DEF ForkAborts, Fork, Lowest, Unused
  <2>2. np # INIT_PROC /\ UNCHANGED killed
    BY Zenon, <1>0, <1>1, <2>1 DEF Live, ForkAborts, Fork
  <2> QED
    BY Zenon, <1>0, <2>1, <2>2
<1>2. ASSUME NEW c \in CPUs, NEW p \in Slots, Reap(c, p)
      PROVE  pid'[INIT_PROC] = 1 /\ ~killed'[INIT_PROC]
  <2>1. PICK z \in Slots : /\ state[z] = "ZOMBIE" /\ pid' = [pid EXCEPT ![z] = 0]
                           /\ killed' = [killed EXCEPT ![z] = FALSE]
    BY Zenon, <1>2 DEF Reap, Lowest, ZombieChildren, Children
  <2>2. z # INIT_PROC
    BY Zenon, <1>0, <2>1 DEF Live
  <2> QED
    BY Zenon, <1>0, <2>1, <2>2
<1>3. ASSUME NEW c \in CPUs, NEW p \in Slots, Fault(c, p)
      PROVE  pid'[INIT_PROC] = 1 /\ ~killed'[INIT_PROC]
  <2>1. p # INIT_PROC /\ killed' = [killed EXCEPT ![p] = TRUE] /\ UNCHANGED pid
    BY Zenon, <1>3 DEF Fault, Calls, InitStays
  <2> QED
    BY Zenon, <1>0, <2>1
<1>4. ASSUME NEW c \in CPUs, NEW p \in Slots, NEW k \in KillPids, Kill(c, p, k)
      PROVE  pid'[INIT_PROC] = 1 /\ ~killed'[INIT_PROC]
  <2>1. UNCHANGED pid /\ k # 1
    BY Zenon, <1>4 DEF Kill, InitStays
  <2>2. UNCHANGED killed \/ \E q \in Slots : pid[q] = k /\ killed' = [killed EXCEPT ![q] = TRUE]
    BY Zenon, <1>4 DEF Kill, Lowest
  <2> QED
    BY Zenon, <1>0, <2>1, <2>2
<1> QED
  BY Zenon, <1>0, <1>1, <1>2, <1>3, <1>4, IdSteps

\* The asserts of sched() and of exit() hold: while init stays in its loop, as
\* cmd/init.c does as long as its forks succeed, and no kill() names it, nothing
\* the other processes do panics, and the family is exact for ever.
THEOREM NeverPanics ==
  ASSUME InitStays
  PROVE  Spec => []NoPanic /\ []FamilyExact
<1>1. Init => StayInv
  BY Zenon, SlotFacts DEF Init, StayInv
<1>2. IInv /\ FamInv /\ StayInv /\ [Next]_vars => StayInv'
  <2> SUFFICES ASSUME IInv, FamInv, StayInv, [Next]_vars PROVE StayInv'
    OBVIOUS
  <2>1. Types'
    BY Zenon, TypesInductive DEF IInv
  <2>2. ASSUME NEW c \in CPUs, NEW p \in Slots, Sched(c, p) \/ Exit(c, p) PROVE panic' = "none"
    <3>1. CASE Sched(c, p)
      BY Zenon, <2>1, <3>1, SchedStep DEF Sched
    <3>2. CASE Exit(c, p)
      BY Zenon, <3>2 DEF Exit, Runs, StayInv
    <3> QED
      BY Zenon, <2>2, <3>1, <3>2
  <2>3. panic' = "none"
    BY Zenon, <2>2, PanicSteps DEF StayInv
  <2> QED
    BY Zenon, <2>3, InitGoes, InitKeepsIds DEF StayInv
<1>3. StayInv => NoPanic
  BY Zenon DEF StayInv, NoPanic
<1> QED
  BY <1>1, <1>2, <1>3, InvariantHolds, FamilyHolds, PTL DEF Spec
=============================================================================
