------------------------------ MODULE Spinlock ------------------------------
(***************************************************************************)
(* Spinlocks (kernel/src/spinlock.rs) together with the per-CPU interrupt  *)
(* bookkeeping they rest on (push_intr_disable and pop_intr_disable of     *)
(* kernel/src/x86_64.rs), at the grain of single loads, stores and xswaps. *)
(*                                                                         *)
(* A CPU runs kernel code (pc = "run") that calls acquire(), release() and *)
(* holding().  While its interrupt flag is on it may be interrupted at any *)
(* instruction; the handler is kernel code too and returns holding no      *)
(* lock.  The interrupted call is kept in frame[c], the trap frame.        *)
(***************************************************************************)
EXTENDS Naturals, FiniteSets

CONSTANTS CPUs, Locks,
          LockOrder,   \* <<a, b>>: the kernel acquires b while it holds a
          NoCPU        \* the cpu field's -1

ASSUME LockAssumption ==
  /\ NoCPU \notin CPUs
  /\ IsFiniteSet(Locks) /\ Locks # {}
  /\ LockOrder \subseteq Locks \X Locks

Calls == {"none", "acquire", "release", "holding"}
Points == {"run", "push", "cli", "hpush", "hcli", "hlocked", "hcpu", "hpop",
           "xswap", "setcpu", "clearcpu", "unlock", "pop"}
AnyLock == CHOOSE l \in Locks : TRUE

VARIABLES
  locked,     \* Spinlock.locked, 0 or 1
  cpu,        \* Spinlock.cpu
  IF_flag,    \* RFLAGS.IF of each CPU
  ncli,       \* CPU.ncli
  saved,      \* CPU.saved_intr_status
  pc, call, arg,   \* where each CPU is, in which call, on which lock
  enabled,    \* the local of push_intr_disable
  result,     \* what holding() has read so far
  frame,      \* the interrupted call of each CPU
  held,       \* the guards alive on each CPU: locks whose acquire returned
  base,       \* the interrupt flag the CPU's code outside any lock runs with
  panicked    \* an assert! of these files failed

lockVars == <<locked, cpu>>
intrVars == <<IF_flag, ncli, saved>>
callVars == <<pc, call, arg, enabled, result>>
ctxVars == <<frame, base, panicked>>
vars == <<lockVars, intrVars, callVars, ctxVars, held>>

Frame == [pc : Points \cup {"none"}, call : Calls, arg : Locks, enabled : BOOLEAN]
NoFrame == [pc |-> "none", call |-> "none", arg |-> AnyLock, enabled |-> FALSE]
InHandler(c) == frame[c].pc # "none"

Init ==
  /\ locked = [l \in Locks |-> 0]
  /\ cpu = [l \in Locks |-> NoCPU]
  /\ base \in [CPUs -> BOOLEAN]
  /\ IF_flag = base
  /\ ncli = [c \in CPUs |-> 0]
  /\ saved = [c \in CPUs |-> FALSE]
  /\ pc = [c \in CPUs |-> "run"]
  /\ call = [c \in CPUs |-> "none"]
  /\ arg = [c \in CPUs |-> AnyLock]
  /\ enabled = [c \in CPUs |-> FALSE]
  /\ result = [c \in CPUs |-> FALSE]
  /\ frame = [c \in CPUs |-> NoFrame]
  /\ held = [c \in CPUs |-> {}]
  /\ panicked = FALSE

At(c, p) == pc[c] = p /\ ~panicked

Goto(c, p) == pc' = [pc EXCEPT ![c] = p] /\ UNCHANGED <<call, arg, enabled, result>>

Enter(c, p, op, l, e) ==
  /\ pc' = [pc EXCEPT ![c] = p]
  /\ call' = [call EXCEPT ![c] = op]
  /\ arg' = [arg EXCEPT ![c] = l]
  /\ enabled' = [enabled EXCEPT ![c] = e]
  /\ result' = [result EXCEPT ![c] = FALSE]

Return(c) == Enter(c, "run", "none", AnyLock, FALSE)
-----------------------------------------------------------------------------
(* Calls made by kernel code, which follows the kernel's lock order and    *)
(* releases only what it acquired.                                         *)

CallAcquire(c, l) ==
  /\ At(c, "run")
  /\ l \notin held[c]
  /\ \A h \in held[c] : <<h, l>> \in LockOrder
  /\ Enter(c, "push", "acquire", l, FALSE)
  /\ UNCHANGED <<lockVars, intrVars, ctxVars, held>>

CallRelease(c, l) ==
  /\ At(c, "run")
  /\ l \in held[c]
  /\ Enter(c, "hpush", "release", l, FALSE)
  /\ UNCHANGED <<lockVars, intrVars, ctxVars, held>>

CallHolding(c, l) ==
  /\ At(c, "run")
  /\ Enter(c, "hpush", "holding", l, FALSE)
  /\ UNCHANGED <<lockVars, intrVars, ctxVars, held>>

(* push_intr_disable: the flag is read, and only then cleared: an          *)
(* interrupt can be taken in between.  It is called first by acquire and   *)
(* then, nested, by holding.                                               *)
PushRead(c, at, next) ==
  /\ At(c, at)
  /\ enabled' = [enabled EXCEPT ![c] = IF_flag[c]]
  /\ pc' = [pc EXCEPT ![c] = next]
  /\ UNCHANGED <<lockVars, intrVars, ctxVars, held, call, arg, result>>

PushCli(c, at, next) ==
  /\ At(c, at)
  /\ IF_flag' = [IF_flag EXCEPT ![c] = FALSE]
  /\ saved' = [saved EXCEPT ![c] = IF ncli[c] = 0 THEN enabled[c] ELSE @]
  /\ ncli' = [ncli EXCEPT ![c] = @ + 1]
  /\ Goto(c, next)
  /\ UNCHANGED <<lockVars, ctxVars, held>>

(* pop_intr_disable: its two asserts (the second stops an underflow), and  *)
(* what it does when they hold.                                            *)
PopOK(c) == ~IF_flag[c] /\ ncli[c] # 0

\* Mutant: every pop restores the flag, not only the outermost.
PopIgnoresNesting(c) ==
  /\ ncli' = [ncli EXCEPT ![c] = IF @ # 0 THEN @ - 1 ELSE @]
  /\ IF_flag' = [IF_flag EXCEPT ![c] = saved[c]]
  /\ UNCHANGED saved

PopEffect(c) ==
  /\ ncli' = [ncli EXCEPT ![c] = IF @ # 0 THEN @ - 1 ELSE @]
  /\ IF_flag' = [IF_flag EXCEPT ![c] = ncli[c] = 1 /\ saved[c]]
  /\ UNCHANGED saved

(* holding(): the two fields of the lock are read one after the other,     *)
(* while other CPUs change them.                                           *)
HoldingReadLocked(c) ==
  /\ At(c, "hlocked")
  /\ result' = [result EXCEPT ![c] = locked[arg[c]] # 0]
  /\ pc' = [pc EXCEPT ![c] = "hcpu"]
  /\ UNCHANGED <<lockVars, intrVars, ctxVars, held, call, arg, enabled>>

HoldingReadCpu(c) ==
  /\ At(c, "hcpu")
  /\ result' = [result EXCEPT ![c] = result[c] /\ cpu[arg[c]] = c]
  /\ pc' = [pc EXCEPT ![c] = "hpop"]
  /\ UNCHANGED <<lockVars, intrVars, ctxVars, held, call, arg, enabled>>

\* What the caller of holding() asserts: "nested lock", "unlocking unheld lock".
AnswerOK(c) ==
  /\ call[c] = "acquire" => ~result[c]
  /\ call[c] = "release" => result[c]

HoldingPop(c) ==
  /\ At(c, "hpop")
  /\ PopEffect(c)
  /\ \/ call[c] = "acquire" /\ Goto(c, "xswap")
     \/ call[c] = "release" /\ Goto(c, "clearcpu")
     \/ call[c] = "holding" /\ Return(c)
  /\ panicked' = ~(PopOK(c) /\ AnswerOK(c))
  /\ UNCHANGED <<lockVars, frame, base, held>>

\* Mutant: the value xswap returned is ignored.
XswapIgnored(c) ==
  /\ At(c, "xswap")
  /\ locked' = [locked EXCEPT ![arg[c]] = 1]
  /\ Goto(c, "setcpu")
  /\ UNCHANGED <<cpu, intrVars, ctxVars, held>>

(* acquire(): one turn of the xswap loop that finds the lock free; a turn  *)
(* that finds it taken stores the 1 that is already there.                 *)
XswapAcquire(c) ==
  /\ At(c, "xswap")
  /\ locked[arg[c]] = 0
  /\ locked' = [locked EXCEPT ![arg[c]] = 1]
  /\ Goto(c, "setcpu")
  /\ UNCHANGED <<cpu, intrVars, ctxVars, held>>

SetCpu(c) ==
  /\ At(c, "setcpu")
  /\ cpu' = [cpu EXCEPT ![arg[c]] = c]
  /\ held' = [held EXCEPT ![c] = @ \cup {arg[c]}]
  /\ Return(c)
  /\ UNCHANGED <<locked, intrVars, ctxVars>>

\* Mutant: release() leaves the cpu field behind.
ClearCpuSkipped(c) ==
  /\ At(c, "clearcpu")
  /\ Goto(c, "unlock")
  /\ UNCHANGED <<locked, cpu, intrVars, ctxVars, held>>

(* release(), after its assert. *)
ClearCpu(c) ==
  /\ At(c, "clearcpu")
  /\ cpu' = [cpu EXCEPT ![arg[c]] = NoCPU]
  /\ Goto(c, "unlock")
  /\ UNCHANGED <<locked, intrVars, ctxVars, held>>

XswapRelease(c) ==
  /\ At(c, "unlock")
  /\ locked' = [locked EXCEPT ![arg[c]] = 0]
  /\ held' = [held EXCEPT ![c] = @ \ {arg[c]}]
  /\ Goto(c, "pop")
  /\ UNCHANGED <<cpu, intrVars, ctxVars>>

ReleasePop(c) ==
  /\ At(c, "pop")
  /\ PopEffect(c)
  /\ Return(c)
  /\ panicked' = ~PopOK(c)
  /\ UNCHANGED <<lockVars, frame, base, held>>
-----------------------------------------------------------------------------
(* An interrupt: an interrupt gate clears IF; iretq restores the saved     *)
(* flags, in which IF was on.                                              *)

Interrupt(c) ==
  /\ IF_flag[c] /\ ~panicked
  /\ frame' = [frame EXCEPT ![c] = [pc |-> pc[c], call |-> call[c], arg |-> arg[c],
                                    enabled |-> enabled[c]]]
  /\ IF_flag' = [IF_flag EXCEPT ![c] = FALSE]
  /\ Return(c)
  /\ UNCHANGED <<lockVars, ncli, saved, held, base, panicked>>

Iret(c) ==
  /\ At(c, "run")
  /\ InHandler(c)
  /\ held[c] = {}
  /\ Enter(c, frame[c].pc, frame[c].call, frame[c].arg, frame[c].enabled)
  /\ frame' = [frame EXCEPT ![c] = NoFrame]
  /\ IF_flag' = [IF_flag EXCEPT ![c] = TRUE]
  /\ UNCHANGED <<lockVars, ncli, saved, held, base, panicked>>

\* The steps of a lock call, which the CPU takes one after the other.
Step(c) ==
  \/ PushRead(c, "push", "cli")
  \/ PushCli(c, "cli", "hpush")
  \/ PushRead(c, "hpush", "hcli")
  \/ PushCli(c, "hcli", "hlocked")
  \/ HoldingReadLocked(c)
  \/ HoldingReadCpu(c)
  \/ HoldingPop(c)
  \/ SetCpu(c)
  \/ ClearCpu(c)
  \/ XswapRelease(c)
  \/ ReleasePop(c)

Next == \E c \in CPUs :
  \/ Step(c)
  \/ XswapAcquire(c)
  \/ Interrupt(c)
  \/ Iret(c)
  \/ \E l \in Locks : CallAcquire(c, l) \/ CallRelease(c, l) \/ CallHolding(c, l)

Spec == Init /\ [][Next]_vars
-----------------------------------------------------------------------------
\* Every variable has a value of its type; ncli has not underflowed.
TypeOK ==
  /\ locked \in [Locks -> {0, 1}]
  /\ cpu \in [Locks -> CPUs \cup {NoCPU}]
  /\ IF_flag \in [CPUs -> BOOLEAN]
  /\ ncli \in [CPUs -> Nat]
  /\ saved \in [CPUs -> BOOLEAN]
  /\ pc \in [CPUs -> Points]
  /\ call \in [CPUs -> Calls]
  /\ arg \in [CPUs -> Locks]
  /\ enabled \in [CPUs -> BOOLEAN]
  /\ result \in [CPUs -> BOOLEAN]
  /\ frame \in [CPUs -> Frame]
  /\ held \in [CPUs -> SUBSET Locks]
  /\ base \in [CPUs -> BOOLEAN]
  /\ panicked \in BOOLEAN

\* c is between the xswap that took l and the xswap that gives it back.
Owns(c, l) == l \in held[c] \/ (pc[c] = "setcpu" /\ arg[c] = l)

\* A lock protects its data: no two CPUs are past acquire's xswap and before
\* release's xswap on the same lock, whatever the interleaving.
MutualExclusion ==
  \A l \in Locks : \A c, d \in CPUs : Owns(c, l) /\ Owns(d, l) => c = d

\* holding() answers exactly whether this CPU holds the lock, although it
\* reads locked and cpu at two different moments while others change them.
HoldingExact ==
  \A c \in CPUs : pc[c] = "hpop" => (result[c] <=> arg[c] \in held[c])

\* None of the assert!s in acquire, release and pop_intr_disable fires for
\* callers that follow the lock order and release what they acquired.
NoAssertFails == ~panicked

\* holding() never lies, so no assert! of the lock code fires.
HoldingSound == TypeOK /\ HoldingExact /\ NoAssertFails

\* The critical section of a spinlock runs with interrupts off, so that no
\* handler on this CPU can spin on a lock the code it interrupted holds.
InterruptsOffWhileHeld ==
  \A c \in CPUs : (\E l \in Locks : Owns(c, l)) => ~IF_flag[c]

\* Code that holds no lock and is in no lock call runs with the interrupt
\* flag it started with: nested acquires and releases, in any order, and
\* handlers that come in between restore it exactly.
InterruptFlagRestored ==
  \A c \in CPUs : pc[c] = "run" /\ held[c] = {} =>
    (IF_flag[c] <=> base[c] /\ ~InHandler(c))

\* Interrupts are off in every critical section, and as they were after the
\* last one.
InterruptsExact == InterruptsOffWhileHeld /\ InterruptFlagRestored

\* The spinlock is an abstract lock owned by the CPU past acquire's xswap.
owner == [l \in Locks |-> IF \E c \in CPUs : Owns(c, l)
                          THEN CHOOSE c \in CPUs : Owns(c, l) ELSE NoCPU]
Abstract == INSTANCE AbstractLock
ImplementsAbstractLock == Abstract!Spec
-----------------------------------------------------------------------------
(* The inductive invariant behind the safety properties.                   *)

\* Interrupt disables a call has pushed and not yet popped.
InFlight(c) ==
  (IF call[c] = "acquire" /\ pc[c] \notin {"push", "cli"} THEN 1 ELSE 0)
  + (IF pc[c] \in {"hlocked", "hcpu", "hpop", "pop"} THEN 1 ELSE 0)

\* The flag the running context, thread or handler, has outside any lock.
ContextFlag(c) == base[c] /\ ~InHandler(c)

Shape(p, op) ==
  /\ p = "run" <=> op = "none"
  /\ p \in {"push", "cli", "xswap", "setcpu"} => op = "acquire"
  /\ p \in {"clearcpu", "unlock", "pop"} => op = "release"

GuardInv(c) ==
  /\ call[c] = "acquire" => arg[c] \notin held[c]
  /\ call[c] = "release" /\ pc[c] # "pop" => arg[c] \in held[c]

\* Only code outside any critical section is ever interrupted.
FrameInv(c) == InHandler(c) =>
  /\ base[c]
  /\ Shape(frame[c].pc, frame[c].call)
  /\ frame[c].call # "release"
  /\ frame[c].pc \in {"run", "push", "cli", "hpush", "hcli"}
  /\ frame[c].pc \in {"hpush", "hcli"} => frame[c].call = "holding"
  /\ frame[c].pc \in {"cli", "hcli"} => frame[c].enabled

CountInv(c) == ncli[c] = Cardinality(held[c]) + InFlight(c)

FlagInv(c) ==
  /\ ncli[c] # 0 => ~IF_flag[c] /\ (saved[c] <=> ContextFlag(c))
  /\ ncli[c] = 0 => (IF_flag[c] <=> ContextFlag(c))
  /\ ncli[c] = 0 /\ pc[c] \in {"cli", "hcli"} => (enabled[c] <=> ContextFlag(c))

ReadInv(c) ==
  /\ pc[c] = "hcpu" /\ arg[c] \in held[c] => result[c]
  /\ pc[c] = "hpop" => (result[c] <=> arg[c] \in held[c])

LocalInv(c) ==
  /\ Shape(pc[c], call[c])
  /\ GuardInv(c)
  /\ FrameInv(c)
  /\ CountInv(c)
  /\ FlagInv(c)
  /\ ReadInv(c)

FieldsInv ==
  /\ \A l \in Locks, c \in CPUs : Owns(c, l) => locked[l] = 1
  /\ \A l \in Locks : locked[l] = 1 => \E c \in CPUs : Owns(c, l)
  /\ \A l \in Locks, c \in CPUs :
       cpu[l] = c <=> l \in held[c] /\ ~(pc[c] = "unlock" /\ arg[c] = l)

IInv ==
  /\ TypeOK
  /\ \A c \in CPUs : LocalInv(c)
  /\ FieldsInv
  /\ MutualExclusion
  /\ ~panicked
=============================================================================
