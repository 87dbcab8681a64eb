--------------------------- MODULE SpinlockProofs ---------------------------
(***************************************************************************)
(* The inductive invariant IInv of Spinlock, for every set of CPUs, every  *)
(* finite set of locks and every lock order; the safety properties that    *)
(* follow from it; and the refinement of AbstractLock.                     *)
(*                                                                         *)
(* The lemma of an action that writes no lock field first lists what the   *)
(* step does to the CPU that takes it (<1>2) and then shows that the local *)
(* invariant of that CPU survives (<1>3); the rest is QuietStep.  The      *)
(* steps that write the fields of a lock or enter and leave an interrupt   *)
(* handler come next, then Init, and then the theorems.                    *)
(***************************************************************************)
EXTENDS Spinlock, FiniteSetTheorems, TLAPS

\* There is a lock for AnyLock to denote.
LEMMA AnyLockType == AnyLock \in Locks
  BY Zenon, LockAssumption DEF AnyLock

\* Every step keeps the fields of the locks, the per-CPU interrupt state and
\* the calls within their types.
LEMMA TypeInductive == TypeOK /\ [Next]_vars => TypeOK'
<1> SUFFICES ASSUME TypeOK, [Next]_vars PROVE TypeOK'
  OBVIOUS
<1> USE AnyLockType DEF TypeOK, lockVars, intrVars, ctxVars
<1>1. CASE UNCHANGED vars
  BY Zenon, <1>1 DEF vars, callVars
<1>2. ASSUME NEW c \in CPUs, NEW l \in Locks, CallAcquire(c, l)
      PROVE  TypeOK'
  BY Zenon, <1>2 DEF CallAcquire, Enter, Points, Calls
<1>3. ASSUME NEW c \in CPUs, NEW l \in Locks, CallRelease(c, l)
      PROVE  TypeOK'
  BY Zenon, <1>3 DEF CallRelease, Enter, Points, Calls
<1>4. ASSUME NEW c \in CPUs, NEW l \in Locks, CallHolding(c, l)
      PROVE  TypeOK'
  BY Zenon, <1>4 DEF CallHolding, Enter, Points, Calls
<1>5. ASSUME NEW c \in CPUs, Interrupt(c)
      PROVE  TypeOK'
  BY Zenon, <1>5 DEF Interrupt, Return, Enter, Frame, Points, Calls
<1>6. ASSUME NEW c \in CPUs, Iret(c)
      PROVE  TypeOK'
  BY Zenon, <1>6 DEF Iret, Enter, Frame, NoFrame, InHandler, Calls
<1>7. ASSUME NEW c \in CPUs, NEW at, NEW next \in Points, PushRead(c, at, next)
      PROVE  TypeOK'
  BY Zenon, <1>7 DEF PushRead
<1>8. ASSUME NEW c \in CPUs, NEW at, NEW next \in Points, PushCli(c, at, next)
      PROVE  TypeOK'
  BY <1>8 DEF PushCli, Goto
<1>9. ASSUME NEW c \in CPUs, HoldingReadLocked(c)
      PROVE  TypeOK'
  BY Zenon, <1>9 DEF HoldingReadLocked, Points
<1>10. ASSUME NEW c \in CPUs, HoldingReadCpu(c)
       PROVE  TypeOK'
  BY Zenon, <1>10 DEF HoldingReadCpu, Points
<1>11. ASSUME NEW c \in CPUs, HoldingPop(c)
       PROVE  TypeOK'
  <2>1. (IF_flag \in [CPUs -> BOOLEAN] /\ ncli \in [CPUs -> Nat])'
    BY <1>11 DEF HoldingPop, PopEffect, PopOK
  <2>2. CASE Goto(c, "xswap") \/ Goto(c, "clearcpu")
    BY Zenon, <1>11, <2>1, <2>2 DEF HoldingPop, PopEffect, Goto, Points
  <2>3. CASE Return(c)
    BY Zenon, <1>11, <2>1, <2>3 DEF HoldingPop, PopEffect, Return, Enter, Points, Calls
  <2> QED
    BY Zenon, <1>11, <2>2, <2>3 DEF HoldingPop
<1>13. ASSUME NEW c \in CPUs, XswapAcquire(c)
       PROVE  TypeOK'
  BY Zenon, <1>13 DEF XswapAcquire, Goto, Points
<1>14. ASSUME NEW c \in CPUs, SetCpu(c)
       PROVE  TypeOK'
  BY <1>14 DEF SetCpu, Return, Enter, Points, Calls
<1>15. ASSUME NEW c \in CPUs, ClearCpu(c)
       PROVE  TypeOK'
  BY Zenon, <1>15 DEF ClearCpu, Goto, Points
<1>16. ASSUME NEW c \in CPUs, XswapRelease(c)
       PROVE  TypeOK'
  BY Zenon, <1>16 DEF XswapRelease, Goto, Points
<1>17. ASSUME NEW c \in CPUs, ReleasePop(c)
       PROVE  TypeOK'
  <2>1. (IF_flag \in [CPUs -> BOOLEAN] /\ ncli \in [CPUs -> Nat])'
    BY <1>17 DEF ReleasePop, PopEffect
  <2>2. (panicked \in BOOLEAN)'
    BY Zenon, <1>17 DEF ReleasePop, PopOK
  <2> QED
    BY Zenon, <1>17, <2>1, <2>2 DEF ReleasePop, PopEffect, Return, Enter, Points, Calls
<1> QED
  BY Zenon, <1>1, <1>2, <1>3, <1>4, <1>5, <1>6, <1>7, <1>8, <1>9,
     <1>10, <1>11, <1>13, <1>14, <1>15, <1>16, <1>17, Zenon
  DEF Next, Step, Points

\* The sets of guards are finite, so that ncli can count them.
LEMMA HeldFinite ==
  ASSUME TypeOK, NEW c \in CPUs
  PROVE  /\ IsFiniteSet(held[c])
         /\ Cardinality(held[c]) \in Nat
         /\ Cardinality(held[c]) = 0 <=> held[c] = {}
<1>1. IsFiniteSet(held[c])
  BY LockAssumption, FS_Subset DEF TypeOK
<1> QED
  BY Zenon, <1>1, FS_CardinalityType, FS_EmptySet

\* The state LocalInv(d) speaks of.
Same(d) ==
  /\ pc'[d] = pc[d] /\ call'[d] = call[d] /\ arg'[d] = arg[d]
  /\ enabled'[d] = enabled[d] /\ result'[d] = result[d]
  /\ held'[d] = held[d] /\ frame'[d] = frame[d] /\ base'[d] = base[d]
  /\ IF_flag'[d] = IF_flag[d] /\ ncli'[d] = ncli[d] /\ saved'[d] = saved[d]

\* A step of one CPU leaves the local invariant of the others alone.
LEMMA OtherCPU ==
  ASSUME NEW d \in CPUs, LocalInv(d), Same(d)
  PROVE  LocalInv(d)'
  BY DEF LocalInv, Same, Shape, GuardInv, FrameInv, CountInv, FlagInv, ReadInv,
         InFlight, ContextFlag, InHandler

\* A step that neither takes nor gives back a lock keeps the fields and the
\* exclusion.
LEMMA FieldsUntouched ==
  ASSUME IInv, NEW c \in CPUs, UNCHANGED <<lockVars, held>>,
         \A d \in CPUs \ {c} : Same(d),
         pc[c] \notin {"setcpu", "unlock"}, pc'[c] \notin {"setcpu", "unlock"}
  PROVE  FieldsInv' /\ MutualExclusion'
<1>1. \A d \in CPUs, l \in Locks : Owns(d, l)' <=> Owns(d, l)
  BY Zenon DEF Same, Owns, lockVars
<1>2. \A d \in CPUs, l \in Locks :
        (pc'[d] = "unlock" /\ arg'[d] = l) <=> (pc[d] = "unlock" /\ arg[d] = l)
  BY Zenon DEF Same, lockVars
<1> QED
  BY <1>1, <1>2 DEF IInv, FieldsInv, MutualExclusion, lockVars

\* A step that writes no lock field needs only its own CPU's local invariant.
LEMMA QuietStep ==
  ASSUME IInv, TypeOK', NEW c \in CPUs, LocalInv(c)',
         \A d \in CPUs \ {c} : Same(d),
         UNCHANGED <<lockVars, held>>, ~panicked',
         pc[c] \notin {"setcpu", "unlock"}, pc'[c] \notin {"setcpu", "unlock"}
  PROVE  IInv'
<1>1. FieldsInv' /\ MutualExclusion'
  BY Zenon, FieldsUntouched
<1> QED
  BY Zenon, <1>1, OtherCPU DEF IInv

\* The call of acquire() only enters it: no lock, flag or counter changes.
LEMMA CallAcquireInductive ==
  ASSUME IInv, TypeOK', NEW c \in CPUs, NEW l \in Locks, CallAcquire(c, l)
  PROVE  IInv'
<1>1. TypeOK /\ LocalInv(c) /\ ~panicked
  BY Zenon DEF IInv
<1>2. /\ \A d \in CPUs \ {c} : Same(d)
      /\ pc[c] = "run" /\ l \notin held[c]
      /\ pc'[c] = "push" /\ call'[c] = "acquire" /\ arg'[c] = l
      /\ UNCHANGED <<lockVars, held, ncli, IF_flag, saved, frame, base, panicked>>
  BY <1>1 DEF CallAcquire, Enter, At, TypeOK, intrVars, ctxVars, Same
<1>3. LocalInv(c)'
  BY Zenon, <1>1, <1>2, HeldFinite DEF LocalInv, Shape, GuardInv, FrameInv, CountInv, InFlight,
     FlagInv, ContextFlag, InHandler, ReadInv
<1> QED
  BY Zenon, <1>1, <1>2, <1>3, QuietStep

\* The call of release() enters it on a lock whose guard is alive.
LEMMA CallReleaseInductive ==
  ASSUME IInv, TypeOK', NEW c \in CPUs, NEW l \in Locks, CallRelease(c, l)
  PROVE  IInv'
<1>1. TypeOK /\ LocalInv(c) /\ ~panicked
  BY Zenon DEF IInv
<1>2. /\ \A d \in CPUs \ {c} : Same(d)
      /\ pc[c] = "run" /\ l \in held[c]
      /\ pc'[c] = "hpush" /\ call'[c] = "release" /\ arg'[c] = l
      /\ UNCHANGED <<lockVars, held, ncli, IF_flag, saved, frame, base, panicked>>
  BY <1>1 DEF CallRelease, Enter, At, TypeOK, intrVars, ctxVars, Same
<1>3. LocalInv(c)'
  BY Zenon, <1>1, <1>2, HeldFinite DEF LocalInv, Shape, GuardInv, FrameInv, CountInv, InFlight,
     FlagInv, ContextFlag, InHandler, ReadInv
<1> QED
  BY Zenon, <1>1, <1>2, <1>3, QuietStep

\* The call of holding() enters it on any lock.
LEMMA CallHoldingInductive ==
  ASSUME IInv, TypeOK', NEW c \in CPUs, NEW l \in Locks, CallHolding(c, l)
  PROVE  IInv'
<1>1. TypeOK /\ LocalInv(c) /\ ~panicked
  BY Zenon DEF IInv
<1>2. /\ \A d \in CPUs \ {c} : Same(d)
      /\ pc[c] = "run"
      /\ pc'[c] = "hpush" /\ call'[c] = "holding" /\ arg'[c] = l
      /\ UNCHANGED <<lockVars, held, ncli, IF_flag, saved, frame, base, panicked>>
  BY <1>1 DEF CallHolding, Enter, At, TypeOK, intrVars, ctxVars, Same
<1>3. LocalInv(c)'
  BY Zenon, <1>1, <1>2, HeldFinite DEF LocalInv, Shape, GuardInv, FrameInv, CountInv, InFlight,
     FlagInv, ContextFlag, InHandler, ReadInv
<1> QED
  BY Zenon, <1>1, <1>2, <1>3, QuietStep

\* acquire's push_intr_disable samples the flag of the running context.
LEMMA PushRead1Inductive ==
  ASSUME IInv, TypeOK', NEW c \in CPUs, PushRead(c, "push", "cli")
  PROVE  IInv'
<1>1. TypeOK /\ LocalInv(c) /\ ~panicked
  BY Zenon DEF IInv
<1>2. /\ \A d \in CPUs \ {c} : Same(d)
      /\ pc[c] = "push" /\ pc'[c] = "cli"
      /\ enabled'[c] = IF_flag[c] /\ ncli[c] \in Nat
      /\ UNCHANGED <<lockVars, held, ncli, IF_flag, saved, frame, base, panicked, call, arg, result>>
  BY Zenon, <1>1 DEF PushRead, At, TypeOK, intrVars, ctxVars, Same
<1>3. LocalInv(c)'
  BY Zenon, <1>1, <1>2, HeldFinite DEF LocalInv, Shape, GuardInv, FrameInv, CountInv, InFlight,
     FlagInv, ContextFlag, InHandler, ReadInv
<1> QED
  BY Zenon, <1>1, <1>2, <1>3, QuietStep

\* holding's nested push_intr_disable samples it again, already off or not.
LEMMA PushRead2Inductive ==
  ASSUME IInv, TypeOK', NEW c \in CPUs, PushRead(c, "hpush", "hcli")
  PROVE  IInv'
<1>1. TypeOK /\ LocalInv(c) /\ ~panicked
  BY Zenon DEF IInv
<1>2. /\ \A d \in CPUs \ {c} : Same(d)
      /\ pc[c] = "hpush" /\ pc'[c] = "hcli"
      /\ enabled'[c] = IF_flag[c] /\ ncli[c] \in Nat
      /\ UNCHANGED <<lockVars, held, ncli, IF_flag, saved, frame, base, panicked, call, arg, result>>
  BY Zenon, <1>1 DEF PushRead, At, TypeOK, intrVars, ctxVars, Same
<1>3. LocalInv(c)'
  BY Zenon, <1>1, <1>2, HeldFinite DEF LocalInv, Shape, GuardInv, FrameInv, CountInv, InFlight,
     FlagInv, ContextFlag, InHandler, ReadInv
<1> QED
  BY Zenon, <1>1, <1>2, <1>3, QuietStep

\* acquire's push saves the sampled flag exactly when it is the outermost.
LEMMA PushCli1Inductive ==
  ASSUME IInv, TypeOK', NEW c \in CPUs, PushCli(c, "cli", "hpush")
  PROVE  IInv'
<1>1. TypeOK /\ LocalInv(c) /\ ~panicked
  BY Zenon DEF IInv
<1>2. /\ \A d \in CPUs \ {c} : Same(d)
      /\ pc[c] = "cli" /\ pc'[c] = "hpush"
      /\ ncli[c] \in Nat /\ ncli'[c] = ncli[c] + 1 /\ ~IF_flag'[c]
      /\ saved'[c] = IF ncli[c] = 0 THEN enabled[c] ELSE saved[c]
      /\ UNCHANGED <<lockVars, held, frame, base, panicked, call, arg, enabled, result>>
  BY Zenon, <1>1 DEF PushCli, Goto, At, TypeOK, intrVars, ctxVars, Same
<1>3. LocalInv(c)'
  <2>1. Shape(pc[c], call[c])' /\ GuardInv(c)' /\ FrameInv(c)' /\ ReadInv(c)'
    BY Zenon, <1>1, <1>2 DEF LocalInv, Shape, GuardInv, FrameInv, InHandler, ReadInv
  <2>2. CountInv(c)'
    BY <1>1, <1>2, HeldFinite DEF LocalInv, Shape, CountInv, InFlight
  <2>3. FlagInv(c)'
    BY <1>1, <1>2 DEF LocalInv, Shape, FlagInv, ContextFlag, InHandler
  <2> QED
    BY Zenon, <2>1, <2>2, <2>3 DEF LocalInv
<1> QED
  BY Zenon, <1>1, <1>2, <1>3, QuietStep

\* holding's push saves the sampled flag exactly when it is the outermost.
LEMMA PushCli2Inductive ==
  ASSUME IInv, TypeOK', NEW c \in CPUs, PushCli(c, "hcli", "hlocked")
  PROVE  IInv'
<1>1. TypeOK /\ LocalInv(c) /\ ~panicked
  BY Zenon DEF IInv
<1>2. /\ \A d \in CPUs \ {c} : Same(d)
      /\ pc[c] = "hcli" /\ pc'[c] = "hlocked"
      /\ ncli[c] \in Nat /\ ncli'[c] = ncli[c] + 1 /\ ~IF_flag'[c]
      /\ saved'[c] = IF ncli[c] = 0 THEN enabled[c] ELSE saved[c]
      /\ UNCHANGED <<lockVars, held, frame, base, panicked, call, arg, enabled, result>>
  BY Zenon, <1>1 DEF PushCli, Goto, At, TypeOK, intrVars, ctxVars, Same
<1>3. LocalInv(c)'
  <2>1. Shape(pc[c], call[c])' /\ GuardInv(c)' /\ FrameInv(c)' /\ ReadInv(c)'
    BY Zenon, <1>1, <1>2 DEF LocalInv, Shape, GuardInv, FrameInv, InHandler, ReadInv
  <2>2. CountInv(c)'
    BY <1>1, <1>2, HeldFinite DEF LocalInv, Shape, CountInv, InFlight
  <2>3. FlagInv(c)'
    BY <1>1, <1>2 DEF LocalInv, Shape, FlagInv, ContextFlag, InHandler
  <2> QED
    BY Zenon, <2>1, <2>2, <2>3 DEF LocalInv
<1> QED
  BY Zenon, <1>1, <1>2, <1>3, QuietStep

\* A CPU that holds the lock reads locked = 1: nobody else can clear it.
LEMMA HoldingReadLockedInductive ==
  ASSUME IInv, TypeOK', NEW c \in CPUs, HoldingReadLocked(c)
  PROVE  IInv'
<1>1. TypeOK /\ LocalInv(c) /\ ~panicked /\ (arg[c] \in held[c] => locked[arg[c]] = 1)
  BY Zenon DEF IInv, TypeOK, FieldsInv, Owns
<1>2. /\ \A d \in CPUs \ {c} : Same(d)
      /\ pc[c] = "hlocked" /\ pc'[c] = "hcpu"
      /\ result'[c] <=> locked[arg[c]] # 0
      /\ UNCHANGED <<lockVars, held, ncli, IF_flag, saved, frame, base, panicked, call, arg, enabled>>
  BY <1>1, Zenon DEF HoldingReadLocked, At, TypeOK, intrVars, ctxVars, Same
<1>3. LocalInv(c)'
  BY <1>1, <1>2, HeldFinite DEF LocalInv, Shape, GuardInv, FrameInv, CountInv, InFlight,
     FlagInv, ContextFlag, InHandler, ReadInv
<1> QED
  BY Zenon, <1>1, <1>2, <1>3, QuietStep

\* Only the holder finds its own id in the cpu field: others never write it.
LEMMA HoldingReadCpuInductive ==
  ASSUME IInv, TypeOK', NEW c \in CPUs, HoldingReadCpu(c)
  PROVE  IInv'
<1>1. TypeOK /\ LocalInv(c) /\ ~panicked
      /\ (pc[c] = "hcpu" => (cpu[arg[c]] = c <=> arg[c] \in held[c]))
  BY Zenon DEF IInv, TypeOK, FieldsInv
<1>2. /\ \A d \in CPUs \ {c} : Same(d)
      /\ pc[c] = "hcpu" /\ pc'[c] = "hpop"
      /\ result'[c] <=> result[c] /\ cpu[arg[c]] = c
      /\ UNCHANGED <<lockVars, held, ncli, IF_flag, saved, frame, base, panicked, call, arg, enabled>>
  BY Zenon, <1>1 DEF HoldingReadCpu, At, TypeOK, intrVars, ctxVars, Same
<1>3. LocalInv(c)'
  BY Zenon, <1>1, <1>2, HeldFinite DEF LocalInv, Shape, GuardInv, FrameInv, CountInv, InFlight,
     FlagInv, ContextFlag, InHandler, ReadInv
<1> QED
  BY Zenon, <1>1, <1>2, <1>3, QuietStep
-----------------------------------------------------------------------------

\* Whoever reaches a pop finds interrupts off and ncli positive, and holding()
\* gives acquire and release the answer they assert.
LEMMA AssertsHold ==
  ASSUME IInv, NEW c \in CPUs
  PROVE  /\ pc[c] \in {"hpop", "pop"} => PopOK(c)
         /\ pc[c] = "hpop" => AnswerOK(c)
<1>1. ncli[c] \in Nat /\ Cardinality(held[c]) \in Nat
  BY Zenon, HeldFinite DEF IInv, TypeOK
<1>2. pc[c] \in {"hpop", "pop"} => PopOK(c)
  BY <1>1 DEF IInv, LocalInv, CountInv, InFlight, FlagInv, PopOK
<1>3. pc[c] = "hpop" => AnswerOK(c)
  BY Zenon DEF IInv, LocalInv, GuardInv, ReadInv, AnswerOK
<1> QED
  BY Zenon, <1>2, <1>3

\* holding's pop undoes its push, and its caller's assert passes.
LEMMA HoldingPopInductive ==
  ASSUME IInv, TypeOK', NEW c \in CPUs, HoldingPop(c)
  PROVE  IInv'
<1>1. TypeOK /\ LocalInv(c) /\ ~panicked
  BY Zenon DEF IInv
<1>2. /\ \A d \in CPUs \ {c} : Same(d)
      /\ pc[c] = "hpop" /\ PopOK(c) /\ AnswerOK(c) /\ ~panicked'
      /\ ncli[c] \in Nat /\ ncli[c] # 0 /\ ncli'[c] = ncli[c] - 1
      /\ IF_flag'[c] <=> ncli[c] = 1 /\ saved[c]
      /\ UNCHANGED <<lockVars, held, saved, frame, base>>
  BY <1>1, AssertsHold DEF HoldingPop, At, PopEffect, PopOK, TypeOK, Same, Goto, Return, Enter
<1>3. \/ call[c] = "acquire" /\ pc'[c] = "xswap" /\ UNCHANGED <<call, arg>>
      \/ call[c] = "release" /\ pc'[c] = "clearcpu" /\ UNCHANGED <<call, arg>>
      \/ call[c] = "holding" /\ pc'[c] = "run" /\ call'[c] = "none"
  BY Zenon, <1>1 DEF HoldingPop, Goto, Return, Enter, TypeOK
<1>4. LocalInv(c)'
  <2>1. Shape(pc[c], call[c])' /\ GuardInv(c)' /\ FrameInv(c)' /\ ReadInv(c)'
    BY Zenon, <1>1, <1>2, <1>3 DEF LocalInv, Shape, GuardInv, FrameInv, InHandler, ReadInv, AnswerOK
  <2>2. CountInv(c)'
    BY <1>1, <1>2, <1>3, HeldFinite DEF LocalInv, Shape, CountInv, InFlight
  <2>3. FlagInv(c)'
    BY <1>1, <1>2, <1>3 DEF LocalInv, Shape, FlagInv, ContextFlag, InHandler
  <2> QED
    BY Zenon, <2>1, <2>2, <2>3 DEF LocalInv
<1> QED
  BY Zenon, <1>1, <1>2, <1>3, <1>4, QuietStep

\* The xswap that reads 0 makes this CPU the only owner.
LEMMA XswapAcquireInductive ==
  ASSUME IInv, TypeOK', NEW c \in CPUs, XswapAcquire(c)
  PROVE  IInv'
<1>1. TypeOK /\ LocalInv(c) /\ FieldsInv /\ MutualExclusion /\ ~panicked
  BY Zenon DEF IInv
<1>2. \A d \in CPUs \ {c} : Same(d)
  BY Zenon, <1>1 DEF XswapAcquire, Goto, TypeOK, Same, intrVars, ctxVars
<1>3. /\ pc[c] = "xswap" /\ pc'[c] = "setcpu" /\ arg[c] \in Locks
      /\ locked[arg[c]] = 0 /\ arg'[c] = arg[c]
      /\ \A l \in Locks : locked'[l] = IF l = arg[c] THEN 1 ELSE locked[l]
      /\ UNCHANGED <<cpu, held, ncli, IF_flag, saved, frame, base, panicked, call, arg, result>>
  BY Zenon, <1>1 DEF XswapAcquire, Goto, At, TypeOK, intrVars, ctxVars
<1>5. LocalInv(c)'
  BY Zenon, <1>1, <1>3, HeldFinite DEF LocalInv, Shape, GuardInv, FrameInv, CountInv, InFlight,
     FlagInv, ContextFlag, InHandler, ReadInv
<1>6. \A d \in CPUs, l \in Locks : Owns(d, l)' <=> Owns(d, l) \/ (d = c /\ l = arg[c])
  BY Zenon, <1>2, <1>3 DEF Same, Owns
<1>7. FieldsInv'
  BY <1>1, <1>2, <1>3, <1>6 DEF FieldsInv, Same
<1>8. MutualExclusion'
  BY <1>1, <1>3, <1>6 DEF FieldsInv, MutualExclusion
<1> QED
  BY Zenon, <1>1, <1>2, <1>3, <1>5, <1>7, <1>8, OtherCPU DEF IInv

\* Recording the owner completes acquire: the guard is alive.
LEMMA SetCpuInductive ==
  ASSUME IInv, TypeOK', NEW c \in CPUs, SetCpu(c)
  PROVE  IInv'
<1>1. TypeOK /\ LocalInv(c) /\ FieldsInv /\ MutualExclusion /\ ~panicked
  BY Zenon DEF IInv
<1>2. \A d \in CPUs \ {c} : Same(d)
  BY <1>1 DEF SetCpu, Return, Enter, TypeOK, Same, intrVars, ctxVars
<1>3. /\ pc[c] = "setcpu" /\ pc'[c] = "run" /\ call'[c] = "none" /\ arg[c] \in Locks
      /\ held'[c] = held[c] \cup {arg[c]}
      /\ \A l \in Locks : cpu'[l] = IF l = arg[c] THEN c ELSE cpu[l]
      /\ UNCHANGED <<locked, ncli, IF_flag, saved, frame, base, panicked>>
  BY <1>1 DEF SetCpu, Return, Enter, At, TypeOK, intrVars, ctxVars
<1>4. /\ Cardinality(held'[c]) = Cardinality(held[c]) + 1
      /\ Cardinality(held[c]) \in Nat /\ arg[c] \notin held[c]
  <2>1. arg[c] \notin held[c]
    BY Zenon, <1>1, <1>3 DEF LocalInv, Shape, GuardInv
  <2>2. IsFiniteSet(held[c]) /\ Cardinality(held[c]) \in Nat
    BY Zenon, <1>1, HeldFinite
  <2>3. Cardinality(held[c] \cup {arg[c]}) = Cardinality(held[c]) + 1
    BY <2>1, <2>2, FS_AddElement, Zenon
  <2> QED
    BY Zenon, <1>3, <2>1, <2>2, <2>3
<1>5. LocalInv(c)'
  BY <1>1, <1>3, <1>4, HeldFinite DEF LocalInv, Shape, GuardInv, FrameInv, CountInv, InFlight,
     FlagInv, ContextFlag, InHandler, ReadInv
<1>6. /\ \A d \in CPUs, l \in Locks : Owns(d, l)' <=> Owns(d, l)
      /\ \A d \in CPUs \ {c} : arg[c] \notin held[d]
  BY <1>1, <1>2, <1>3 DEF Same, Owns, MutualExclusion
<1>7. FieldsInv'
  BY <1>1, <1>2, <1>3, <1>6 DEF FieldsInv, Same
<1>8. MutualExclusion'
  BY Zenon, <1>1, <1>6 DEF MutualExclusion
<1> QED
  BY Zenon, <1>1, <1>2, <1>3, <1>5, <1>7, <1>8, OtherCPU DEF IInv

\* release() forgets the owner while the lock is still taken.
LEMMA ClearCpuInductive ==
  ASSUME IInv, TypeOK', NEW c \in CPUs, ClearCpu(c)
  PROVE  IInv'
<1>1. TypeOK /\ LocalInv(c) /\ FieldsInv /\ MutualExclusion /\ ~panicked
  BY Zenon DEF IInv
<1>2. \A d \in CPUs \ {c} : Same(d)
  BY Zenon, <1>1 DEF ClearCpu, Goto, TypeOK, Same, intrVars, ctxVars
<1>3. /\ pc[c] = "clearcpu" /\ pc'[c] = "unlock" /\ arg[c] \in Locks
      /\ \A l \in Locks : cpu'[l] = IF l = arg[c] THEN NoCPU ELSE cpu[l]
      /\ UNCHANGED <<locked, held, ncli, IF_flag, saved, frame, base, panicked, call, arg, result>>
  BY Zenon, <1>1 DEF ClearCpu, Goto, At, TypeOK, intrVars, ctxVars
<1>5. LocalInv(c)'
  BY Zenon, <1>1, <1>3, HeldFinite DEF LocalInv, Shape, GuardInv, FrameInv, CountInv, InFlight,
     FlagInv, ContextFlag, InHandler, ReadInv
<1>6. /\ \A d \in CPUs, l \in Locks : Owns(d, l)' <=> Owns(d, l)
      /\ \A d \in CPUs \ {c} : arg[c] \notin held[d]
  BY Zenon, <1>1, <1>2, <1>3 DEF Same, Owns, MutualExclusion, LocalInv, Shape, GuardInv
<1>7. FieldsInv'
  BY <1>1, <1>2, <1>3, <1>6, LockAssumption DEF FieldsInv, Same
<1>8. MutualExclusion'
  BY Zenon, <1>1, <1>6 DEF MutualExclusion
<1> QED
  BY Zenon, <1>1, <1>2, <1>3, <1>5, <1>7, <1>8, OtherCPU DEF IInv

\* release's xswap ends the ownership; one interrupt disable is left to pop.
LEMMA XswapReleaseInductive ==
  ASSUME IInv, TypeOK', NEW c \in CPUs, XswapRelease(c)
  PROVE  IInv'
<1>1. TypeOK /\ LocalInv(c) /\ FieldsInv /\ MutualExclusion /\ ~panicked
  BY Zenon DEF IInv
<1>2. \A d \in CPUs \ {c} : Same(d)
  BY Zenon, <1>1 DEF XswapRelease, Goto, TypeOK, Same, intrVars, ctxVars
<1>3. /\ pc[c] = "unlock" /\ pc'[c] = "pop" /\ arg[c] \in Locks
      /\ held'[c] = held[c] \ {arg[c]}
      /\ \A l \in Locks : locked'[l] = IF l = arg[c] THEN 0 ELSE locked[l]
      /\ UNCHANGED <<cpu, ncli, IF_flag, saved, frame, base, panicked, call, arg, result>>
  BY Zenon, <1>1 DEF XswapRelease, Goto, At, TypeOK, intrVars, ctxVars
<1>4. /\ Cardinality(held'[c]) = Cardinality(held[c]) - 1
      /\ Cardinality(held[c]) \in Nat /\ arg[c] \in held[c]
  <2>1. arg[c] \in held[c]
    BY Zenon, <1>1, <1>3 DEF LocalInv, Shape, GuardInv
  <2>2. IsFiniteSet(held[c]) /\ Cardinality(held[c]) \in Nat
    BY Zenon, <1>1, HeldFinite
  <2>3. Cardinality(held[c] \ {arg[c]}) = Cardinality(held[c]) - 1
    BY <2>1, <2>2, FS_RemoveElement, Zenon
  <2> QED
    BY Zenon, <1>3, <2>1, <2>2, <2>3
<1>5. LocalInv(c)'
  BY <1>1, <1>3, <1>4, HeldFinite DEF LocalInv, Shape, GuardInv, FrameInv, CountInv, InFlight,
     FlagInv, ContextFlag, InHandler, ReadInv
<1>6. /\ \A d \in CPUs, l \in Locks : Owns(d, l)' <=> Owns(d, l) /\ ~(d = c /\ l = arg[c])
      /\ \A d \in CPUs \ {c} : ~Owns(d, arg[c])
  BY <1>1, <1>2, <1>3, <1>4 DEF Same, Owns, MutualExclusion
<1>7. FieldsInv'
  BY <1>1, <1>2, <1>3, <1>6 DEF FieldsInv, Same
<1>8. MutualExclusion'
  BY Zenon, <1>1, <1>6 DEF MutualExclusion
<1> QED
  BY Zenon, <1>1, <1>2, <1>3, <1>5, <1>7, <1>8, OtherCPU DEF IInv

\* release's pop restores the flag when the last lock is gone.
LEMMA ReleasePopInductive ==
  ASSUME IInv, TypeOK', NEW c \in CPUs, ReleasePop(c)
  PROVE  IInv'
<1>1. TypeOK /\ LocalInv(c) /\ ~panicked
  BY Zenon DEF IInv
<1>2. /\ \A d \in CPUs \ {c} : Same(d)
      /\ pc[c] = "pop" /\ pc'[c] = "run" /\ call'[c] = "none" /\ ~panicked'
      /\ ncli[c] \in Nat /\ ncli[c] # 0 /\ ncli'[c] = ncli[c] - 1
      /\ IF_flag'[c] <=> ncli[c] = 1 /\ saved[c]
      /\ UNCHANGED <<lockVars, held, saved, frame, base>>
  BY <1>1, AssertsHold DEF ReleasePop, At, PopEffect, PopOK, Return, Enter, TypeOK, Same
<1>3. LocalInv(c)'
  BY <1>1, <1>2, HeldFinite DEF LocalInv, Shape, GuardInv, FrameInv, CountInv, InFlight,
     FlagInv, ContextFlag, InHandler, ReadInv
<1> QED
  BY Zenon, <1>1, <1>2, <1>3, QuietStep

\* An interrupt finds no lock held and saves the call it interrupts.
LEMMA InterruptInductive ==
  ASSUME IInv, TypeOK', NEW c \in CPUs, Interrupt(c)
  PROVE  IInv'
<1>1. TypeOK /\ LocalInv(c) /\ ~panicked
  BY Zenon DEF IInv
<1>2. /\ pc[c] \in Points /\ call[c] \in Calls /\ ncli[c] \in Nat
      /\ IF_flag[c] /\ ~IF_flag'[c] /\ pc'[c] = "run" /\ call'[c] = "none"
      /\ frame'[c] = [pc |-> pc[c], call |-> call[c], arg |-> arg[c], enabled |-> enabled[c]]
      /\ UNCHANGED <<lockVars, held, ncli, base, panicked>>
  BY <1>1 DEF Interrupt, Return, Enter, TypeOK
<1>3. \A d \in CPUs \ {c} : Same(d)
  BY <1>1 DEF Interrupt, Return, Enter, TypeOK, Same
<1>4. ncli[c] = 0 /\ base[c] /\ ~InHandler(c) /\ held[c] = {} /\ InFlight(c) = 0
  <2>1. ncli[c] = 0 /\ base[c] /\ ~InHandler(c)
    BY Zenon, <1>1, <1>2 DEF LocalInv, FlagInv, ContextFlag
  <2> QED
    BY <1>1, <2>1, HeldFinite DEF LocalInv, CountInv, InFlight
<1>5. /\ call[c] # "release"
      /\ pc[c] \in {"run", "push", "cli", "hpush", "hcli"}
      /\ pc[c] \in {"hpush", "hcli"} => call[c] = "holding"
      /\ pc[c] \in {"cli", "hcli"} => enabled[c]
  <2>1. call[c] # "release" /\ (pc[c] \in {"cli", "hcli"} => enabled[c])
    BY <1>1, <1>4 DEF LocalInv, GuardInv, FlagInv, ContextFlag, InFlight
  <2>2. /\ pc[c] \notin {"hlocked", "hcpu", "hpop", "pop"}
        /\ call[c] = "acquire" => pc[c] \in {"push", "cli"}
    BY <1>4 DEF InFlight
  <2> QED
    BY Zenon, <1>1, <1>2, <2>1, <2>2 DEF Points, Calls, LocalInv, Shape
<1>6. LocalInv(c)'
  <2>1. InHandler(c)' /\ FrameInv(c)'
    BY <1>1, <1>2, <1>4, <1>5 DEF InHandler, FrameInv, LocalInv, Shape
  <2>2. Shape(pc[c], call[c])' /\ GuardInv(c)' /\ ReadInv(c)'
    BY Zenon, <1>2 DEF Shape, GuardInv, ReadInv
  <2>3. CountInv(c)' /\ FlagInv(c)'
    BY <1>1, <1>2, <1>4, <2>1 DEF LocalInv, CountInv, InFlight, FlagInv, ContextFlag
  <2> QED
    BY Zenon, <2>1, <2>2, <2>3 DEF LocalInv
<1> QED
  BY Zenon, <1>1, <1>2, <1>3, <1>5, <1>6, QuietStep

\* The handler returns to the interrupted call, with interrupts on again.
LEMMA IretInductive ==
  ASSUME IInv, TypeOK', NEW c \in CPUs, Iret(c)
  PROVE  IInv'
<1>1. TypeOK /\ LocalInv(c) /\ ~panicked
  BY Zenon DEF IInv
<1>2. /\ pc[c] = "run" /\ held[c] = {} /\ InHandler(c)
      /\ pc'[c] = frame[c].pc /\ call'[c] = frame[c].call /\ enabled'[c] = frame[c].enabled
      /\ frame'[c].pc = "none" /\ IF_flag'[c]
      /\ UNCHANGED <<lockVars, held, ncli, base, panicked>>
  BY <1>1 DEF Iret, At, Enter, TypeOK, NoFrame
<1>3. \A d \in CPUs \ {c} : Same(d)
  BY <1>1 DEF Iret, Enter, TypeOK, Same
<1>4. ncli[c] = 0
  <2>1. Cardinality(held[c]) = 0
    BY <1>1, <1>2, HeldFinite, Zenon
  <2>2. InFlight(c) = 0
    BY <1>1, <1>2 DEF LocalInv, Shape, InFlight
  <2> QED
    BY <1>1, <2>1, <2>2 DEF LocalInv, CountInv
<1>5. /\ base[c] /\ Shape(frame[c].pc, frame[c].call)
      /\ frame[c].call # "release"
      /\ frame[c].pc \in {"run", "push", "cli", "hpush", "hcli"}
      /\ frame[c].pc \in {"hpush", "hcli"} => frame[c].call = "holding"
      /\ frame[c].pc \in {"cli", "hcli"} => frame[c].enabled
  BY Zenon, <1>1, <1>2 DEF LocalInv, FrameInv
<1>6. LocalInv(c)'
  <2>1. /\ Shape(pc[c], call[c])' /\ GuardInv(c)' /\ FrameInv(c)' /\ ReadInv(c)'
    BY Zenon, <1>2, <1>5 DEF Shape, GuardInv, FrameInv, InHandler, ReadInv
  <2>2. InFlight(c)' = 0
    BY <1>2, <1>5 DEF InFlight, Shape
  <2>3. CountInv(c)'
    BY <1>2, <1>4, <2>2, FS_EmptySet DEF CountInv
  <2>4. FlagInv(c)'
    BY Zenon, <1>2, <1>4, <1>5 DEF FlagInv, ContextFlag, InHandler
  <2> QED
    BY Zenon, <2>1, <2>3, <2>4 DEF LocalInv
<1> QED
  BY Zenon, <1>1, <1>2, <1>3, <1>5, <1>6, QuietStep

\* All locks are free and no call is under way when the kernel starts.
LEMMA InitInv == Init => IInv
<1> SUFFICES ASSUME Init PROVE IInv
  OBVIOUS
<1>1. TypeOK
  BY AnyLockType, Zenon DEF Init, TypeOK, Frame, NoFrame, Points, Calls
<1>2. ASSUME NEW c \in CPUs PROVE LocalInv(c)
  <2>1. frame[c].pc = "none"
    BY Zenon DEF Init, NoFrame
  <2>2. Cardinality(held[c]) = 0
    BY Zenon, FS_EmptySet DEF Init
  <2> QED
    BY <2>1, <2>2 DEF Init, LocalInv, Shape, GuardInv, FrameInv, CountInv, FlagInv,
       ReadInv, InFlight, ContextFlag, InHandler
<1>3. FieldsInv /\ MutualExclusion /\ ~panicked
  BY LockAssumption DEF Init, FieldsInv, MutualExclusion, Owns
<1> QED
  BY Zenon, <1>1, <1>2, <1>3 DEF IInv

\* Every step of every CPU preserves the inductive invariant.
LEMMA NextInv == IInv /\ [Next]_vars => IInv'
<1> SUFFICES ASSUME IInv, [Next]_vars PROVE IInv'
  OBVIOUS
<1>1. TypeOK'
  BY Zenon, TypeInductive DEF IInv
<1>2. CASE UNCHANGED vars
  <2>1. \A d \in CPUs : Same(d)
    BY Zenon, <1>2 DEF vars, lockVars, intrVars, callVars, ctxVars, Same
  <2>2. \A d \in CPUs : LocalInv(d)'
    BY Zenon, <2>1, OtherCPU DEF IInv
  <2>3. FieldsInv' /\ MutualExclusion' /\ ~panicked'
    BY <1>2 DEF IInv, FieldsInv, MutualExclusion, Owns, vars, lockVars, callVars, ctxVars
  <2> QED
    BY Zenon, <1>1, <2>2, <2>3 DEF IInv
<1>3. ASSUME NEW c \in CPUs, Step(c) PROVE IInv'
  BY Zenon, <1>1, <1>3, PushRead1Inductive, PushRead2Inductive, PushCli1Inductive,
     PushCli2Inductive, HoldingReadLockedInductive, HoldingReadCpuInductive,
     HoldingPopInductive, SetCpuInductive, ClearCpuInductive,
     XswapReleaseInductive, ReleasePopInductive
  DEF Step
<1>4. ASSUME NEW c \in CPUs, XswapAcquire(c) \/ Interrupt(c) \/ Iret(c) PROVE IInv'
  BY Zenon, <1>1, <1>4, XswapAcquireInductive, InterruptInductive, IretInductive
<1>5. ASSUME NEW c \in CPUs, NEW l \in Locks,
             CallAcquire(c, l) \/ CallRelease(c, l) \/ CallHolding(c, l)
      PROVE  IInv'
  BY Zenon, <1>1, <1>5, CallAcquireInductive, CallReleaseInductive, CallHoldingInductive
<1> QED
  BY Zenon, <1>2, <1>3, <1>4, <1>5 DEF Next
-----------------------------------------------------------------------------

\* The inductive invariant holds in every behaviour.
THEOREM InvariantHolds == Spec => []IInv
  BY InitInv, NextInv, PTL DEF Spec

\* Every field keeps its type; in particular pop_intr_disable never takes ncli
\* below zero.
THEOREM TypeCorrect == Spec => []TypeOK
<1>1. IInv => TypeOK
  BY Zenon DEF IInv
<1> QED
  BY <1>1, InvariantHolds, PTL

\* For every number of CPUs, locks and every lock order, no two CPUs are ever
\* past the xswap of acquire on the same lock.
THEOREM MutualExclusionHolds == Spec => []MutualExclusion
<1>1. IInv => MutualExclusion
  BY Zenon DEF IInv
<1> QED
  BY <1>1, InvariantHolds, PTL

\* holding() is exact although it is racy, and so no assert! of spinlock.rs or
\* of pop_intr_disable ever fires.
THEOREM HoldingIsExact == Spec => []HoldingSound
<1>1. IInv => HoldingSound
  BY Zenon DEF IInv, LocalInv, ReadInv, HoldingSound, HoldingExact, NoAssertFails
<1> QED
  BY <1>1, InvariantHolds, PTL

\* Interrupts are off in every critical section and exactly restored after
\* the last one.
THEOREM InterruptDiscipline == Spec => []InterruptsExact
<1>1. ASSUME IInv, NEW c \in CPUs, NEW l \in Locks, Owns(c, l)
      PROVE  ~IF_flag[c]
  <2>1. /\ ncli[c] \in Nat /\ Cardinality(held[c]) \in Nat
        /\ Cardinality(held[c]) = 0 <=> held[c] = {}
    BY Zenon, <1>1, HeldFinite DEF IInv, TypeOK
  <2>2. ncli[c] # 0
    BY <1>1, <2>1 DEF IInv, LocalInv, Shape, CountInv, InFlight, Owns
  <2> QED
    BY Zenon, <1>1, <2>2 DEF IInv, LocalInv, FlagInv
<1>2. ASSUME IInv, NEW c \in CPUs, pc[c] = "run", held[c] = {}
      PROVE  IF_flag[c] <=> base[c] /\ ~InHandler(c)
  <2>1. ncli[c] = 0
    BY <1>2, FS_EmptySet DEF IInv, LocalInv, Shape, CountInv, InFlight
  <2> QED
    BY Zenon, <1>2, <2>1 DEF IInv, LocalInv, FlagInv, ContextFlag
<1>3. IInv => InterruptsExact
  BY Zenon, <1>1, <1>2 DEF InterruptsExact, InterruptsOffWhileHeld, InterruptFlagRestored
<1> QED
  BY <1>3, InvariantHolds, PTL

\* Which CPU the mapped variable names.
OwnerFacts == \A l \in Locks :
  /\ \A c \in CPUs : Owns(c, l) => owner[l] = c
  /\ (\A c \in CPUs : ~Owns(c, l)) => owner[l] = NoCPU

\* Exclusion makes the mapped owner well defined.
LEMMA OwnerIs == MutualExclusion => OwnerFacts
  BY Zenon DEF MutualExclusion, OwnerFacts, owner

\* The lock algorithm implements the abstract lock: acquire's successful xswap
\* is Take, release's xswap is Give, every other step leaves the owner alone.
THEOREM Refinement == Spec => ImplementsAbstractLock
<1>1. Init => Abstract!Init
  BY Zenon DEF Init, Abstract!Init, owner, Owns
<1>2. IInv /\ IInv' /\ [Next]_vars => [Abstract!Next]_owner
  <2> SUFFICES ASSUME IInv, IInv', [Next]_vars PROVE [Abstract!Next]_owner
    OBVIOUS
  <2>1. OwnerFacts
    BY Zenon, OwnerIs DEF IInv
  <2>2. (MutualExclusion => OwnerFacts)'
    BY OwnerIs, PTL
  <2>3. OwnerFacts'
    BY Zenon, <2>2 DEF IInv
  <2> USE DEF lockVars, intrVars, callVars, ctxVars, At
  <2>4. ASSUME \A d \in CPUs, l \in Locks : Owns(d, l)' <=> Owns(d, l)
        PROVE  owner' = owner
    <3>1. \A l \in Locks : owner'[l] = owner[l]
      BY Zenon, <2>1, <2>3, <2>4 DEF OwnerFacts
    <3> QED
      BY Zenon, <3>1 DEF owner
  <2>5. ASSUME NEW c \in CPUs, NEW k \in Locks, k = arg[c], XswapAcquire(c)
        PROVE  Abstract!Take(c, k)
    <3>1. \A d \in CPUs : ~Owns(d, k)
      BY <2>5 DEF XswapAcquire, IInv, TypeOK, FieldsInv
    <3>2. Owns(c, k)'
      BY Zenon, <2>5 DEF XswapAcquire, Goto, Owns, IInv, TypeOK
    <3>3. \A d \in CPUs, l \in Locks \ {k} : Owns(d, l)' <=> Owns(d, l)
      BY Zenon, <2>5 DEF XswapAcquire, Goto, Owns, IInv, TypeOK
    <3>4. owner[k] = NoCPU /\ owner'[k] = c
      BY Zenon, <2>1, <2>3, <3>1, <3>2 DEF OwnerFacts
    <3>5. \A l \in Locks \ {k} : owner'[l] = owner[l]
      BY Zenon, <2>1, <2>3, <3>3 DEF OwnerFacts
    <3> QED
      BY <3>1, <3>4, <3>5, Zenon DEF Abstract!Take, owner
  <2>6. ASSUME NEW c \in CPUs, NEW k \in Locks, k = arg[c], XswapRelease(c)
        PROVE  Abstract!Give(c, k)
    <3>1. Owns(c, k)
      BY Zenon, <2>6 DEF XswapRelease, IInv, TypeOK, LocalInv, Shape, GuardInv, Owns
    <3>2. \A d \in CPUs : ~Owns(d, k)'
      BY <2>6, <3>1 DEF XswapRelease, Goto, Owns, IInv, TypeOK, MutualExclusion
    <3>3. \A d \in CPUs, l \in Locks \ {k} : Owns(d, l)' <=> Owns(d, l)
      BY <2>6 DEF XswapRelease, Goto, Owns, IInv, TypeOK
    <3>4. owner[k] = c /\ owner'[k] = NoCPU
      BY Zenon, <2>1, <2>3, <3>1, <3>2 DEF OwnerFacts
    <3>5. \A l \in Locks \ {k} : owner'[l] = owner[l]
      BY Zenon, <2>1, <2>3, <3>3 DEF OwnerFacts
    <3> QED
      BY <3>1, <3>4, <3>5, Zenon DEF Abstract!Give, owner
  <2>7. ASSUME NEW c \in CPUs, SetCpu(c) PROVE owner' = owner
    BY <2>4, <2>7 DEF SetCpu, Return, Enter, Owns, IInv, TypeOK
  <2>8. ASSUME NEW c \in CPUs, held' = held, \A d \in CPUs \ {c} : Same(d),
               pc[c] # "setcpu", pc'[c] # "setcpu"
        PROVE  owner' = owner
    BY Zenon, <2>4, <2>8 DEF Owns, Same
  <2>9. ASSUME NEW c \in CPUs, NEW l \in Locks,
               CallAcquire(c, l) \/ CallRelease(c, l) \/ CallHolding(c, l)
        PROVE  owner' = owner
    BY <2>8, <2>9 DEF CallAcquire, CallRelease, CallHolding, Enter, Same, IInv, TypeOK
  <2>10. ASSUME NEW c \in CPUs,
                \/ PushRead(c, "push", "cli") \/ PushRead(c, "hpush", "hcli")
                \/ PushCli(c, "cli", "hpush") \/ PushCli(c, "hcli", "hlocked")
         PROVE  owner' = owner
    BY <2>8, <2>10 DEF PushRead, PushCli, Goto, Same, IInv, TypeOK
  <2>11. ASSUME NEW c \in CPUs, HoldingReadLocked(c) \/ HoldingReadCpu(c) \/ ClearCpu(c)
         PROVE  owner' = owner
    BY Zenon, <2>8, <2>11 DEF HoldingReadLocked, HoldingReadCpu, ClearCpu, Goto, Same, IInv, TypeOK
  <2>12. ASSUME NEW c \in CPUs, HoldingPop(c) \/ ReleasePop(c)
         PROVE  owner' = owner
    <3>1. \A d \in CPUs \ {c} : Same(d)
      BY <2>12 DEF HoldingPop, ReleasePop, PopEffect, Goto, Return, Enter, Same, IInv, TypeOK
    <3>2. pc[c] # "setcpu" /\ pc'[c] # "setcpu" /\ held' = held
      BY Zenon, <2>12 DEF HoldingPop, ReleasePop, Goto, Return, Enter, IInv, TypeOK
    <3> QED
      BY Zenon, <2>8, <3>1, <3>2
  <2>13. ASSUME NEW c \in CPUs, Interrupt(c)
         PROVE  owner' = owner
    <3>1. pc[c] # "setcpu"
      <4>1. LocalInv(c) /\ Cardinality(held[c]) \in Nat
        BY Zenon, HeldFinite DEF IInv
      <4>2. pc[c] = "setcpu" => ncli[c] # 0
        BY <4>1 DEF LocalInv, Shape, CountInv, InFlight
      <4> QED
        BY Zenon, <2>13, <4>1, <4>2 DEF Interrupt, LocalInv, FlagInv
    <3> QED
      BY <2>8, <2>13, <3>1, Zenon DEF Interrupt, Return, Enter, Same, IInv, TypeOK
  <2>14. ASSUME NEW c \in CPUs, Iret(c)
         PROVE  owner' = owner
    <3>1. frame[c].pc # "setcpu"
      BY Zenon, <2>14 DEF Iret, IInv, LocalInv, FrameInv
    <3> QED
      BY <2>8, <2>14, <3>1, Zenon DEF Iret, Enter, Same, IInv, TypeOK
  <2>15. CASE UNCHANGED vars
    BY Zenon, <2>4, <2>15 DEF vars, Owns
  <2> QED
    BY Zenon, <2>5, <2>6, <2>7, <2>9, <2>10, <2>11, <2>12, <2>13, <2>14, <2>15
    DEF Next, Step, Abstract!Next, IInv, TypeOK
<1> QED
  BY <1>1, <1>2, InvariantHolds, PTL DEF Spec, ImplementsAbstractLock, Abstract!Spec
=============================================================================
