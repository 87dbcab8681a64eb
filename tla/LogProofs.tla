------------------------------ MODULE LogProofs -------------------------------
(*****************************************************************************)
(* The inductive invariant of Log, for any processes, blocks and sizes: the  *)
(* steps up to the commit point (begin(), logged writes, end(), the copies   *)
(* to the log and the header) and the steps after it, a crash and recovery   *)
(* keep it.  So the log's books are exact, a committed log is discarded only *)
(* once it is home, Log implements the atomic disk and never panics.         *)
(*****************************************************************************)
EXTENDS Log, FiniteSetTheorems, TLAPS

Committing(p) == pc[p] \in {"sync", "install", "done"}
Distinct(s) == \A i, j \in 1..Len(s) : s[i] = s[j] => i = j

\* LogState, the places of the processes, and the process that commits alone.
StateInv ==
  /\ OutstandingExact /\ IsFiniteSet(Active)
  /\ \A p, q \in Procs : Committing(p) /\ Committing(q) => p = q
  /\ mode # "up" => \A p \in Procs : pc[p] = "idle"

\* The log lists no block twice and fits; it is empty unless an operation
\* is in progress or a commit is.
ListInv ==
  /\ Distinct(log) /\ Len(log) < SIZE
  /\ Distinct(header) /\ Len(header) < SIZE
  /\ mode = "up" /\ Active = {} /\ ~committing => log = <<>>
  /\ \A p \in Procs : pc[p] = "done" => log = <<>>

\* What the buffer cache owes the disk: a clean buffer is as the disk has it.
CacheInv ==
  /\ DirtyIsLogged
  /\ mode # "up" => dirty = {}
  /\ \A b \in dirty : buf[b] # Absent
  /\ panic = "none" => \A b \in Blocks \ dirty : Read(b) = disk[b]

\* How far a commit or a recovery is, and what is on disk by then.
HomeUpTo(n) == \A i \in 1..(n - 1) : disk[log[i]] = logdisk[i]
CopiedUpTo(n) == \A i \in 1..(n - 1) : logdisk[i] = Read(log[i])
PhaseInv ==
  /\ \A p \in Procs :
       /\ pc[p] = "sync" => k <= Len(log) + 1 /\ CopiedUpTo(k)
       /\ pc[p] = "install" =>
            header = log /\ k <= Len(log) + 1 /\ HomeUpTo(k) /\ CopiedUpTo(Len(log) + 1)
  /\ mode = "read" => k = 1 /\ log = <<>>
  /\ mode = "install" => header = log /\ k <= Len(log) + 1 /\ HomeUpTo(k)
  /\ mode = "up" /\ (\A p \in Procs : pc[p] # "install") => header = <<>>

IInv == TypeOK /\ StateInv /\ ListInv /\ CacheInv /\ PhaseInv
-----------------------------------------------------------------------------
\* Log::insert lists a block once: the list keeps its entries, gains at most
\* the new one, and stays free of duplicates.
LEMMA InsertFacts ==
  ASSUME log \in Seq(Blocks), Distinct(log), NEW b \in Blocks
  PROVE  /\ Insert(b) \in Seq(Blocks) /\ Distinct(Insert(b))
         /\ Len(Insert(b)) = IF Contains(log, b) THEN Len(log) ELSE Len(log) + 1
         /\ \A c : Contains(Insert(b), c) <=> Contains(log, c) \/ c = b
<1>1. CASE Contains(log, b)
  BY Zenon, <1>1 DEF Insert, Contains
<1>2. CASE ~Contains(log, b)
  BY <1>2 DEF Insert, Contains, Distinct
<1> QED
  BY Zenon, <1>1, <1>2

\* Every step of the log keeps the types; the loops of sync() and commit()
\* stay inside the log's blocks.
LEMMA TypeInductive == IInv /\ [Next]_vars => TypeOK'
<1> SUFFICES ASSUME IInv, [Next]_vars PROVE TypeOK'
  OBVIOUS
<1>0. TypeOK /\ Len(log) \in Nat /\ Len(log) < SIZE /\ Distinct(log) /\ SIZE \in Nat
  BY LogAssumption DEF IInv, ListInv, TypeOK
<1> USE LogAssumption, <1>0 DEF TypeOK, Points, Panics, disks, cache, lstate, procs, bounds, At, Up
<1>1. ASSUME NEW p \in Procs, CallBegin(p) PROVE TypeOK'
  BY <1>1 DEF CallBegin, Goto
<1>2. ASSUME NEW p \in Procs, Begin(p) \/ BeginSleeps(p) PROVE TypeOK'
  <2>1. CASE Begin(p)
    BY <2>1 DEF Begin, Goto
  <2>2. CASE BeginSleeps(p)
    BY Zenon, <2>2 DEF BeginSleeps, Goto
  <2> QED
    BY Zenon, <1>2, <2>1, <2>2
<1>3. ASSUME NEW p \in Procs, End(p) PROVE TypeOK'
  <2>1. outstanding # 0
    <3>1. p \in Active
      BY Zenon, <1>3 DEF End, Active
    <3>2. IsFiniteSet(Active) /\ outstanding = Cardinality(Active)
      BY Zenon DEF IInv, StateInv, OutstandingExact
    <3> QED
      BY Zenon, <3>1, <3>2, FS_EmptySet
  <2> QED
    <3>1. outstanding' = outstanding - 1 /\ panic' \in Panics /\ UNCHANGED <<disks, cache, log, mode, bounds>>
      BY Zenon, <1>3 DEF End
    <3>2. CASE outstanding = 1
      <4>1. committing' = TRUE /\ wrote' = wrote /\ k' = 1
            /\ pc' = [pc EXCEPT ![p] = IF log = <<>> THEN "done" ELSE "sync"]
        BY Zenon, <1>3, <3>2 DEF End, Goto
      <4> QED
        BY <2>1, <3>1, <4>1
    <3>3. CASE outstanding # 1
      <4>1. WakeAll(p, "idle") /\ UNCHANGED <<committing, k>>
        BY Zenon, <1>3, <3>3 DEF End, Wakeup
      <4> QED
        BY <2>1, <3>1, <4>1 DEF WakeAll
    <3> QED
      BY Zenon, <3>2, <3>3
<1>4. ASSUME NEW p \in Procs, Sync(p) PROVE TypeOK'
  <2>1. k \in 1..(SIZE - 1) /\ log[k] \in Blocks
    BY <1>4 DEF Sync
  <2>2. Read(log[k]) \in Vals
    BY Zenon, <2>1 DEF Read
  <2> QED
    BY <1>4, <2>1, <2>2 DEF Sync
<1>5. ASSUME NEW p \in Procs, WriteHeader(p) PROVE TypeOK'
  BY <1>5 DEF WriteHeader, Goto
<1>6. ASSUME InstallBlock, UNCHANGED procs, mode' = mode PROVE TypeOK'
  <2>1. k \in 1..(SIZE - 1) /\ log[k] \in Blocks
    BY <1>6 DEF InstallBlock
  <2> QED
    BY <1>6, <2>1 DEF InstallBlock
<1>7. ASSUME ClearLog, pc' \in [Procs -> Points], mode' \in {"up", "read", "install"}, wrote' = wrote
      PROVE  TypeOK'
  BY <1>7 DEF ClearLog
<1>8. ASSUME NEW p \in Procs, Clear(p) PROVE TypeOK'
  BY Zenon, <1>7, <1>8 DEF Clear, Goto
<1>9. ASSUME NEW p \in Procs, Done(p) PROVE TypeOK'
  BY ZenonT(30), <1>9 DEF Done, Wakeup, WakeAll
<1>10. ASSUME NEW p \in Procs, NEW b \in Blocks, NEW v \in Vals, Write(p, b, v) PROVE TypeOK'
  BY <1>10, InsertFacts DEF Write
<1>11. ASSUME NEW b \in Blocks, Recycle(b) PROVE TypeOK'
  BY Zenon, <1>11 DEF Recycle
<1>12. CASE Crash
  <2>1. (buf \in [Blocks -> Vals \cup {Absent}] /\ pc \in [Procs -> Points])'
    BY Zenon, <1>12 DEF Crash
  <2>2. (wrote \in [Procs -> SUBSET Blocks] /\ crashes \in 0..MaxCrashes /\ k \in 1..SIZE)'
    BY <1>12 DEF Crash
  <2>3. (log \in Seq(Blocks) /\ dirty \subseteq Blocks /\ outstanding \in Nat)'
    BY <1>12 DEF Crash
  <2> QED
    BY ZenonT(30), <1>12, <2>1, <2>2, <2>3 DEF Crash
<1>13. CASE RecoverRead
  BY Zenon, <1>13 DEF RecoverRead
<1>14. CASE RecoverInstall \/ RecoverClear
  BY Zenon, <1>6, <1>7, <1>14 DEF RecoverInstall, RecoverClear
<1>15. CASE UNCHANGED vars
  BY Zenon, <1>15 DEF vars
<1> QED
  BY ZenonT(30), <1>1, <1>2, <1>3, <1>4, <1>5, <1>6, <1>8, <1>9, <1>10, <1>11, <1>12, <1>13, <1>14, <1>15
  DEF Next, ProcStep, Recover, Install
-----------------------------------------------------------------------------
\* A process inside commit() is alone: no operation is in progress and no
\* other process commits.
LEMMA CommitterAlone ==
  ASSUME IInv, NEW p \in Procs, Committing(p)
  PROVE  /\ committing /\ mode = "up" /\ Active = {} /\ outstanding = 0
         /\ \A q \in Procs \ {p} : pc[q] \in {"idle", "begin", "asleep"}
<1>1. committing /\ outstanding = 0 /\ mode = "up"
  BY Zenon DEF IInv, StateInv, OutstandingExact, Committing
<1>2. Active = {}
  BY ZenonT(30), <1>1, FS_EmptySet DEF IInv, StateInv, OutstandingExact
<1>3. \A q \in Procs \ {p} : ~Committing(q) /\ pc[q] # "op" /\ pc[q] \in Points
  BY Zenon, <1>2 DEF IInv, StateInv, Active, TypeOK
<1> QED
  BY Zenon, <1>1, <1>2, <1>3 DEF Committing, Points

\* A process that only waits may move between the points of begin().
LEMMA WaitingStep ==
  ASSUME IInv, TypeOK', NEW p \in Procs, NEW x \in {"begin", "asleep"},
         mode = "up", pc[p] \in {"idle", "begin"}, pc' = [pc EXCEPT ![p] = x],
         UNCHANGED <<disks, cache, lstate, mode, k, panic>>
  PROVE  IInv'
<1> USE DEF disks, cache, lstate
<1>1. \A q \in Procs : pc'[q] = IF q = p THEN x ELSE pc[q]
  BY Zenon DEF IInv, TypeOK
<1>2. Active' = Active
  BY Zenon, <1>1 DEF Active
<1>3. \A q \in Procs : Committing(q)' <=> Committing(q)
  BY Zenon, <1>1 DEF Committing
<1>4. StateInv'
  BY Zenon, <1>1, <1>2, <1>3 DEF IInv, StateInv, OutstandingExact, Committing
<1>5. ListInv'
  BY <1>1, <1>2 DEF IInv, ListInv, Distinct
<1>6. CacheInv'
  BY <1>1 DEF IInv, CacheInv, DirtyIsLogged, Read
<1>7. PhaseInv'
  BY <1>1 DEF IInv, PhaseInv, HomeUpTo, CopiedUpTo, Read
<1> QED
  BY Zenon, <1>4, <1>5, <1>6, <1>7 DEF IInv

\* begin() counts the operation in.
LEMMA BeginInductive ==
  ASSUME IInv, TypeOK', NEW p \in Procs, Begin(p)
  PROVE  IInv' /\ Active' = Active \cup {p} /\ p \notin Active
<1>1. /\ mode = "up" /\ panic = "none" /\ pc[p] = "begin" /\ ~committing
      /\ outstanding' = outstanding + 1
      /\ \A q \in Procs : pc'[q] = IF q = p THEN "op" ELSE pc[q]
      /\ UNCHANGED <<disk, logdisk, header, buf, dirty, log, committing, mode, k, panic>>
  BY Zenon DEF Begin, At, Up, MayBegin, Goto, IInv, TypeOK, disks, cache
<1>2. Active' = Active \cup {p} /\ p \notin Active
  BY Zenon, <1>1 DEF Active
<1>3. IsFiniteSet(Active') /\ outstanding' = Cardinality(Active')
  BY Zenon, <1>1, <1>2, FS_AddElement DEF IInv, StateInv, OutstandingExact
<1>4. \A q \in Procs : ~Committing(q) /\ ~Committing(q)'
  BY Zenon, <1>1 DEF IInv, StateInv, OutstandingExact, Committing
<1>5. StateInv'
  BY Zenon, <1>1, <1>3, <1>4 DEF StateInv, OutstandingExact, Committing
<1>6. ListInv'
  BY <1>1, <1>2 DEF IInv, ListInv, Distinct
<1>7. CacheInv'
  BY <1>1 DEF IInv, CacheInv, DirtyIsLogged, Read
<1>8. PhaseInv'
  BY <1>1 DEF IInv, PhaseInv, HomeUpTo, CopiedUpTo, Read
<1> QED
  BY Zenon, <1>2, <1>5, <1>6, <1>7, <1>8 DEF IInv

\* An operation in progress rules out a commit, and the header on disk is empty.
LEMMA OperationFacts ==
  ASSUME IInv, NEW p \in Procs, At(p, "op")
  PROVE  /\ p \in Active /\ outstanding \in Nat \ {0} /\ ~committing /\ header = <<>>
         /\ \A q \in Procs : ~Committing(q)
<1>1. p \in Active /\ mode = "up"
  BY Zenon DEF At, Up, Active
<1>2. outstanding \in Nat \ {0} /\ ~committing
  BY Zenon, <1>1, FS_EmptySet DEF IInv, StateInv, OutstandingExact, TypeOK
<1>3. \A q \in Procs : ~Committing(q)
  BY Zenon, <1>2 DEF IInv, StateInv, OutstandingExact, Committing
<1> QED
  BY Zenon, <1>1, <1>2, <1>3 DEF Committing, IInv, PhaseInv

\* fslog::write: the block is in the log and its buffer is DIRTY, unless the
\* log is full.
LEMMA WriteInductive ==
  ASSUME IInv, TypeOK', NEW p \in Procs, NEW b \in Blocks, NEW v \in Vals, Write(p, b, v)
  PROVE  IInv' /\ Active' = Active
<1>1. /\ ~committing /\ header = <<>> /\ outstanding # 0 /\ mode = "up" /\ panic = "none"
      /\ p \in Active /\ \A q \in Procs : ~Committing(q)
  BY Zenon, OperationFacts DEF Write, At, Up
<1>2. /\ \A c \in Blocks : buf'[c] = IF c = b THEN v ELSE buf[c]
      /\ UNCHANGED <<disk, logdisk, header, outstanding, committing, mode, pc, k>>
  BY Zenon DEF Write, IInv, TypeOK, disks
<1>3. Active' = Active /\ \A q \in Procs : ~Committing(q)'
  BY Zenon, <1>1, <1>2 DEF Active, Committing
<1>4. StateInv'
  BY Zenon, <1>1, <1>2, <1>3 DEF IInv, StateInv, OutstandingExact, Committing
<1>5. PhaseInv'
  BY Zenon, <1>1, <1>2, <1>3 DEF IInv, PhaseInv, Committing
<1>6. v # Absent
  BY Zenon, LogAssumption
<1>7. CASE panic' = "none"
  <2>1. log' = Insert(b) /\ dirty' = dirty \cup {b} /\ Len(log) < SIZE - 1
    BY <1>7, LogAssumption DEF Write, IsFull, IInv, TypeOK
  <2>2. log \in Seq(Blocks) /\ Distinct(log)
    BY Zenon DEF IInv, TypeOK, ListInv
  <2>3. /\ Distinct(log') /\ Len(log') < SIZE
        /\ \A c : Contains(log', c) <=> Contains(log, c) \/ c = b
    <3>1. Len(log) \in Nat /\ SIZE \in Nat
      BY <2>2, LogAssumption
    <3> QED
      BY <2>1, <2>2, <3>1, InsertFacts
  <2>4. ListInv'
    BY Zenon, <1>1, <1>2, <1>3, <2>3 DEF IInv, ListInv, Committing
  <2>5. dirty = {c \in Blocks : Contains(log, c)}
    BY <1>1, <2>2 DEF IInv, CacheInv, DirtyIsLogged, Contains, Committing
  <2>6. dirty' = {log'[i] : i \in 1..Len(log')}
    <3>0. \A c : Contains(log, c) => c \in Blocks
      BY <2>2 DEF Contains
    <3>1. \A c : c \in dirty' <=> Contains(log', c)
      BY Zenon, <2>1, <2>3, <2>5, <3>0
    <3> QED
      BY Zenon, <3>1 DEF Contains
  <2>7. DirtyIsLogged'
    BY <1>3, <2>6 DEF DirtyIsLogged, Committing
  <2>8. panic = "none" /\ \A c \in Blocks \ dirty' : c \in Blocks \ dirty /\ Read(c)' = Read(c)
    BY Zenon, <1>1, <1>2, <2>1 DEF Read
  <2>9. CacheInv'
    BY Zenon, <1>1, <1>2, <1>6, <2>1, <2>7, <2>8 DEF IInv, CacheInv, TypeOK
  <2> QED
    BY Zenon, <1>3, <1>4, <1>5, <2>4, <2>9 DEF IInv
<1>8. CASE panic' # "none"
  <2>1. UNCHANGED <<log, dirty>>
    BY Zenon, <1>8 DEF Write
  <2>2. ListInv'
    BY <1>1, <1>2, <1>3, <2>1 DEF IInv, ListInv, Distinct, Committing
  <2>3. CacheInv'
    BY <1>1, <1>2, <1>3, <1>6, <1>8, <2>1 DEF IInv, CacheInv, DirtyIsLogged, Committing, TypeOK
  <2> QED
    BY Zenon, <1>3, <1>4, <1>5, <2>2, <2>3 DEF IInv
<1> QED
  BY Zenon, <1>7, <1>8

\* end() by the last operation starts the commit; by another one it only
\* returns the reservation and wakes the sleepers.
LEMMA EndInductive ==
  ASSUME IInv, TypeOK', NEW p \in Procs, End(p)
  PROVE  IInv' /\ Active' = Active \ {p} /\ p \in Active /\ panic' = "none"
<1>1. /\ ~committing /\ header = <<>> /\ outstanding \in Nat \ {0} /\ mode = "up"
      /\ panic = "none" /\ pc[p] = "op" /\ p \in Active /\ \A q \in Procs : ~Committing(q)
  BY Zenon, OperationFacts DEF End, At, Up
<1>2. /\ UNCHANGED <<disk, logdisk, header, buf, dirty, log, mode>>
      /\ outstanding' = outstanding - 1 /\ panic' = "none"
  BY Zenon, <1>1 DEF End, disks, cache
<1>3. ASSUME Active' = Active \ {p}
      PROVE  IsFiniteSet(Active') /\ outstanding' = Cardinality(Active')
  BY Zenon, <1>1, <1>2, <1>3, FS_RemoveElement DEF IInv, StateInv, OutstandingExact
<1>4. CASE outstanding = 1
  <2>1. committing' /\ k' = 1
        /\ \A q \in Procs : pc'[q] = IF q = p THEN IF log = <<>> THEN "done" ELSE "sync" ELSE pc[q]
    BY Zenon, <1>4 DEF End, Goto, IInv, TypeOK
  <2>2. Active' = Active \ {p}
    BY Zenon, <1>1, <2>1 DEF Active
  <2>3. \A q \in Procs : Committing(q)' <=> q = p
    BY Zenon, <1>1, <2>1 DEF Committing
  <2>4. StateInv'
    BY <1>1, <1>2, <1>3, <1>4, <2>1, <2>2, <2>3 DEF StateInv, OutstandingExact, Committing
  <2>5. ListInv'
    BY <1>1, <1>2, <2>1 DEF IInv, ListInv, Distinct, Committing
  <2>6. CacheInv'
    BY Zenon, <1>1, <1>2, <2>1 DEF IInv, CacheInv, DirtyIsLogged, Committing, Read
  <2>7. PhaseInv'
    BY <1>1, <1>2, <2>1 DEF IInv, PhaseInv, CopiedUpTo, Committing, TypeOK
  <2> QED
    BY Zenon, <1>1, <1>2, <2>2, <2>4, <2>5, <2>6, <2>7 DEF IInv
<1>5. CASE outstanding # 1
  <2>1. /\ UNCHANGED <<committing, k>>
        /\ \A q \in Procs : pc'[q] = IF q = p THEN "idle" ELSE IF pc[q] = "asleep" THEN "begin" ELSE pc[q]
    BY Zenon, <1>5 DEF End, Wakeup, WakeAll
  <2>2. Active' = Active \ {p}
    BY Zenon, <1>1, <2>1 DEF Active
  <2>3. \A q \in Procs : ~Committing(q)'
    BY Zenon, <1>1, <2>1 DEF Committing
  <2>4. StateInv'
    BY Zenon, <1>1, <1>2, <1>3, <2>1, <2>2, <2>3 DEF StateInv, OutstandingExact, Committing
  <2>5. Active' # {}
    BY <1>1, <1>2, <1>3, <1>5, <2>2, FS_EmptySet
  <2>6. ListInv'
    BY <1>1, <1>2, <2>1, <2>3, <2>5 DEF IInv, ListInv, Distinct, Committing
  <2>7. CacheInv'
    BY Zenon, <1>1, <1>2, <2>1, <2>3 DEF IInv, CacheInv, DirtyIsLogged, Committing, Read
  <2>8. PhaseInv'
    BY Zenon, <1>1, <1>2, <2>1, <2>3 DEF IInv, PhaseInv, Committing
  <2> QED
    BY Zenon, <1>1, <1>2, <2>2, <2>4, <2>6, <2>7, <2>8 DEF IInv
<1> QED
  BY Zenon, <1>1, <1>4, <1>5

\* Log::sync copies one more block; what a process reads does not change.
LEMMA SyncInductive ==
  ASSUME IInv, TypeOK', NEW p \in Procs, Sync(p)
  PROVE  IInv' /\ Active' = Active /\ header = <<>> /\ \A b \in Blocks : Read(b)' = Read(b)
<1>1. /\ mode = "up" /\ pc[p] = "sync" /\ k <= Len(log) /\ committing /\ Active = {}
      /\ \A q \in Procs \ {p} : pc[q] \in {"idle", "begin", "asleep"}
  BY Zenon, CommitterAlone DEF Sync, At, Up, Committing
<1>2. header = <<>>
  BY Zenon, <1>1 DEF IInv, PhaseInv
<1>3. k \in 1..Len(log) /\ k \in 1..(SIZE - 1) /\ log[k] \in Blocks /\ Len(log) \in Nat
  BY <1>1, LogAssumption DEF IInv, TypeOK, ListInv
<1>4. \A b \in Blocks : buf'[b] = IF b = log[k] THEN Read(log[k]) ELSE buf[b]
  BY Zenon, <1>3 DEF Sync, IInv, TypeOK
<1>5. \A i \in 1..(SIZE - 1) : logdisk'[i] = IF i = k THEN Read(log[k]) ELSE logdisk[i]
  BY Zenon, <1>3 DEF Sync, IInv, TypeOK
<1>6. k' = k + 1 /\ UNCHANGED <<disk, header, dirty, log>>
  BY Zenon DEF Sync, lstate
<1>7. UNCHANGED <<outstanding, committing, mode, pc, panic>>
  BY Zenon DEF Sync, lstate, procs
<1>8. \A b \in Blocks : Read(b) \in Vals /\ Read(b)' = Read(b)
  BY Zenon, <1>4, <1>6, LogAssumption DEF Read, IInv, TypeOK
<1>9. StateInv' /\ Active' = Active
  BY Zenon, <1>7 DEF IInv, StateInv, OutstandingExact, Active, Committing
<1>10. ListInv'
  BY <1>6, <1>7, <1>9 DEF IInv, ListInv, Distinct
<1>11. CacheInv'
  <2>1. DirtyIsLogged'
    BY Zenon, <1>1, <1>6, <1>7 DEF IInv, CacheInv, DirtyIsLogged
  <2>2. \A b \in dirty : b \in Blocks /\ buf[b] # Absent
    BY Zenon DEF IInv, CacheInv, TypeOK
  <2>3. Read(log[k]) # Absent
    BY Zenon, <1>3, <1>8, LogAssumption
  <2>4. \A b \in dirty : buf'[b] # Absent
    BY Zenon, <1>4, <2>2, <2>3
  <2>5. panic = "none" => \A b \in Blocks \ dirty : Read(b) = disk[b]
    BY Zenon DEF IInv, CacheInv
  <2>6. panic = "none" => \A b \in Blocks \ dirty' : Read(b)' = disk'[b]
    BY Zenon, <1>6, <1>8, <2>5
  <2>7. mode' = "up" /\ panic' = panic /\ dirty' = dirty
    BY Zenon, <1>1, <1>6, <1>7
  <2> QED
    BY Zenon, <2>1, <2>4, <2>6, <2>7 DEF CacheInv
<1>12. CopiedUpTo(k)'
  <2>1. \A i \in 1..k : i \in 1..(SIZE - 1) /\ log[i] \in Blocks
    BY <1>1, <1>3, LogAssumption DEF IInv, TypeOK, ListInv
  <2>2. \A i \in 1..(k - 1) : logdisk[i] = Read(log[i])
    BY Zenon, <1>1 DEF IInv, PhaseInv, CopiedUpTo
  <2>3. \A i \in 1..k : i # k => i \in 1..(k - 1)
    BY <1>3
  <2>4. \A i \in 1..k : logdisk'[i] = Read(log[i])
    BY Zenon, <1>3, <1>5, <2>1, <2>2, <2>3
  <2>5. \A i \in 1..k : Read(log[i])' = Read(log[i])
    BY Zenon, <1>6, <1>8, <2>1 DEF Read
  <2> QED
    BY <1>3, <1>6, <2>4, <2>5 DEF CopiedUpTo
<1>13. PhaseInv'
  BY <1>1, <1>2, <1>3, <1>6, <1>7, <1>12 DEF PhaseInv
<1> QED
  BY Zenon, <1>2, <1>8, <1>9, <1>10, <1>11, <1>13 DEF IInv

\* Log::write of the header: what the log's blocks and the disk hold together
\* is what the processes read.
LEMMA WriteHeaderInductive ==
  ASSUME IInv, TypeOK', NEW p \in Procs, WriteHeader(p)
  PROVE  /\ IInv' /\ Active = {} /\ Active' = {} /\ header = <<>>
         /\ \A i \in 1..Len(log) : logdisk[i] = Read(log[i])
         /\ \A b \in Blocks : Contains(log, b) \/ Read(b) = disk[b]
<1>1. /\ mode = "up" /\ panic = "none" /\ pc[p] = "sync" /\ k > Len(log) /\ committing /\ Active = {}
      /\ \A q \in Procs \ {p} : pc[q] \in {"idle", "begin", "asleep"}
  BY Zenon, CommitterAlone DEF WriteHeader, At, Up, Committing, Synced
<1>2. header = <<>>
  BY Zenon, <1>1 DEF IInv, PhaseInv
<1>3. Len(log) \in Nat /\ k = Len(log) + 1 /\ CopiedUpTo(Len(log) + 1)
  BY <1>1 DEF IInv, TypeOK, PhaseInv
<1>4. header' = log /\ k' = 1
  BY Zenon DEF WriteHeader
<1>5. UNCHANGED <<disk, logdisk, buf, dirty, log>>
  BY Zenon DEF WriteHeader, cache, lstate
<1>6. UNCHANGED <<outstanding, committing, mode, panic>>
  BY Zenon DEF WriteHeader, lstate
<1>7. \A q \in Procs : pc'[q] = IF q = p THEN "install" ELSE pc[q]
  BY Zenon DEF WriteHeader, Goto, IInv, TypeOK
<1>8. Active' = Active /\ \A q \in Procs : Committing(q)' <=> Committing(q)
  BY Zenon, <1>1, <1>7 DEF Active, Committing
<1>9. StateInv'
  BY ZenonT(30), <1>1, <1>6, <1>7, <1>8 DEF IInv, StateInv, OutstandingExact, Committing
<1>10. ListInv'
  <2>1. \A q \in Procs : pc'[q] = "done" => pc[q] = "done"
    BY Zenon, <1>7
  <2> QED
    BY <1>4, <1>5, <1>6, <1>8, <2>1 DEF IInv, ListInv, Distinct
<1>11. dirty = {log[i] : i \in 1..Len(log)}
  BY <1>1 DEF IInv, CacheInv, DirtyIsLogged
<1>12. CacheInv'
  <2>1. DirtyIsLogged'
    BY <1>4, <1>5, <1>7, <1>11 DEF DirtyIsLogged
  <2>2. \A b : Read(b)' = Read(b)
    BY Zenon, <1>5 DEF Read
  <2> QED
    BY Zenon, <1>5, <1>6, <2>1, <2>2 DEF IInv, CacheInv
<1>13. HomeUpTo(k)'
  BY <1>4 DEF HomeUpTo
<1>14. CopiedUpTo(Len(log) + 1)'
  BY Zenon, <1>3, <1>5 DEF CopiedUpTo, Read
<1>15. PhaseInv'
  <2>1. \A q \in Procs : pc'[q] # "sync" /\ (pc'[q] = "install" => q = p)
    BY Zenon, <1>1, <1>7
  <2>2. pc'[p] = "install" /\ mode' = "up" /\ header' = log' /\ k' <= Len(log') + 1
    BY <1>1, <1>3, <1>4, <1>5, <1>6, <1>7
  <2> QED
    BY Zenon, <1>13, <1>14, <2>1, <2>2 DEF PhaseInv
<1>16. \A i \in 1..Len(log) : logdisk[i] = Read(log[i])
  BY <1>3 DEF CopiedUpTo
<1>17. \A b \in Blocks : Contains(log, b) \/ Read(b) = disk[b]
  BY Zenon, <1>1, <1>11 DEF IInv, CacheInv, Contains
<1> QED
  BY Zenon, <1>1, <1>2, <1>8, <1>9, <1>10, <1>12, <1>15, <1>16, <1>17 DEF IInv
-----------------------------------------------------------------------------
(* The steps after the commit point, a crash and recovery.                 *)

\* One more block is home, and the blocks that were home stay so: the log
\* lists no block twice.
LEMMA InstallFacts ==
  ASSUME IInv, InstallBlock, HomeUpTo(k)
  PROVE  /\ k \in 1..Len(log) /\ log[k] \in Blocks /\ Len(log) \in Nat
         /\ \A b \in Blocks : disk'[b] = IF b = log[k] THEN logdisk[k] ELSE disk[b]
         /\ \A b \in Blocks : buf'[b] = IF b = log[k] THEN logdisk[k] ELSE buf[b]
         /\ dirty' = dirty \ {log[k]} /\ k' = k + 1
         /\ UNCHANGED <<logdisk, header, log, outstanding, committing, panic>>
         /\ HomeUpTo(k)' /\ logdisk[k] # Absent
         /\ \A i \in 1..Len(log) : log[i] \in Blocks
<1>1. /\ k \in 1..Len(log) /\ k \in 1..(SIZE - 1) /\ log[k] \in Blocks /\ Len(log) \in Nat
      /\ \A i \in 1..Len(log) : log[i] \in Blocks
  BY LogAssumption DEF InstallBlock, IInv, TypeOK, ListInv
<1>2. /\ \A b \in Blocks : disk'[b] = IF b = log[k] THEN logdisk[k] ELSE disk[b]
      /\ \A b \in Blocks : buf'[b] = IF b = log[k] THEN logdisk[k] ELSE buf[b]
      /\ dirty' = dirty \ {log[k]} /\ k' = k + 1
      /\ UNCHANGED <<logdisk, header, log, outstanding, committing, panic>>
  BY Zenon, <1>1 DEF InstallBlock, IInv, TypeOK, lstate
<1>3. \A i \in 1..k : disk'[log[i]] = logdisk[i]
  <2>1. \A i \in 1..(k - 1) : disk[log[i]] = logdisk[i] /\ log[i] # log[k]
    BY <1>1 DEF HomeUpTo, IInv, ListInv, Distinct
  <2> QED
    BY <1>1, <1>2, <2>1
<1>4. HomeUpTo(k)'
  BY <1>1, <1>2, <1>3 DEF HomeUpTo
<1>5. logdisk[k] # Absent
  BY Zenon, <1>1, LogAssumption DEF IInv, TypeOK
<1> QED
  BY Zenon, <1>1, <1>2, <1>4, <1>5

\* Log::commit after the header: what a process reads does not change.
LEMMA InstallInductive ==
  ASSUME IInv, TypeOK', NEW p \in Procs, Install(p)
  PROVE  /\ IInv' /\ Active' = Active /\ header = log /\ k \in 1..Len(log)
         /\ \A b \in Blocks : Read(b)' = Read(b)
<1>1. /\ mode = "up" /\ panic = "none" /\ pc[p] = "install" /\ Active = {}
      /\ \A q \in Procs \ {p} : pc[q] \in {"idle", "begin", "asleep"}
  BY Zenon, CommitterAlone DEF Install, At, Up, Committing
<1>2. header = log /\ HomeUpTo(k) /\ CopiedUpTo(Len(log) + 1)
  BY Zenon, <1>1 DEF IInv, PhaseInv
<1>3. InstallBlock
  BY Zenon DEF Install
<1>4. k \in 1..Len(log) /\ log[k] \in Blocks /\ Len(log) \in Nat
  BY Zenon, <1>2, <1>3, InstallFacts
<1>5. /\ \A b \in Blocks : disk'[b] = IF b = log[k] THEN logdisk[k] ELSE disk[b]
      /\ \A b \in Blocks : buf'[b] = IF b = log[k] THEN logdisk[k] ELSE buf[b]
      /\ logdisk[k] # Absent
  BY Zenon, <1>2, <1>3, InstallFacts
<1>6. dirty' = dirty \ {log[k]}
  BY Zenon, <1>2, <1>3, InstallFacts
<1>7. k' = k + 1 /\ UNCHANGED <<logdisk, header, log>>
  BY Zenon, <1>2, <1>3, InstallFacts
<1>8. UNCHANGED <<outstanding, committing, panic, pc, mode>>
  BY Zenon, <1>2, <1>3, InstallFacts DEF Install, procs
<1>9. HomeUpTo(k)' /\ \A i \in 1..Len(log) : log[i] \in Blocks
  BY Zenon, <1>2, <1>3, InstallFacts
<1>10. \A b \in Blocks : Read(b)' = Read(b)
  <2>1. Read(log[k]) = logdisk[k]
    BY <1>2, <1>4 DEF CopiedUpTo
  <2>2. \A b \in Blocks \ {log[k]} : Read(b)' = Read(b)
    BY Zenon, <1>5 DEF Read
  <2> QED
    BY Zenon, <1>4, <1>5, <2>1, <2>2 DEF Read
<1>11. StateInv' /\ Active' = Active
  BY Zenon, <1>8 DEF IInv, StateInv, OutstandingExact, Active, Committing
<1>12. ListInv'
  BY <1>7, <1>8, <1>11 DEF IInv, ListInv, Distinct
<1>13. DirtyIsLogged'
  <2>1. dirty = {log[i] : i \in k..Len(log)}
    BY <1>1, <1>4 DEF IInv, CacheInv, DirtyIsLogged
  <2>2. \A i \in 1..Len(log) : log[i] = log[k] => i = k
    BY Zenon, <1>4 DEF IInv, ListInv, Distinct
  <2>3. dirty' = {log[i] : i \in (k + 1)..Len(log)}
    BY <1>4, <1>6, <2>1, <2>2
  <2> QED
    BY <1>1, <1>4, <1>7, <1>8, <2>3 DEF DirtyIsLogged
<1>14. \A b \in Blocks \ dirty' : Read(b)' = disk'[b]
  <2>1. \A b \in Blocks \ dirty' : b = log[k] \/ b \in Blocks \ dirty
    BY Zenon, <1>6
  <2>2. \A b \in Blocks \ dirty : Read(b) = disk[b]
    BY Zenon, <1>1 DEF IInv, CacheInv
  <2> QED
    BY Zenon, <1>4, <1>5, <1>10, <2>1, <2>2 DEF Read
<1>15. CacheInv'
  <2>1. \A b \in dirty' : buf'[b] # Absent
    BY Zenon, <1>5, <1>6 DEF IInv, CacheInv, TypeOK
  <2> QED
    BY Zenon, <1>1, <1>8, <1>13, <1>14, <2>1 DEF CacheInv
<1>16. CopiedUpTo(Len(log) + 1)'
  <2>1. \A i \in 1..Len(log) : logdisk'[i] = Read(log[i]) /\ log[i] \in Blocks
    BY <1>2, <1>4, <1>7, <1>9 DEF CopiedUpTo
  <2>2. \A i \in 1..Len(log) : Read(log[i])' = Read(log[i])
    BY Zenon, <1>7, <1>10, <2>1 DEF Read
  <2> QED
    BY <1>4, <1>7, <2>1, <2>2 DEF CopiedUpTo
<1>17. PhaseInv'
  <2>1. \A q \in Procs : pc'[q] # "sync" /\ (pc'[q] = "install" => q = p)
    BY Zenon, <1>1, <1>8
  <2>2. header' = log' /\ k' <= Len(log') + 1
    BY <1>2, <1>4, <1>7
  <2>3. mode' = "up" /\ pc'[p] = "install"
    BY Zenon, <1>1, <1>8
  <2> QED
    BY Zenon, <1>9, <1>16, <2>1, <2>2, <2>3 DEF PhaseInv
<1> QED
  BY Zenon, <1>2, <1>4, <1>10, <1>11, <1>12, <1>15, <1>17 DEF IInv

\* The header is cleared once every block it lists is home.
LEMMA ClearInductive ==
  ASSUME IInv, TypeOK', NEW p \in Procs, Clear(p)
  PROVE  /\ IInv' /\ Active' = Active /\ header' = <<>>
         /\ header = log /\ HomeUpTo(Len(log) + 1)
<1>1. /\ mode = "up" /\ panic = "none" /\ pc[p] = "install" /\ Active = {} /\ committing /\ k > Len(log)
      /\ \A q \in Procs \ {p} : pc[q] \in {"idle", "begin", "asleep"}
  BY Zenon, CommitterAlone DEF Clear, ClearLog, Installed, At, Up, Committing
<1>2. header = log /\ HomeUpTo(Len(log) + 1) /\ k = Len(log) + 1 /\ Len(log) \in Nat
  BY <1>1 DEF IInv, TypeOK, PhaseInv
<1>3. /\ log' = <<>> /\ header' = <<>> /\ k' = 1
      /\ \A q \in Procs : pc'[q] = IF q = p THEN "done" ELSE pc[q]
      /\ UNCHANGED <<disk, logdisk, buf, dirty, outstanding, committing, mode, panic>>
  BY Zenon DEF Clear, ClearLog, Goto, IInv, TypeOK, cache
<1>4. Active' = Active /\ \A q \in Procs : Committing(q)' <=> Committing(q)
  BY Zenon, <1>1, <1>3 DEF Active, Committing
<1>5. StateInv'
  BY Zenon, <1>1, <1>3, <1>4 DEF IInv, StateInv, OutstandingExact, Committing
<1>6. ListInv'
  BY <1>3, LogAssumption DEF ListInv, Distinct
<1>7. dirty = {}
  BY <1>1, <1>2 DEF IInv, CacheInv, DirtyIsLogged
<1>8. CacheInv'
  BY <1>1, <1>3, <1>7 DEF IInv, CacheInv, DirtyIsLogged, Read
<1>9. PhaseInv'
  BY Zenon, <1>1, <1>3 DEF PhaseInv
<1> QED
  BY Zenon, <1>2, <1>3, <1>4, <1>5, <1>6, <1>8, <1>9 DEF IInv

\* The commit is over and everyone who waited for it is awake.
LEMMA DoneInductive ==
  ASSUME IInv, TypeOK', NEW p \in Procs, Done(p)
  PROVE  IInv' /\ Active' = Active
<1>1. /\ mode = "up" /\ pc[p] = "done" /\ Active = {} /\ outstanding = 0 /\ log = <<>>
      /\ \A q \in Procs \ {p} : pc[q] \in {"idle", "begin", "asleep"}
  BY Zenon, CommitterAlone DEF Done, At, Up, Committing, IInv, ListInv
<1>2. /\ ~committing' /\ UNCHANGED <<disk, logdisk, header, buf, dirty, log, outstanding, mode, k, panic>>
      /\ \A q \in Procs : pc'[q] = IF q = p THEN "idle" ELSE IF pc[q] = "asleep" THEN "begin" ELSE pc[q]
  BY Zenon DEF Done, Wakeup, WakeAll, disks, cache
<1>3. Active' = Active /\ \A q \in Procs : ~Committing(q)'
  BY Zenon, <1>1, <1>2 DEF Active, Committing
<1>4. StateInv'
  BY Zenon, <1>1, <1>2, <1>3 DEF IInv, StateInv, OutstandingExact, Committing
<1>5. ListInv'
  BY <1>1, <1>2 DEF IInv, ListInv, Distinct
<1>6. CacheInv'
  BY <1>1, <1>2 DEF IInv, CacheInv, DirtyIsLogged, Read
<1>7. PhaseInv'
  BY Zenon, <1>1, <1>2 DEF IInv, PhaseInv
<1> QED
  BY Zenon, <1>3, <1>4, <1>5, <1>6, <1>7 DEF IInv

\* Only a clean buffer is recycled, and the disk has what it held.
LEMMA RecycleInductive ==
  ASSUME IInv, TypeOK', NEW b \in Blocks, Recycle(b)
  PROVE  IInv' /\ Active' = Active /\ \A c \in Blocks : Read(c)' = Read(c)
<1>1. mode = "up" /\ panic = "none" /\ b \notin dirty
  BY Zenon DEF Recycle, Recyclable, Up
<1>2. /\ \A c \in Blocks : buf'[c] = IF c = b THEN Absent ELSE buf[c]
      /\ UNCHANGED <<disk, logdisk, header, dirty, log, outstanding, committing, mode, pc, k, panic>>
  BY Zenon DEF Recycle, IInv, TypeOK, disks, lstate, procs
<1>3. \A c \in Blocks : Read(c)' = Read(c)
  BY Zenon, <1>1, <1>2 DEF Read, IInv, CacheInv
<1>4. StateInv' /\ Active' = Active
  BY Zenon, <1>2 DEF IInv, StateInv, OutstandingExact, Active, Committing
<1>5. ListInv'
  BY <1>2, <1>4 DEF IInv, ListInv, Distinct
<1>6. CacheInv'
  BY <1>1, <1>2, <1>3 DEF IInv, CacheInv, DirtyIsLogged, TypeOK
<1>7. \A i \in 1..Len(log) : Read(log[i])' = Read(log[i])
  BY <1>2, <1>3 DEF Read, IInv, TypeOK
<1>8. Len(log) \in Nat /\ k \in Nat
  BY DEF IInv, TypeOK
<1>9. PhaseInv'
  BY <1>1, <1>2, <1>7, <1>8 DEF IInv, PhaseInv, HomeUpTo, CopiedUpTo
<1> QED
  BY Zenon, <1>3, <1>4, <1>5, <1>6, <1>9 DEF IInv

\* A crash leaves the disks alone and forgets the rest.
LEMMA CrashInductive ==
  ASSUME IInv, TypeOK', Crash
  PROVE  IInv' /\ Active' = {}
<1>1. /\ \A b \in Blocks : buf'[b] = Absent
      /\ dirty' = {} /\ log' = <<>> /\ outstanding' = 0 /\ ~committing' /\ mode' = "read" /\ k' = 1
      /\ \A p \in Procs : pc'[p] = "idle"
      /\ UNCHANGED <<disk, logdisk, header>>
  BY Zenon DEF Crash, disks
<1>2. Active' = {}
  BY Zenon, <1>1 DEF Active
<1>3. StateInv'
  BY Zenon, <1>1, <1>2, FS_EmptySet DEF StateInv, OutstandingExact, Committing
<1>4. ListInv'
  BY <1>1, LogAssumption DEF IInv, ListInv, Distinct
<1>5. CacheInv'
  BY Zenon, <1>1 DEF CacheInv, DirtyIsLogged, Read
<1>6. PhaseInv'
  BY Zenon, <1>1 DEF PhaseInv
<1> QED
  BY Zenon, <1>2, <1>3, <1>4, <1>5, <1>6 DEF IInv

\* fslog::init: the header is read, its blocks are copied home, one a step, and
\* it is cleared; a crash in between leaves a state recovery starts from again.
LEMMA RecoverInductive ==
  ASSUME IInv, TypeOK', Recover
  PROVE  /\ IInv' /\ Active = {} /\ Active' = {} /\ mode # "up"
         /\ RecoverInstall => header = log
         /\ RecoverClear => header = log /\ HomeUpTo(Len(log) + 1)
<1>1. mode # "up" /\ panic = "none"
  BY Zenon DEF Recover, RecoverRead, RecoverInstall, RecoverClear
<1>2. /\ \A p \in Procs : pc[p] = "idle"
      /\ ~committing /\ outstanding = 0 /\ Active = {} /\ dirty = {}
  <2>1. \A p \in Procs : pc[p] = "idle"
    BY Zenon, <1>1 DEF IInv, StateInv
  <2> QED
    BY Zenon, <1>1, <2>1, FS_EmptySet DEF IInv, StateInv, CacheInv, OutstandingExact, Active
<1>3. /\ pc' = pc /\ UNCHANGED <<outstanding, committing>>
      /\ dirty' = {}
  BY Zenon, <1>2 DEF Recover, RecoverRead, RecoverInstall, RecoverClear, InstallBlock, ClearLog, procs,
              cache, lstate
<1>4. Active' = {} /\ StateInv'
  <2>1. Active' = {}
    BY Zenon, <1>2, <1>3 DEF Active
  <2> QED
    BY Zenon, <1>2, <1>3, <2>1, FS_EmptySet DEF StateInv, OutstandingExact, Committing
<1>5. CASE RecoverRead
  <2>1. UNCHANGED <<disk, logdisk, header, buf, k>> /\ mode = "read"
    BY Zenon, <1>5 DEF RecoverRead, disks, cache
  <2>2. \/ log' = header /\ mode' = "install" /\ panic' = panic
        \/ UNCHANGED <<log, mode>>
    BY Zenon, <1>5 DEF RecoverRead
  <2>3. ListInv'
    BY Zenon, <1>1, <1>2, <1>3, <2>1, <2>2 DEF IInv, ListInv, Distinct
  <2>4. CacheInv'
    BY Zenon, <1>1, <1>2, <1>3, <2>1, <2>2 DEF IInv, CacheInv, DirtyIsLogged, Read
  <2>5. PhaseInv'
    BY <1>2, <1>3, <2>1, <2>2 DEF IInv, TypeOK, PhaseInv, HomeUpTo
  <2> QED
    BY Zenon, <1>1, <1>2, <1>4, <1>5, <2>1, <2>3, <2>4, <2>5
    DEF IInv, RecoverRead, RecoverInstall, RecoverClear
<1>6. CASE RecoverInstall
  <2>1. mode = "install" /\ mode' = "install" /\ InstallBlock
    BY Zenon, <1>6 DEF RecoverInstall
  <2>2. header = log /\ HomeUpTo(k)
    BY Zenon, <2>1 DEF IInv, PhaseInv
  <2>3. /\ k \in 1..Len(log) /\ log[k] \in Blocks /\ Len(log) \in Nat
        /\ \A b \in Blocks : disk'[b] = IF b = log[k] THEN logdisk[k] ELSE disk[b]
        /\ \A b \in Blocks : buf'[b] = IF b = log[k] THEN logdisk[k] ELSE buf[b]
        /\ k' = k + 1 /\ UNCHANGED <<logdisk, header, log, outstanding, committing, panic>>
        /\ HomeUpTo(k)'
    BY Zenon, <2>1, <2>2, InstallFacts
  <2>4. ListInv'
    BY <1>2, <1>3, <2>1, <2>3 DEF IInv, ListInv, Distinct
  <2>5. CacheInv'
    BY Zenon, <1>1, <1>2, <1>3, <2>1, <2>3 DEF IInv, CacheInv, DirtyIsLogged, Read
  <2>6. PhaseInv'
    BY <1>2, <1>3, <2>1, <2>2, <2>3 DEF PhaseInv
  <2>7. ~RecoverClear
    BY <2>3 DEF RecoverClear, ClearLog, Installed, IInv, TypeOK
  <2> QED
    BY Zenon, <1>1, <1>2, <1>4, <2>2, <2>4, <2>5, <2>6, <2>7 DEF IInv
<1>7. CASE RecoverClear
  <2>1. /\ mode = "install" /\ mode' = "up" /\ k > Len(log) /\ log' = <<>> /\ header' = <<>>
        /\ UNCHANGED <<disk, logdisk, buf, panic>>
    BY Zenon, <1>7 DEF RecoverClear, ClearLog, Installed, cache
  <2>2. header = log /\ HomeUpTo(Len(log) + 1)
    BY <2>1 DEF IInv, TypeOK, PhaseInv
  <2>3. ListInv'
    BY <1>2, <1>3, <2>1, LogAssumption DEF ListInv, Distinct
  <2>4. CacheInv'
    BY <1>1, <1>2, <1>3, <2>1 DEF IInv, CacheInv, DirtyIsLogged, Read
  <2>5. PhaseInv'
    BY Zenon, <1>2, <1>3, <2>1 DEF PhaseInv
  <2> QED
    BY Zenon, <1>1, <1>2, <1>4, <2>2, <2>3, <2>4, <2>5 DEF IInv
<1> QED
  BY Zenon, <1>5, <1>6, <1>7 DEF Recover

\* The log starts with the invariant.
LEMMA InitInv == Init => IInv
<1> SUFFICES ASSUME Init PROVE IInv
  OBVIOUS
<1> USE LogAssumption DEF Init
<1>1. TypeOK
  <2>1. disk \in [Blocks -> Vals] /\ logdisk \in [1..(SIZE - 1) -> Vals] /\ k \in 1..SIZE
    OBVIOUS
  <2>2. buf \in [Blocks -> Vals \cup {Absent}] /\ log \in Seq(Blocks) /\ header \in Seq(Blocks)
    OBVIOUS
  <2>3. pc \in [Procs -> Points] /\ wrote \in [Procs -> SUBSET Blocks] /\ panic \in Panics
    BY Zenon DEF Points, Panics
  <2>4. dirty \subseteq Blocks /\ outstanding \in Nat /\ ops \in 0..MaxOps /\ crashes \in 0..MaxCrashes
    OBVIOUS
  <2> QED
    BY ZenonT(30), <2>1, <2>2, <2>3, <2>4 DEF TypeOK
<1>2. Active = {}
  BY Zenon DEF Active
<1>3. StateInv
  BY Zenon, <1>2, FS_EmptySet DEF StateInv, OutstandingExact, Committing
<1>4. ListInv
  BY DEF ListInv, Distinct
<1>5. CacheInv
  BY DEF CacheInv, DirtyIsLogged, Read
<1>6. PhaseInv
  BY Zenon DEF PhaseInv
<1> QED
  BY Zenon, <1>1, <1>3, <1>4, <1>5, <1>6 DEF IInv

\* Every step of a process, of the cache, a crash and recovery keep it.
LEMMA NextInv == IInv /\ [Next]_vars => IInv'
<1> SUFFICES ASSUME IInv, [Next]_vars PROVE IInv'
  OBVIOUS
<1>1. TypeOK'
  BY Zenon, TypeInductive
<1>2. ASSUME NEW p \in Procs, CallBegin(p) \/ BeginSleeps(p) PROVE IInv'
  <2>1. /\ mode = "up" /\ UNCHANGED <<disks, cache, lstate, mode, k, panic>>
        /\ \E x \in {"begin", "asleep"} : pc[p] \in {"idle", "begin"} /\ pc' = [pc EXCEPT ![p] = x]
    BY Zenon, <1>2 DEF CallBegin, BeginSleeps, At, Up, Goto
  <2> QED
    BY ZenonT(30), <1>1, <2>1, WaitingStep
<1>3. ASSUME NEW p \in Procs,
             Begin(p) \/ End(p) \/ Sync(p) \/ WriteHeader(p) \/ Install(p) \/ Clear(p) \/ Done(p)
      PROVE  IInv'
  BY ZenonT(30), <1>1, <1>3, BeginInductive, EndInductive, SyncInductive, WriteHeaderInductive,
     InstallInductive, ClearInductive, DoneInductive
<1>4. ASSUME NEW p \in Procs, NEW b \in Blocks, NEW v \in Vals, Write(p, b, v) PROVE IInv'
  BY Zenon, <1>1, <1>4, WriteInductive
<1>5. ASSUME NEW b \in Blocks, Recycle(b) PROVE IInv'
  BY Zenon, <1>1, <1>5, RecycleInductive
<1>6. CASE Crash \/ Recover
  BY Zenon, <1>1, <1>6, CrashInductive, RecoverInductive
<1>7. CASE UNCHANGED vars
  <2> USE <1>7 DEF vars, disks, cache, lstate, procs, bounds
  <2>1. StateInv' /\ Active' = Active
    BY Zenon DEF IInv, StateInv, OutstandingExact, Active, Committing
  <2>2. ListInv'
    BY <2>1 DEF IInv, ListInv, Distinct
  <2>3. CacheInv'
    BY Zenon DEF IInv, CacheInv, DirtyIsLogged, Read
  <2>4. PhaseInv'
    BY Zenon DEF IInv, PhaseInv, HomeUpTo, CopiedUpTo, Read
  <2> QED
    BY Zenon, <1>1, <2>1, <2>2, <2>3, <2>4 DEF IInv
<1> QED
  BY Zenon, <1>2, <1>3, <1>4, <1>5, <1>6, <1>7 DEF Next, ProcStep
-----------------------------------------------------------------------------
\* The inductive invariant holds in every behaviour.
THEOREM InvariantHolds == Spec => []IInv
  BY InitInv, NextInv, PTL DEF Spec

\* The DIRTY buffers are the logged blocks not yet home, outstanding counts the
\* operations in progress, and a commit runs alone.
THEOREM LogIsExact == Spec => []LogExact
<1>1. IInv => LogExact
  BY Zenon DEF IInv, LogExact, CacheInv, StateInv
<1> QED
  BY <1>1, InvariantHolds, PTL

\* The header that a commit wrote is only ever replaced by the empty one, when
\* the disk has every block it lists.
THEOREM LogIsStable == Spec => LogStable
<1> DEFINE Stable == header # <<>> /\ header' # header =>
                       header' = <<>> /\ \A i \in 1..Len(header) : disk[header[i]] = logdisk[i]
<1>1. IInv /\ [Next]_vars => [Stable]_vars
  <2> SUFFICES ASSUME IInv, [Next]_vars, header # <<>>, header' # header PROVE Stable
    OBVIOUS
  <2>1. TypeOK'
    BY Zenon, TypeInductive
  <2>2. ASSUME NEW p \in Procs, Clear(p) PROVE Stable
    BY <2>1, <2>2, ClearInductive DEF HomeUpTo, IInv, TypeOK
  <2>3. ASSUME NEW p \in Procs, WriteHeader(p) PROVE FALSE
    BY Zenon, <2>1, <2>3, WriteHeaderInductive
  <2>4. ASSUME RecoverClear PROVE Stable
    BY <2>1, <2>4, RecoverInductive DEF Recover, RecoverClear, ClearLog, HomeUpTo, IInv, TypeOK
  <2>5. ASSUME NEW p \in Procs,
               \/ CallBegin(p) \/ Begin(p) \/ BeginSleeps(p) \/ End(p)
               \/ Sync(p) \/ Install(p) \/ Done(p)
        PROVE  FALSE
    BY Zenon, <2>5 DEF CallBegin, Begin, BeginSleeps, End, Sync, Install, InstallBlock, Done, disks
  <2>6. ASSUME NEW p \in Procs, NEW b \in Blocks, NEW v \in Vals, Write(p, b, v) PROVE FALSE
    BY Zenon, <2>6 DEF Write, disks
  <2>7. ASSUME NEW b \in Blocks, Recycle(b) PROVE FALSE
    BY Zenon, <2>7 DEF Recycle, disks
  <2>8. CASE Crash \/ RecoverRead \/ RecoverInstall \/ UNCHANGED vars
    BY Zenon, <2>8 DEF Crash, RecoverRead, RecoverInstall, InstallBlock, vars, disks
  <2> QED
    BY Zenon, <2>2, <2>3, <2>4, <2>5, <2>6, <2>7, <2>8 DEF Next, ProcStep, Recover
<1> QED
  BY <1>1, InvariantHolds, PTL DEF Spec, LogStable
-----------------------------------------------------------------------------
\* What recovery finds for a block: the log's copy when the header lists it,
\* and otherwise the disk's.
RecoveredFacts ==
  /\ \A b, i : i \in 1..Len(header) /\ header[i] = b => Recovered(b) = logdisk[i]
  /\ \A b : ~Contains(header, b) => Recovered(b) = disk[b]

\* The header lists no block twice, so recovery has no choice.
LEMMA RecoveredIs == IInv => RecoveredFacts
<1> SUFFICES ASSUME IInv PROVE RecoveredFacts
  OBVIOUS
<1>1. header \in Seq(Blocks) /\ Distinct(header)
  BY Zenon DEF IInv, TypeOK, ListInv
<1>2. ASSUME NEW b, NEW i, i \in 1..Len(header), header[i] = b PROVE Recovered(b) = logdisk[i]
  <2>1. Listed(b) = {i}
    BY Zenon, <1>1, <1>2 DEF Listed, Distinct
  <2> QED
    BY Zenon, <2>1 DEF Recovered
<1>3. ASSUME NEW b, ~Contains(header, b) PROVE Recovered(b) = disk[b]
  BY Zenon, <1>3 DEF Recovered, Listed, Contains
<1> QED
  BY Zenon, <1>2, <1>3 DEF RecoveredFacts

\* A step that leaves the header, the log's blocks and the disk alone leaves
\* what a crash would find alone.
LEMMA DurableSame ==
  ASSUME UNCHANGED <<disk, logdisk, header>>
  PROVE  Durable' = Durable
  BY DEF Durable, Recovered, Listed

\* What recovery would find before and after: a commit puts the processes'
\* view there, all at once; copying blocks home and clearing the header change
\* nothing.
LEMMA CommitIsAtomic ==
  ASSUME IInv, TypeOK', NEW p \in Procs, WriteHeader(p)
  PROVE  AD!Commit
<1>1. /\ IInv' /\ Active = {} /\ Active' = {} /\ mode = "up" /\ mode' = "up"
      /\ \A i \in 1..Len(log) : logdisk[i] = Read(log[i])
      /\ \A b \in Blocks : Contains(log, b) \/ Read(b) = disk[b]
      /\ header' = log /\ UNCHANGED <<disk, logdisk, buf>>
  BY Zenon, WriteHeaderInductive DEF WriteHeader, At, Up, cache
<1>2. RecoveredFacts'
  <2>1. (IInv => RecoveredFacts)'
    BY RecoveredIs, PTL
  <2> QED
    BY Zenon, <1>1, <2>1
<1>3. \A b \in Blocks : Recovered(b)' = Read(b)
  <2>1. ASSUME NEW b \in Blocks, NEW i \in 1..Len(log), log[i] = b PROVE Recovered(b)' = Read(b)
    <3>1. header'[i] = b /\ i \in 1..Len(header')
      BY Zenon, <1>1, <2>1
    <3>2. Recovered(b)' = logdisk'[i]
      BY Zenon, <1>2, <3>1 DEF RecoveredFacts
    <3> QED
      BY Zenon, <1>1, <2>1, <3>2
  <2>2. ASSUME NEW b \in Blocks, ~Contains(log, b) PROVE Recovered(b)' = Read(b)
    BY Zenon, <1>1, <1>2, <2>2 DEF RecoveredFacts
  <2> QED
    BY Zenon, <2>1, <2>2 DEF Contains
<1>4. Durable' = Current
  BY Zenon, <1>1, <1>3 DEF Durable, Current
<1>5. Current' = Current
  BY Zenon, <1>1 DEF Current, Read
<1> QED
  BY Zenon, <1>1, <1>4, <1>5 DEF AD!Commit

\* Copying a block home, by a commit or by recovery, changes nothing that a
\* crash would find.
LEMMA InstallIsInvisible ==
  ASSUME IInv, IInv', InstallBlock, header = log
  PROVE  Durable' = Durable
<1>1. RecoveredFacts /\ RecoveredFacts'
  <2>1. (IInv => RecoveredFacts)'
    BY RecoveredIs, PTL
  <2> QED
    BY Zenon, RecoveredIs, <2>1
<1>2. UNCHANGED <<logdisk, header>> /\ k \in 1..Len(header) /\ header \in Seq(Blocks)
      /\ \A b \in Blocks : b # header[k] => disk'[b] = disk[b]
  BY DEF InstallBlock, IInv, TypeOK
<1>3. ASSUME NEW b \in Blocks PROVE Recovered(b)' = Recovered(b)
  <2>1. CASE Contains(header, b)
    <3>1. PICK i \in 1..Len(header) : header[i] = b
      BY Zenon, <2>1 DEF Contains
    <3> QED
      BY <1>1, <1>2, <3>1 DEF RecoveredFacts
  <2>2. CASE ~Contains(header, b)
    <3>1. ~Contains(header', b) /\ b # header[k]
      BY Zenon, <1>2, <2>2 DEF Contains
    <3> QED
      BY <1>1, <1>2, <2>2, <3>1 DEF RecoveredFacts
  <2> QED
    BY Zenon, <2>1, <2>2
<1> QED
  BY Zenon, <1>3 DEF Durable

\* Clearing the header when its blocks are home changes nothing either.
LEMMA ClearIsInvisible ==
  ASSUME IInv, IInv', ClearLog, header = log, HomeUpTo(Len(log) + 1)
  PROVE  Durable' = Durable /\ \A b \in Blocks : Durable[b] = disk[b]
<1>1. RecoveredFacts /\ RecoveredFacts'
  <2>1. (IInv => RecoveredFacts)'
    BY RecoveredIs, PTL
  <2> QED
    BY Zenon, RecoveredIs, <2>1
<1>2. disk' = disk /\ header' = <<>> /\ header \in Seq(Blocks)
      /\ \A i \in 1..Len(header) : disk[header[i]] = logdisk[i]
  BY DEF ClearLog, HomeUpTo, IInv, TypeOK
<1>3. ASSUME NEW b \in Blocks PROVE Recovered(b) = disk[b]
  <2>1. CASE Contains(header, b)
    <3>1. PICK i \in 1..Len(header) : header[i] = b
      BY Zenon, <2>1 DEF Contains
    <3> QED
      BY <1>1, <1>2, <3>1 DEF RecoveredFacts
  <2> QED
    BY Zenon, <1>1, <2>1 DEF RecoveredFacts
<1>4. ASSUME NEW b \in Blocks PROVE Recovered(b)' = disk[b]
  <2>1. ~Contains(header', b)
    BY <1>2 DEF Contains
  <2> QED
    BY Zenon, <1>1, <1>2, <2>1 DEF RecoveredFacts
<1> QED
  BY Zenon, <1>3, <1>4 DEF Durable

\* The log implements the atomic disk: begin(), write(), end() and a crash are
\* the abstract ones, the write of the header is the commit, and no other step
\* of a commit, of recovery or of the cache can be seen.
THEOREM Refinement == Spec => ImplementsAtomicDisk
<1>1. Init => AD!Init
  <2> SUFFICES ASSUME Init PROVE AD!Init
    OBVIOUS
  <2>1. \A b \in Blocks : Recovered(b) = Zero /\ Read(b) = Zero
    BY DEF Init, Recovered, Listed, Read
  <2> QED
    BY Zenon, <2>1 DEF Init, AD!Init, Durable, Current, Active
<1>2. IInv /\ [Next]_vars => [AD!Next]_(AD!vars)
  <2> SUFFICES ASSUME IInv, [Next]_vars PROVE [AD!Next]_(AD!vars)
    OBVIOUS
  <2>1. TypeOK' /\ IInv'
    BY Zenon, TypeInductive, NextInv
  <2>2. ASSUME mode = "up", mode' = "up", \A b \in Blocks : Read(b)' = Read(b)
        PROVE  Current' = Current
    BY Zenon, <2>2 DEF Current
  <2>3. ASSUME mode = "up", mode' = "up", UNCHANGED <<disk, buf>> PROVE Current' = Current
    BY Zenon, <2>2, <2>3 DEF Read
  <2>4. ASSUME NEW p \in Procs, CallBegin(p) \/ BeginSleeps(p) PROVE UNCHANGED AD!vars
    <3>1. Active' = Active
      BY Zenon, <2>4 DEF CallBegin, BeginSleeps, Goto, At, Active, IInv, TypeOK
    <3> QED
      BY Zenon, <2>3, <2>4, <3>1, DurableSame DEF CallBegin, BeginSleeps, At, Up, disks, cache, AD!vars
  <2>5. ASSUME NEW p \in Procs, Begin(p) PROVE AD!Begin(p)
    BY Zenon, <2>1, <2>3, <2>5, BeginInductive, DurableSame DEF Begin, At, Up, disks, cache, AD!Begin
  <2>6. ASSUME NEW p \in Procs, End(p) PROVE AD!End(p)
    BY ZenonT(30), <2>1, <2>3, <2>6, EndInductive, DurableSame DEF End, At, Up, disks, cache, AD!End
  <2>7. ASSUME NEW p \in Procs, NEW b \in Blocks, NEW v \in Vals, Write(p, b, v)
        PROVE  AD!Write(p, b, v)
    <3>1. p \in Active /\ Active' = Active
      BY Zenon, <2>1, <2>7, WriteInductive DEF Write, At, Up, Active
    <3>2. mode = "up" /\ mode' = "up" /\ UNCHANGED <<disk, logdisk, header>>
          /\ \A c \in Blocks : Read(c)' = IF c = b THEN v ELSE Read(c)
      BY Zenon, <2>7, LogAssumption DEF Write, At, Up, disks, Read, IInv, TypeOK
    <3>3. Current' = [Current EXCEPT ![b] = v]
      BY ZenonT(30), <3>2 DEF Current
    <3> QED
      BY Zenon, <3>1, <3>2, <3>3, DurableSame DEF AD!Write
  <2>8. ASSUME NEW p \in Procs, Sync(p) PROVE UNCHANGED AD!vars
    <3>1. /\ Active' = Active /\ header = <<>> /\ header' = <<>> /\ disk' = disk
          /\ mode = "up" /\ mode' = "up" /\ \A b \in Blocks : Read(b)' = Read(b)
      BY Zenon, <2>1, <2>8, SyncInductive DEF Sync, At, Up
    <3>2. Durable' = Durable
      BY <3>1 DEF Durable, Recovered, Listed
    <3> QED
      BY Zenon, <2>2, <3>1, <3>2 DEF AD!vars
  <2>9. ASSUME NEW p \in Procs, WriteHeader(p) PROVE AD!Commit
    BY Zenon, <2>1, <2>9, CommitIsAtomic
  <2>10. ASSUME NEW p \in Procs, Install(p) PROVE UNCHANGED AD!vars
    BY Zenon, <2>1, <2>2, <2>10, InstallInductive, InstallIsInvisible DEF Install, At, Up, AD!vars
  <2>11. ASSUME NEW p \in Procs, Clear(p) PROVE UNCHANGED AD!vars
    BY Zenon, <2>1, <2>3, <2>11, ClearInductive, ClearIsInvisible
    DEF Clear, ClearLog, At, Up, cache, AD!vars
  <2>12. ASSUME NEW p \in Procs, Done(p) PROVE UNCHANGED AD!vars
    BY ZenonT(30), <2>1, <2>3, <2>12, DoneInductive, DurableSame DEF Done, At, Up, disks, cache, AD!vars
  <2>13. ASSUME NEW b \in Blocks, Recycle(b) PROVE UNCHANGED AD!vars
    BY ZenonT(30), <2>1, <2>2, <2>13, RecycleInductive, DurableSame DEF Recycle, Up, disks, AD!vars
  <2>14. CASE Crash
    <3>1. Durable' = Durable /\ Active' = {}
      BY ZenonT(30), <2>1, <2>14, CrashInductive, DurableSame DEF Crash, disks
    <3>2. mode' = "read"
      BY Zenon, <2>14 DEF Crash
    <3>3. Current' = Durable'
      BY Zenon, <3>2 DEF Current
    <3> QED
      BY Zenon, <3>1, <3>3 DEF AD!Crash, AD!Next
  <2>15. CASE Recover
    <3>1. Active' = Active /\ mode # "up"
      BY ZenonT(30), <2>1, <2>15, RecoverInductive
    <3>2. CASE RecoverRead
      BY Zenon, <3>1, <3>2, DurableSame DEF RecoverRead, disks, Current, AD!vars
    <3>3. CASE RecoverInstall
      <4>1. Durable' = Durable
        BY Zenon, <2>1, <2>15, <3>3, RecoverInductive, InstallIsInvisible DEF RecoverInstall
      <4> QED
        BY Zenon, <3>1, <3>3, <4>1 DEF RecoverInstall, Current, AD!vars
    <3>4. CASE RecoverClear
      <4>1. Durable' = Durable /\ \A b \in Blocks : Durable[b] = disk[b]
        BY Zenon, <2>1, <2>15, <3>4, RecoverInductive, ClearIsInvisible DEF RecoverClear
      <4>2. \A b \in Blocks : Read(b)' = disk[b]
        BY Zenon, <3>4 DEF RecoverClear, ClearLog, cache, Read, IInv, CacheInv
      <4>3. Current' = Current
        BY Zenon, <3>1, <3>4, <4>1, <4>2 DEF RecoverClear, Current, Durable
      <4> QED
        BY Zenon, <3>1, <4>1, <4>3 DEF AD!vars
    <3> QED
      BY Zenon, <2>15, <3>2, <3>3, <3>4 DEF Recover
  <2>16. CASE UNCHANGED vars
    BY Zenon, <2>16, DurableSame DEF vars, disks, cache, procs, Active, Current, Read, AD!vars
  <2> QED
    BY Zenon, <2>4, <2>5, <2>6, <2>7, <2>8, <2>9, <2>10, <2>11, <2>12, <2>13, <2>14, <2>15, <2>16
    DEF Next, ProcStep, AD!Next
<1> QED
  BY <1>1, <1>2, InvariantHolds, PTL DEF Spec, ImplementsAtomicDisk, AD!Spec
-----------------------------------------------------------------------------
(* No panic: the reservations leave room for every write.                  *)

\* The blocks that the operations in progress may still add to the log.
Reserved == {r \in Active \X (1..OpBlocks) : r[2] > Cardinality(wrote[r[1]])}

\* Room for every write still to come: one operation alone began with an
\* empty log, and two or more left two reservations' slack when the last
\* one began.
Room(n) == n <= OpBlocks \/ n + 2 * (MAXOPBLOCKS - OpBlocks) <= LOGSIZE
RoomInv ==
  /\ \A p \in Procs :
       /\ IsFiniteSet(wrote[p]) /\ Cardinality(wrote[p]) <= OpBlocks
       /\ pc[p] \in {"idle", "begin", "asleep"} => wrote[p] = {}
       /\ pc[p] = "op" => \A b \in wrote[p] : Contains(log, b)
  /\ mode = "up" => Room(Len(log) + Cardinality(Reserved))
  /\ Room(Len(header))
  /\ panic = "none"

\* The reservations are finitely many, at most OpBlocks for an operation.
LEMMA ReservedBound ==
  IInv => IsFiniteSet(Reserved) /\ Cardinality(Reserved) \in Nat
          /\ Cardinality(Reserved) <= outstanding * OpBlocks
<1> SUFFICES ASSUME IInv
             PROVE  IsFiniteSet(Reserved) /\ Cardinality(Reserved) \in Nat
                    /\ Cardinality(Reserved) <= outstanding * OpBlocks
  OBVIOUS
<1>1. IsFiniteSet(1..OpBlocks) /\ Cardinality(1..OpBlocks) = OpBlocks
  BY FS_Interval, LogAssumption
<1>2. IsFiniteSet(Active) /\ Cardinality(Active) = outstanding
  BY Zenon DEF IInv, StateInv, OutstandingExact
<1>3. /\ IsFiniteSet(Active \X (1..OpBlocks))
      /\ Cardinality(Active \X (1..OpBlocks)) = outstanding * OpBlocks
  BY ZenonT(30), <1>1, <1>2, FS_Product
<1>4. Reserved \in SUBSET (Active \X (1..OpBlocks))
  BY Zenon DEF Reserved
<1> QED
  BY Zenon, <1>3, <1>4, FS_Subset, FS_CardinalityType

\* While there is room, neither is_full() nor recovery's test of the header is true.
LEMMA RoomMeansFits ==
  ASSUME NEW n \in Nat, NEW m \in Nat, m <= n, Room(n)
  PROVE  Room(m) /\ m < LOGSIZE /\ m < SIZE - 1
  BY LogAssumption, RoomAssumption DEF Room

\* With no more reservations and no longer a log there is still room.
LEMMA RoomShrinks ==
  ASSUME IInv, RoomInv, IInv', mode = "up", Reserved' \subseteq Reserved, Len(log') <= Len(log)
  PROVE  Room(Len(log') + Cardinality(Reserved'))
<1>1. IsFiniteSet(Reserved) /\ Cardinality(Reserved) \in Nat
  BY Zenon, ReservedBound
<1>2. Cardinality(Reserved') <= Cardinality(Reserved) /\ Cardinality(Reserved') \in Nat
  BY Zenon, <1>1, FS_Subset, FS_CardinalityType
<1>3. Len(log) \in Nat /\ Len(log') \in Nat
  BY DEF IInv, TypeOK
<1> QED
  BY <1>1, <1>2, <1>3, RoomMeansFits DEF RoomInv

\* begin() admits an operation only if its blocks will fit.
LEMMA BeginRoom ==
  ASSUME IInv, RoomInv, IInv', NEW p \in Procs, Begin(p)
  PROVE  RoomInv'
<1>1. /\ pc[p] = "begin" /\ MayBegin /\ outstanding' = outstanding + 1 /\ mode = "up"
      /\ \A q \in Procs : pc'[q] = IF q = p THEN "op" ELSE pc[q]
      /\ UNCHANGED <<header, log, wrote, panic, mode>>
  BY Zenon DEF Begin, At, Up, Goto, IInv, TypeOK, disks
<1>2. outstanding \in Nat /\ Len(log) \in Nat /\ OpBlocks \in Nat /\ MAXOPBLOCKS \in Nat /\ LOGSIZE \in Nat
  BY LogAssumption DEF IInv, TypeOK
<1>3. Cardinality(Reserved') \in Nat /\ Cardinality(Reserved') <= (outstanding + 1) * OpBlocks
  <2>1. (IInv => Cardinality(Reserved) \in Nat /\ Cardinality(Reserved) <= outstanding * OpBlocks)'
    BY ReservedBound, PTL
  <2> QED
    BY Zenon, <1>1, <2>1
<1>4. CASE outstanding = 0
  <2>1. Active = {}
    BY ZenonT(30), <1>4, FS_EmptySet DEF IInv, StateInv, OutstandingExact
  <2>2. log = <<>>
    BY Zenon, <1>1, <2>1 DEF IInv, ListInv, MayBegin
  <2> QED
    BY <1>1, <1>2, <1>3, <1>4, <2>2 DEF RoomInv, Room
<1>5. CASE outstanding > 0
  <2> DEFINE n == outstanding + 1
             slack == MAXOPBLOCKS - OpBlocks
  <2>1. n \in Nat /\ n >= 2 /\ slack \in Nat /\ Len(log) + n * MAXOPBLOCKS <= LOGSIZE
    BY <1>1, <1>2, <1>5, RoomAssumption DEF MayBegin
  <2>2. n * MAXOPBLOCKS = n * OpBlocks + n * slack
    BY <1>2
  <2>3. n * slack >= 2 * slack
    <3>1. n = 2 + (n - 2) /\ n - 2 \in Nat
      BY <2>1
    <3>2. (n - 2) * slack \in Nat
      BY <2>1, <3>1
    <3>3. n * slack = 2 * slack + (n - 2) * slack
      BY <1>2
    <3> HIDE DEF n, slack
    <3> QED
      BY <2>1, <3>2, <3>3
  <2>4. n * OpBlocks \in Nat /\ n * slack \in Nat /\ n * MAXOPBLOCKS \in Nat
    BY <1>2, <2>1
  <2>5. Cardinality(Reserved') <= n * OpBlocks
    BY Zenon, <1>3
  <2>6. Len(log) + Cardinality(Reserved') + 2 * slack <= LOGSIZE
    <3> HIDE DEF n, slack
    <3> QED
      BY <1>2, <1>3, <2>1, <2>2, <2>3, <2>4, <2>5
  <2>7. Room(Len(log') + Cardinality(Reserved'))
    BY Zenon, <1>1, <2>6 DEF Room
  <2> QED
    BY Zenon, <1>1, <2>7 DEF RoomInv
<1> QED
  BY <1>2, <1>4, <1>5

\* A logged write uses one block of its operation's reservation at most.
LEMMA WriteRoom ==
  ASSUME IInv, RoomInv, IInv', NEW p \in Procs, NEW b \in Blocks, NEW v \in Vals, Write(p, b, v)
  PROVE  RoomInv'
<1>1. /\ pc[p] = "op" /\ mode = "up" /\ p \in Active /\ outstanding # 0
      /\ Cardinality(wrote[p] \cup {b}) <= OpBlocks
      /\ \A q \in Procs : wrote'[q] = IF q = p THEN wrote[p] \cup {b} ELSE wrote[q]
      /\ UNCHANGED <<header, pc, mode>>
  BY Zenon, OperationFacts DEF Write, At, Up, IInv, TypeOK, disks
<1>2. IsFiniteSet(Reserved) /\ Cardinality(Reserved) \in Nat /\ Len(log) \in Nat
  BY ReservedBound DEF IInv, TypeOK
<1>3. ~IsFull
  BY <1>1, <1>2, RoomMeansFits, LogAssumption DEF IsFull, RoomInv
<1>4. panic' = "none" /\ log' = Insert(b)
  BY <1>1, <1>3 DEF Write, IInv, TypeOK
<1>5. /\ Len(log') = IF Contains(log, b) THEN Len(log) ELSE Len(log) + 1
      /\ \A c : Contains(log', c) <=> Contains(log, c) \/ c = b
  BY Zenon, <1>4, InsertFacts DEF IInv, TypeOK, ListInv
<1>6. Active' = Active
  BY Zenon, <1>1 DEF Active
<1>7. /\ IsFiniteSet(wrote[p]) /\ IsFiniteSet(wrote'[p]) /\ Cardinality(wrote[p]) \in Nat
      /\ Cardinality(wrote'[p]) = IF b \in wrote[p] THEN Cardinality(wrote[p]) ELSE Cardinality(wrote[p]) + 1
  BY <1>1, FS_AddElement, FS_CardinalityType DEF RoomInv
<1>8. \A q \in Procs : /\ IsFiniteSet(wrote'[q]) /\ Cardinality(wrote'[q]) <= OpBlocks
                       /\ pc'[q] \in {"idle", "begin", "asleep"} => wrote'[q] = {}
                       /\ pc'[q] = "op" => \A c \in wrote'[q] : Contains(log', c)
  BY ZenonT(30), <1>1, <1>5, <1>7 DEF RoomInv
<1>9. Room(Len(log') + Cardinality(Reserved'))
  <2>1. CASE b \in wrote[p]
    <3>1. Contains(log, b)
      BY Zenon, <1>1, <2>1 DEF RoomInv
    <3>2. wrote' = wrote
      BY <1>1, <2>1 DEF Write, IInv, TypeOK
    <3>3. Reserved' = Reserved
      BY Zenon, <1>6, <3>2 DEF Reserved
    <3> QED
      BY Zenon, <1>1, <1>2, <1>5, <3>1, <3>3 DEF RoomInv
  <2>2. CASE b \notin wrote[p]
    <3> DEFINE c == Cardinality(wrote[p])
               r == <<p, c + 1>>
    <3>0. c \in Nat /\ c + 1 \in 1..OpBlocks /\ Cardinality(wrote'[p]) = c + 1
      BY <1>1, <1>7, <2>2, LogAssumption
    <3>1. r \in Reserved
      BY <1>1, <3>0 DEF Reserved
    <3>2. Reserved' = Reserved \ {r}
      <4>1. ASSUME NEW q \in Active, NEW i \in 1..OpBlocks
            PROVE  i > Cardinality(wrote'[q]) <=> i > Cardinality(wrote[q]) /\ ~(q = p /\ i = c + 1)
        BY <1>1, <3>0 DEF Active
      <4> QED
        BY <1>6, <4>1 DEF Reserved
    <3>3. Cardinality(Reserved') = Cardinality(Reserved) - 1 /\ Cardinality(Reserved') \in Nat
      BY ZenonT(30), <1>2, <3>1, <3>2, FS_RemoveElement, FS_CardinalityType
    <3>4. Len(log') + Cardinality(Reserved') <= Len(log) + Cardinality(Reserved)
          /\ Len(log') + Cardinality(Reserved') \in Nat
      BY <1>2, <1>5, <3>3
    <3> QED
      BY <1>1, <1>2, <3>4, RoomMeansFits DEF RoomInv
  <2> QED
    BY Zenon, <2>1, <2>2
<1> QED
  BY Zenon, <1>1, <1>4, <1>8, <1>9 DEF RoomInv

\* A step in which no operation begins or writes, and no commit, crash or
\* recovery touches the log, leaves as much room as there was.
LEMMA QuietRoom ==
  ASSUME IInv, RoomInv, IInv', mode = "up",
         UNCHANGED <<header, log, panic>>, Active' \subseteq Active,
         \A q \in Procs : \/ wrote'[q] = {} /\ pc'[q] # "op"
                          \/ wrote'[q] = wrote[q]
                             /\ (pc'[q] \in {"idle", "begin", "asleep"} =>
                                   pc[q] \in {"idle", "begin", "asleep"})
  PROVE  RoomInv'
<1>1. \A q \in Active' : q \in Active /\ q \in Procs /\ wrote'[q] = wrote[q]
  BY Zenon DEF Active
<1>2. Reserved' \subseteq Reserved
  BY Zenon, <1>1 DEF Reserved
<1>3. Len(log) \in Nat
  BY DEF IInv, TypeOK
<1>4. Room(Len(log') + Cardinality(Reserved'))
  BY <1>2, <1>3, RoomShrinks
<1>5. ASSUME NEW q \in Procs
      PROVE  /\ IsFiniteSet(wrote'[q]) /\ Cardinality(wrote'[q]) <= OpBlocks
             /\ pc'[q] \in {"idle", "begin", "asleep"} => wrote'[q] = {}
             /\ pc'[q] = "op" => \A b \in wrote'[q] : Contains(log', b)
  <2>1. CASE wrote'[q] = {} /\ pc'[q] # "op"
    BY <2>1, FS_EmptySet, LogAssumption
  <2>2. CASE wrote'[q] = wrote[q]
             /\ (pc'[q] \in {"idle", "begin", "asleep"} => pc[q] \in {"idle", "begin", "asleep"})
    <3>1. pc'[q] = "op" => q \in Active
      BY Zenon DEF Active
    <3>2. pc'[q] = "op" => pc[q] = "op"
      BY Zenon, <3>1 DEF Active
    <3> QED
      BY Zenon, <2>2, <3>2 DEF RoomInv
  <2> QED
    BY Zenon, <2>1, <2>2
<1> QED
  BY Zenon, <1>4, <1>5 DEF RoomInv

\* A commit writes a header that fits, recovery reads it back, and a crash or
\* the end of a commit empties the log.
LEMMA EmptyRoom ==
  ASSUME IInv, RoomInv, IInv', panic' = "none", Room(Len(header')), Active' = {},
         log' = <<>> \/ mode' # "up",
         \A q \in Procs : \/ wrote'[q] = {}
                          \/ wrote'[q] = wrote[q] /\ (pc'[q] = pc[q] \/ Committing(q)')
  PROVE  RoomInv'
<1>1. Reserved' = {}
  BY Zenon DEF Reserved
<1>2. mode' = "up" => Room(Len(log') + Cardinality(Reserved'))
  BY <1>1, FS_EmptySet, LogAssumption DEF Room
<1>3. ASSUME NEW q \in Procs
      PROVE  /\ IsFiniteSet(wrote'[q]) /\ Cardinality(wrote'[q]) <= OpBlocks
             /\ pc'[q] \in {"idle", "begin", "asleep"} => wrote'[q] = {}
             /\ pc'[q] # "op"
  <2>1. pc'[q] # "op"
    BY Zenon DEF Active
  <2>2. CASE wrote'[q] = {}
    BY <2>1, <2>2, FS_EmptySet, LogAssumption
  <2>3. CASE wrote'[q] = wrote[q] /\ (pc'[q] = pc[q] \/ Committing(q)')
    BY Zenon, <2>1, <2>3 DEF RoomInv, Committing
  <2> QED
    BY Zenon, <2>2, <2>3
<1> QED
  BY Zenon, <1>2, <1>3 DEF RoomInv

\* The header that commit() writes fits, as the log it copies does.
LEMMA WriteHeaderRoom ==
  ASSUME IInv, RoomInv, IInv', NEW p \in Procs, WriteHeader(p)
  PROVE  RoomInv'
<1>1. /\ mode = "up" /\ header' = log /\ pc[p] = "sync" /\ Active' = {} /\ Active = {}
      /\ \A q \in Procs : pc'[q] = IF q = p THEN "install" ELSE pc[q]
      /\ UNCHANGED <<log, wrote, panic, mode>>
  BY ZenonT(30), WriteHeaderInductive DEF WriteHeader, At, Up, Goto, lstate, IInv, TypeOK
<1>2. Reserved' = Reserved
  BY Zenon, <1>1 DEF Reserved
<1>3. Cardinality(Reserved) \in Nat /\ Len(log) \in Nat
  BY ReservedBound DEF IInv, TypeOK
<1>4. Room(Len(log) + Cardinality(Reserved)) /\ Room(Len(log))
  BY <1>1, <1>3, RoomMeansFits DEF RoomInv
<1> QED
  BY Zenon, <1>1, <1>2, <1>4 DEF RoomInv

\* Room is kept by every step.
LEMMA RoomInductive == IInv /\ RoomInv /\ [Next]_vars => RoomInv'
<1> SUFFICES ASSUME IInv, RoomInv, [Next]_vars PROVE RoomInv'
  OBVIOUS
<1>1. TypeOK' /\ IInv' /\ TypeOK
  BY Zenon, TypeInductive, NextInv DEF IInv
<1> USE DEF disks, cache, lstate, procs, bounds, At, Up
<1>2. ASSUME NEW p \in Procs, CallBegin(p) \/ BeginSleeps(p) PROVE RoomInv'
  <2>1. Active' = Active
    BY Zenon, <1>1, <1>2 DEF CallBegin, BeginSleeps, Goto, Active, TypeOK
  <2> QED
    BY Zenon, <1>1, <1>2, <2>1, QuietRoom DEF CallBegin, BeginSleeps, Goto, TypeOK
<1>3. ASSUME NEW p \in Procs, End(p) PROVE RoomInv'
  <2>1. /\ mode = "up" /\ UNCHANGED <<header, log>> /\ pc[p] = "op"
    BY Zenon, <1>3 DEF End
  <2>2. Active' \subseteq Active /\ UNCHANGED panic
    BY ZenonT(30), <1>1, <1>3, EndInductive DEF End, IInv
  <2>3. \/ /\ wrote' = wrote
           /\ \A q \in Procs : pc'[q] = pc[q] \/ pc'[q] \in {"sync", "done"}
        \/ /\ pc' = [q \in Procs |-> IF q = p THEN "idle" ELSE IF pc[q] = "asleep" THEN "begin" ELSE pc[q]]
           /\ wrote' = [wrote EXCEPT ![p] = {}]
    BY Zenon, <1>1, <1>3 DEF End, Goto, Wakeup, WakeAll, TypeOK
  <2> QED
    BY ZenonT(30), <1>1, <2>1, <2>2, <2>3, QuietRoom DEF TypeOK
<1>4. ASSUME NEW p \in Procs, Sync(p) PROVE RoomInv'
  BY Zenon, <1>1, <1>4, SyncInductive, QuietRoom DEF Sync
<1>5. ASSUME NEW p \in Procs, Install(p) PROVE RoomInv'
  BY Zenon, <1>1, <1>5, InstallInductive, QuietRoom DEF Install, InstallBlock
<1>6. ASSUME NEW p \in Procs, Clear(p) PROVE RoomInv'
  <2>1. /\ Active' = {} /\ log' = <<>> /\ header' = <<>> /\ UNCHANGED <<wrote, panic>>
        /\ \A q \in Procs : pc'[q] = IF q = p THEN "done" ELSE pc[q]
    BY ZenonT(30), <1>1, <1>6, ClearInductive, CommitterAlone DEF Clear, ClearLog, Goto, TypeOK, Committing
  <2>2. \A q \in Procs : pc'[q] = pc[q] \/ Committing(q)'
    BY Zenon, <2>1 DEF Committing
  <2>3. Room(Len(header'))
    BY <2>1, LogAssumption DEF Room
  <2> QED
    BY Zenon, <1>1, <2>1, <2>2, <2>3, EmptyRoom DEF RoomInv
<1>7. ASSUME NEW p \in Procs, Done(p) PROVE RoomInv'
  <2>1. /\ mode = "up" /\ Active' = Active /\ UNCHANGED <<header, log, panic>>
        /\ pc' = [q \in Procs |-> IF q = p THEN "idle" ELSE IF pc[q] = "asleep" THEN "begin" ELSE pc[q]]
        /\ wrote' = [wrote EXCEPT ![p] = {}]
    BY ZenonT(30), <1>1, <1>7, DoneInductive DEF Done, Wakeup, WakeAll
  <2> QED
    BY Zenon, <1>1, <2>1, QuietRoom DEF TypeOK
<1>8. ASSUME NEW b \in Blocks, Recycle(b) PROVE RoomInv'
  BY ZenonT(30), <1>1, <1>8, RecycleInductive, QuietRoom DEF Recycle
<1>9. CASE Crash
  BY ZenonT(30), <1>1, <1>9, CrashInductive, EmptyRoom DEF Crash, RoomInv
<1>10. CASE Recover
  <2>1. Active' = {} /\ UNCHANGED <<pc, wrote>>
    BY Zenon, <1>1, <1>10, RecoverInductive DEF Recover, RecoverRead, RecoverInstall, RecoverClear
  <2>2. ~TooLarge
    BY <1>1, RoomMeansFits, LogAssumption DEF TooLarge, RoomInv, TypeOK
  <2>3. panic' = "none"
    BY Zenon, <1>10, <2>2 DEF Recover, RecoverRead, RecoverInstall, RecoverClear, InstallBlock, ClearLog, RoomInv
  <2>4. header' = header \/ header' = <<>>
    BY Zenon, <1>10 DEF Recover, RecoverRead, RecoverInstall, RecoverClear, InstallBlock, ClearLog
  <2>5. Room(Len(header'))
    BY <2>4, LogAssumption DEF RoomInv, Room
  <2>6. log' = <<>> \/ mode' # "up"
    BY Zenon, <1>10 DEF Recover, RecoverRead, RecoverInstall, RecoverClear, ClearLog
  <2> QED
    BY Zenon, <1>1, <2>1, <2>3, <2>5, <2>6, EmptyRoom
<1>11. CASE UNCHANGED vars
  BY Zenon, <1>11 DEF vars, RoomInv, Reserved, Active
<1> QED
  BY Zenon, <1>1, <1>2, <1>3, <1>4, <1>5, <1>6, <1>7, <1>8, <1>9, <1>10, <1>11,
     BeginRoom, WriteRoom, WriteHeaderRoom DEF Next, ProcStep

\* The log never panics: begin()'s reservations leave room for every write, no
\* operation ends during a commit, and recovery accepts every header.
THEOREM NeverPanics == Spec => []NoPanic
<1>1. Init => RoomInv
  <2> SUFFICES ASSUME Init PROVE RoomInv
    OBVIOUS
  <2>1. Reserved = {} /\ Len(log) = 0 /\ Len(header) = 0
    BY Zenon DEF Init, Reserved, Active
  <2> QED
    BY <2>1, FS_EmptySet, LogAssumption DEF Init, RoomInv, Room
<1>2. RoomInv => NoPanic
  BY Zenon DEF RoomInv, NoPanic
<1> QED
  BY <1>1, <1>2, RoomInductive, InvariantHolds, PTL DEF Spec
=============================================================================
