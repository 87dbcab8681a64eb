----------------------------- MODULE FileSystem -----------------------------
(***************************************************************************)
(* Inodes, directories and path names (kernel/src/fs.rs) under the system  *)
(* calls that use them (sysfile.rs).                                       *)
(*                                                                         *)
(* The work under an inode's sleep lock is one action when the call holds  *)
(* no other lock and lets it go at the end; where a call holds two locks,  *)
(* or keeps one while put() takes another, every acquisition is a step of  *)
(* its own.  References still to be put are queued in todo.  Blocks and    *)
(* inodes on disk are changed through the log, whose operations are atomic *)
(* (modules Log and AtomicDisk), so a crash is not modelled here.          *)
(***************************************************************************)
EXTENDS Naturals, Sequences, FiniteSets, FiniteSetsExt, SequencesExt

CONSTANTS Procs,
          Inums,      \* inode numbers, from 1; 1 is the root
          NINODE,     \* entries of the inode cache
          NOFILE,     \* descriptors of a process
          Blocks,     \* data blocks
          MAXFILE,    \* blocks of a file
          MaxCalls,   \* bound: calls with a path
          Ops         \* bound: the calls, with paths without "." and ".."

ASSUME FileSystemAssumption ==
  /\ Inums \subseteq Nat \ {0} /\ 1 \in Inums
  /\ {NINODE, NOFILE, MAXFILE, MaxCalls} \subseteq Nat \ {0}

ROOTINO == 1
None == 0
Device == NINODE + 1     \* what a descriptor of the console holds
Slots == 1..NINODE
Fds == 1..NOFILE

VARIABLES
  disk,      \* the inodes on disk
  bitmap,    \* the blocks marked in use
  icache,    \* the inode cache
  pr,        \* the processes
  stray,     \* references in icache whose last pointer is gone
  calls,     \* calls with a path so far
  panic      \* the assertion that failed

vars == <<disk, bitmap, icache, pr, stray, calls, panic>>

\* DInode: a directory's entries are pairs <<name, inode number>>.
Blank == [typ |-> "Unused", nlink |-> 0, size |-> 0, addrs |-> {}, ents |-> {}]
Unheld == [inum |-> None, ref |-> 0, valid |-> FALSE, by |-> None, d |-> Blank]
NoOp == [kind |-> "none", path |-> <<>>, new |-> <<>>]

Init ==
  /\ disk = [i \in Inums |-> IF i = ROOTINO
               THEN [Blank EXCEPT !.typ = "Dir", !.nlink = 1, !.size = 1, !.addrs = {Min(Blocks)}]
               ELSE Blank]
  /\ bitmap = {Min(Blocks)}
  /\ icache = [s \in Slots |-> IF s = 1
                 THEN [Unheld EXCEPT !.inum = ROOTINO, !.ref = Cardinality(Procs)] ELSE Unheld]
  /\ pr = [p \in Procs |-> [pc |-> "user", op |-> NoOp, rest |-> <<>>, name |-> "",
                            cur |-> None, ip |-> None, todo |-> <<>>,
                            cwd |-> 1, fds |-> [f \in Fds |-> None]]]
  /\ stray = [s \in Slots |-> 0]
  /\ calls = 0
  /\ panic = "none"
-----------------------------------------------------------------------------
(* The inode cache.                                                        *)

\* Inode::get: the entry of inode i, or a free one, or none.
SlotOf(ic, i) ==
  LET hit == {s \in Slots : ic[s].ref > 0 /\ ic[s].inum = i}
      idle == {s \in Slots : ic[s].ref = 0}
  IN IF hit # {} THEN Min(hit) ELSE IF idle # {} THEN Min(idle) ELSE None
\* Mutant: a hit is returned without counting the new reference.
GetUncounted(ic, i) ==
  LET s == SlotOf(ic, i) IN
  IF s = None \/ ic[s].ref > 0 THEN ic
  ELSE [ic EXCEPT ![s] = [Unheld EXCEPT !.inum = i, !.ref = 1]]
Get(ic, i) ==
  LET s == SlotOf(ic, i) IN
  IF s = None THEN ic
  ELSE IF ic[s].ref > 0 THEN [ic EXCEPT ![s].ref = @ + 1]
  ELSE [ic EXCEPT ![s] = [Unheld EXCEPT !.inum = i, !.ref = 1]]

At(p, point) == panic = "none" /\ pr[p].pc = point /\ pr[p].todo = <<>>
Free(s) == icache[s].by = None

\* The inode that lock() shows: read from the disk unless valid.
Node(s) == IF icache[s].valid THEN icache[s].d ELSE disk[icache[s].inum]
Load(ic, s) == [ic EXCEPT ![s].valid = TRUE, ![s].d = Node(s)]
\* A change of the inode followed by update(): cache and disk.
Store(ic, s, d) == [ic EXCEPT ![s].valid = TRUE, ![s].d = d]

\* lock() on an inode without a type fails an assertion.
Typed(s) == Node(s).typ # "Unused"
Fail(msg) == panic' = msg /\ UNCHANGED <<disk, bitmap, icache, pr, stray, calls>>

\* Mutant: the inode is freed although others still use it.
FreedAnyway(s) == icache[s].valid /\ icache[s].d.nlink = 0
LastRef(s) == icache[s].valid /\ icache[s].d.nlink = 0 /\ icache[s].ref = 1

\* Mutant: balloc forgets to mark the blocks in the bitmap.
Unmarked(B) == bitmap
\* balloc
Marked(B) == bitmap \cup B
\* trunc: bfree for every block of the inode.
Trunc(s) == bitmap \ icache[s].d.addrs
\* bmap for n blocks that are not there yet: as many as the disk still has.
Bmap(n) ==
  LET spare == Blocks \ bitmap
  IN CHOOSE B \in kSubset(Min({n, Cardinality(spare)}), spare) : TRUE

\* put(), first half under the sleep lock: trunc and free after the last
\* link and reference.
Put(p) ==
  /\ panic = "none" /\ pr[p].todo # <<>> /\ Head(pr[p].todo)[2] = "put"
  /\ LET s == Head(pr[p].todo)[1]
         i == icache[s].inum
     IN /\ Free(s)
        /\ IF LastRef(s)
           THEN /\ bitmap' = Trunc(s)
                /\ disk' = [disk EXCEPT ![i] = Blank]
                /\ icache' = [icache EXCEPT ![s].valid = FALSE, ![s].d = Blank]
           ELSE UNCHANGED <<bitmap, disk, icache>>
        /\ pr' = [pr EXCEPT ![p].todo = <<<<s, "dec">>>> \o Tail(@)]
        /\ UNCHANGED <<stray, calls, panic>>

\* put(), second half under ICACHE.
PutRef(p) ==
  /\ panic = "none" /\ pr[p].todo # <<>> /\ Head(pr[p].todo)[2] = "dec"
  /\ LET s == Head(pr[p].todo)[1] IN
       icache' = IF icache[s].ref = 1 THEN [icache EXCEPT ![s] = Unheld]
                 ELSE [icache EXCEPT ![s].ref = @ - 1]
  /\ pr' = [pr EXCEPT ![p].todo = Tail(@)]
  /\ UNCHANGED <<disk, bitmap, stray, calls, panic>>

Puts(slots) == [k \in DOMAIN slots |-> <<slots[k], "put">>]
\* The call of p is over, but for the puts.
Done(p, slots) == [pr[p] EXCEPT !.pc = "user", !.op = NoOp, !.rest = <<>>, !.name = "",
                                !.cur = None, !.ip = None, !.todo = Puts(slots)]
-----------------------------------------------------------------------------
(* Path names.                                                             *)

Found(d, n) == {e \in d.ents : e[1] = n}
Parental(op) == op.kind \in {"creat", "mkdir", "mknod", "unlink"}

\* namex starts at the root or at the current directory.
Start(p, path, w) ==
  LET abs == path # <<>> /\ path[1] = "/"
      s == IF abs THEN SlotOf(icache, ROOTINO) ELSE pr[p].cwd
      elems == IF abs THEN Tail(path) ELSE path
  IN IF s = None
     THEN pr' = [pr EXCEPT ![p] = Done(p, <<>>)] /\ UNCHANGED icache
     ELSE /\ icache' = IF abs THEN Get(icache, ROOTINO) ELSE [icache EXCEPT ![s].ref = @ + 1]
          /\ pr' = [pr EXCEPT ![p] =
               [w EXCEPT !.pc = "walk", !.cur = s,
                         !.rest = IF Parental(w.op) \/ w.ip # None THEN Front(elems) ELSE elems,
                         !.name = IF elems = <<>> THEN "" ELSE Last(elems)]]

Call(p, op) ==
  /\ At(p, "user")
  /\ calls < MaxCalls /\ calls' = calls + 1
  /\ Start(p, op.path, [pr[p] EXCEPT !.op = op])
  /\ UNCHANGED <<disk, bitmap, stray, panic>>

\* One element of namex: with_putlock around is_dir and dir_lookup.  A failure
\* ends the call; link() then forgets the inode it has counted up already.
Walk(p) ==
  LET w == pr[p]
      s == w.cur
      hits == Found(Node(s), Head(w.rest))
  IN /\ At(p, "walk") /\ w.rest # <<>> /\ Free(s)
     /\ IF ~Typed(s) THEN Fail("ilock: no type")
        ELSE /\ \/ /\ Node(s).typ # "Dir" \/ hits = {} \/ \E e \in hits : SlotOf(icache, e[2]) = None
                   /\ icache' = Load(icache, s)
                   /\ stray' = IF w.ip # None THEN [stray EXCEPT ![w.ip] = @ + 1] ELSE stray
                   /\ pr' = [pr EXCEPT ![p] = Done(p, <<s>>)]
                \/ \E e \in hits :
                     /\ Node(s).typ = "Dir" /\ SlotOf(icache, e[2]) # None
                     /\ icache' = Get(Load(icache, s), e[2])
                     /\ pr' = [pr EXCEPT ![p] = [w EXCEPT !.cur = SlotOf(icache, e[2]),
                                                          !.rest = Tail(@), !.todo = Puts(<<s>>)]]
                     /\ UNCHANGED stray
             /\ UNCHANGED <<disk, bitmap, calls, panic>>

\* namei_parent: the directory is locked to look at its type, and unlocked.
Parent(p) ==
  LET w == pr[p]
      s == w.cur
  IN /\ At(p, "walk") /\ w.rest = <<>> /\ (Parental(w.op) \/ w.ip # None) /\ Free(s)
     /\ IF ~Typed(s) THEN Fail("ilock: no type")
        ELSE /\ icache' = Load(icache, s)
             /\ IF Node(s).typ = "Dir"
                THEN pr' = [pr EXCEPT ![p].pc = "dir"] /\ UNCHANGED stray
                ELSE /\ pr' = [pr EXCEPT ![p] = Done(p, <<s>>)]
                     /\ stray' = IF w.ip # None THEN [stray EXCEPT ![w.ip] = @ + 1] ELSE stray
             /\ UNCHANGED <<disk, bitmap, calls, panic>>
-----------------------------------------------------------------------------
(* create: open with O_CREATE, mkdir and mknod.                            *)

TypeFor(kind) == CASE kind = "creat" -> "File" [] kind = "mkdir" -> "Dir" [] OTHER -> "Dev"
Creates(p) == pr[p].op.kind \in {"creat", "mkdir", "mknod"}

\* The directory is locked; a name that is there ends in "exist", after the
\* directory is put; one that is not, or that finds the cache full, in "ialloc".
Create(p) ==
  LET w == pr[p]
      s == w.cur
      hits == {e \in Found(Node(s), w.name) : SlotOf(icache, e[2]) # None}
  IN /\ At(p, "dir") /\ Creates(p) /\ Free(s)
     /\ IF hits = {}
        THEN /\ icache' = [Load(icache, s) EXCEPT ![s].by = p]
             /\ pr' = [pr EXCEPT ![p].pc = "ialloc"]
        ELSE \E e \in hits :
             /\ icache' = Get(Load(icache, s), e[2])
             /\ pr' = [pr EXCEPT ![p] = [w EXCEPT !.pc = "exist", !.cur = SlotOf(icache, e[2]),
                                                  !.todo = Puts(<<s>>)]]
     /\ UNCHANGED <<disk, bitmap, stray, calls, panic>>

\* ialloc: the first inode of type 0; it stays allocated if the cache is full.
Ialloc(p) ==
  LET w == pr[p]
      idle == {i \in Inums : disk[i].typ = "Unused"}
      i == Min(idle)
      unlocked == [icache EXCEPT ![w.cur].by = None]
  IN /\ At(p, "ialloc")
     /\ IF idle = {}
        THEN /\ icache' = unlocked /\ UNCHANGED disk
             /\ pr' = [pr EXCEPT ![p] = Done(p, <<w.cur>>)]
        ELSE /\ disk' = [disk EXCEPT ![i] = [Blank EXCEPT !.typ = TypeFor(w.op.kind)]]
             /\ IF SlotOf(icache, i) = None
                THEN /\ icache' = unlocked
                     /\ pr' = [pr EXCEPT ![p] = Done(p, <<w.cur>>)]
                ELSE /\ icache' = Get(icache, i)
                     /\ pr' = [pr EXCEPT ![p].pc = "init", ![p].ip = SlotOf(icache, i)]
     /\ UNCHANGED <<bitmap, stray, calls, panic>>

\* The new inode is locked, counted and linked; the directory is then put
\* while the new inode stays locked.
InitInode(p) ==
  LET w == pr[p]
      s == w.ip
      new == icache[s].inum
      dir == w.op.kind = "mkdir"
      spare == Blocks \ bitmap
      b == Min(spare)
      d == [Node(s) EXCEPT !.nlink = 1,
              !.addrs = IF dir THEN {b} ELSE {}, !.size = IF dir THEN 1 ELSE 0]
      dp == [Node(w.cur) EXCEPT !.nlink = IF dir THEN @ + 1 ELSE @,
               !.ents = @ \cup {<<w.name, new>>}]
  IN /\ At(p, "init") /\ Free(s)
     /\ IF ~Typed(s) THEN Fail("ilock: no type")
        ELSE IF dir /\ spare = {} THEN Fail("create new dir link")
        ELSE IF \E e \in Found(Node(w.cur), w.name) : SlotOf(icache, e[2]) # None
             THEN Fail("create new link")
        ELSE /\ bitmap' = IF dir THEN Marked({b}) ELSE bitmap
             /\ icache' = [Store(Store(icache, s, d), w.cur, dp) EXCEPT ![s].by = p, ![w.cur].by = None]
             /\ disk' = [disk EXCEPT ![new] = d, ![icache[w.cur].inum] = dp]
             /\ pr' = [pr EXCEPT ![p] = [w EXCEPT !.pc = "made", !.cur = s, !.ip = None,
                                                  !.todo = Puts(<<w.cur>>)]]
             /\ UNCHANGED <<stray, calls, panic>>

\* mkdir and mknod unlock and put the inode.
Made(p) ==
  /\ At(p, "made") /\ pr[p].op.kind # "creat"
  /\ icache' = [icache EXCEPT ![pr[p].cur].by = None]
  /\ pr' = [pr EXCEPT ![p] = Done(p, <<pr[p].cur>>)]
  /\ UNCHANGED <<disk, bitmap, stray, calls, panic>>

\* The rest of open: the file and the descriptor, with the inode locked.  When
\* the file table is full the guard unlocks and puts the inode; when the
\* descriptors are, the file's guard puts it first, still locked.  A device
\* file holds no pointer to the inode, which keeps its reference.
OpenTail(p, ic) ==
  LET s == pr[p].cur
      unlocked == [ic EXCEPT ![s].by = None]
      idle == {f \in Fds : pr[p].fds[f] = None}
  IN \/ /\ icache' = unlocked
        /\ pr' = [pr EXCEPT ![p] = Done(p, <<s>>)]
        /\ UNCHANGED <<stray, calls, panic, disk, bitmap>>
     \/ idle = {} /\ ic[s].d.typ # "Dev" /\ Fail("nested sleep lock")
     \/ /\ idle # {}
        /\ icache' = unlocked
        /\ pr' = [pr EXCEPT ![p] = [Done(p, <<>>) EXCEPT
                    !.fds[Min(idle)] = IF ic[s].d.typ = "Dev" THEN Device ELSE s]]
        /\ stray' = IF ic[s].d.typ = "Dev" THEN [stray EXCEPT ![s] = @ + 1] ELSE stray
        /\ UNCHANGED <<calls, panic, disk, bitmap>>

\* create found the name: only a file will do, whatever was asked for.
Exist(p) ==
  LET s == pr[p].cur IN
  /\ At(p, "exist") /\ Free(s)
  /\ IF ~Typed(s) THEN Fail("ilock: no type")
     ELSE IF pr[p].op.kind # "creat" \/ Node(s).typ # "File"
     THEN /\ icache' = Load(icache, s)
          /\ pr' = [pr EXCEPT ![p] = Done(p, <<s>>)]
          /\ UNCHANGED <<disk, bitmap, stray, calls, panic>>
     ELSE OpenTail(p, Load(icache, s))

OpenNew(p) == At(p, "made") /\ pr[p].op.kind = "creat" /\ OpenTail(p, icache)

\* open without O_CREATE.
Open(p) ==
  LET s == pr[p].cur IN
  /\ At(p, "walk") /\ pr[p].rest = <<>> /\ pr[p].op.kind = "open" /\ Free(s)
  /\ IF Typed(s) THEN OpenTail(p, Load(icache, s)) ELSE Fail("ilock: no type")
-----------------------------------------------------------------------------
(* unlink.                                                                 *)

\* dir_unlink with the directory locked; the inode of the name is next.
Unlink(p) ==
  LET w == pr[p]
      s == w.cur
      hits == {e \in Found(Node(s), w.name) : SlotOf(icache, e[2]) # None}
  IN /\ At(p, "dir") /\ w.op.kind = "unlink" /\ Free(s)
     /\ IF hits = {}
        THEN /\ icache' = Load(icache, s)
             /\ pr' = [pr EXCEPT ![p] = Done(p, <<s>>)]
        ELSE \E e \in hits :
             /\ icache' = [Get(Load(icache, s), e[2]) EXCEPT ![s].by = p]
             /\ pr' = [pr EXCEPT ![p] = [w EXCEPT !.pc = "victim", !.ip = SlotOf(icache, e[2])]]
     /\ UNCHANGED <<disk, bitmap, stray, calls, panic>>

IsUnlinkable(d) == d.typ = "Dir" => d.ents = {}

\* Both locked: the entry goes; the directory is put while the inode stays
\* locked.  A directory in use stays, and is put with its parent locked.
Victim(p) ==
  LET w == pr[p]
      s == w.ip
      d == Node(s)
      dp == [Node(w.cur) EXCEPT !.ents = {e \in @ : e # <<w.name, icache[s].inum>>},
               !.nlink = IF d.typ = "Dir" THEN @ - 1 ELSE @]
  IN /\ At(p, "victim") /\ Free(s)
     /\ IF ~Typed(s) THEN Fail("ilock: no type")
        ELSE IF d.nlink = 0 THEN Fail("unlink inode < 1 links")
        ELSE /\ IF IsUnlinkable(d)
                THEN /\ icache' = [Store(Load(icache, s), w.cur, dp) EXCEPT ![s].by = p, ![w.cur].by = None]
                     /\ disk' = [disk EXCEPT ![icache[w.cur].inum] = dp]
                     /\ pr' = [pr EXCEPT ![p] = [w EXCEPT !.pc = "victim2", !.cur = s, !.ip = None,
                                                          !.todo = Puts(<<w.cur>>)]]
                ELSE /\ icache' = Load(icache, s) /\ UNCHANGED disk
                     /\ pr' = [pr EXCEPT ![p] = [w EXCEPT !.pc = "drop", !.ip = None, !.todo = Puts(<<s>>)]]
             /\ UNCHANGED <<bitmap, stray, calls, panic>>

Victim2(p) ==
  LET s == pr[p].cur
      d == [icache[s].d EXCEPT !.nlink = @ - 1]
  IN /\ At(p, "victim2")
     /\ icache' = [Store(icache, s, d) EXCEPT ![s].by = None]
     /\ disk' = [disk EXCEPT ![icache[s].inum] = d]
     /\ pr' = [pr EXCEPT ![p] = Done(p, <<s>>)]
     /\ UNCHANGED <<bitmap, stray, calls, panic>>

\* The guard of the directory is dropped after the puts of an error path.
Drop(p) ==
  /\ At(p, "drop")
  /\ icache' = [icache EXCEPT ![pr[p].cur].by = None]
  /\ pr' = [pr EXCEPT ![p] = Done(p, <<pr[p].cur>>)]
  /\ UNCHANGED <<disk, bitmap, stray, calls, panic>>
-----------------------------------------------------------------------------
(* link.                                                                   *)

\* Mutant: link adds a name without counting it.
Uncounted(d) == d
CountUp(d) == [d EXCEPT !.nlink = @ + 1]

\* The inode is counted up and unlocked, then the second path is walked.
Link(p) ==
  LET w == pr[p]
      s == w.cur
      d == CountUp(Node(s))
  IN /\ At(p, "walk") /\ w.rest = <<>> /\ w.op.kind = "link" /\ w.ip = None /\ Free(s)
     /\ IF ~Typed(s) THEN Fail("ilock: no type")
        ELSE /\ IF Node(s).typ = "Dir"
                THEN /\ icache' = Load(icache, s) /\ UNCHANGED disk
                     /\ pr' = [pr EXCEPT ![p] = Done(p, <<s>>)]
                ELSE /\ icache' = Store(icache, s, d)
                     /\ disk' = [disk EXCEPT ![icache[s].inum] = d]
                     /\ pr' = [pr EXCEPT ![p] = [w EXCEPT !.pc = "link", !.ip = s, !.cur = None]]
             /\ UNCHANGED <<bitmap, stray, calls, panic>>

\* namei_parent of the new name; the cache may have no room for the root.
LinkParent(p) ==
  /\ At(p, "link")
  /\ Start(p, pr[p].op.new, pr[p])
  /\ stray' = IF pr'[p].cur = None THEN [stray EXCEPT ![pr[p].ip] = @ + 1] ELSE stray
  /\ UNCHANGED <<disk, bitmap, calls, panic>>

\* dir_link: a name that exists is put with the directory locked, then the
\* count is undone; otherwise the entry is written and both are put.
LinkEntry(p) ==
  LET w == pr[p]
      s == w.cur
      hits == {e \in Found(Node(s), w.name) : SlotOf(icache, e[2]) # None}
      dp == [Node(s) EXCEPT !.ents = @ \cup {<<w.name, icache[w.ip].inum>>}]
  IN /\ At(p, "dir") /\ w.op.kind = "link" /\ Free(s)
     /\ IF hits = {}
        THEN /\ icache' = Store(icache, s, dp)
             /\ disk' = [disk EXCEPT ![icache[s].inum] = dp]
             /\ pr' = [pr EXCEPT ![p] = Done(p, <<s, w.ip>>)]
        ELSE \E e \in hits :
             /\ icache' = [Get(Load(icache, s), e[2]) EXCEPT ![s].by = p]
             /\ pr' = [pr EXCEPT ![p] = [w EXCEPT !.pc = "undo", !.todo = Puts(<<SlotOf(icache, e[2])>>)]]
             /\ UNCHANGED disk
     /\ UNCHANGED <<bitmap, stray, calls, panic>>

LinkUndo(p) ==
  LET w == pr[p]
      s == w.ip
      d == [Node(s) EXCEPT !.nlink = @ - 1]
  IN /\ At(p, "undo") /\ Free(s)
     /\ IF ~Typed(s) THEN Fail("ilock: no type")
        ELSE /\ icache' = Store(icache, s, d)
             /\ disk' = [disk EXCEPT ![icache[s].inum] = d]
             /\ pr' = [pr EXCEPT ![p] = [w EXCEPT !.pc = "drop", !.ip = None, !.todo = Puts(<<s>>)]]
             /\ UNCHANGED <<bitmap, stray, calls, panic>>
-----------------------------------------------------------------------------
(* chdir, close and write.                                                 *)

Chdir(p) ==
  LET s == pr[p].cur IN
  /\ At(p, "walk") /\ pr[p].rest = <<>> /\ pr[p].op.kind = "chdir" /\ Free(s)
  /\ IF ~Typed(s) THEN Fail("ilock: no type")
     ELSE /\ icache' = Load(icache, s)
          /\ pr' = [pr EXCEPT ![p] = IF Node(s).typ # "Dir" THEN Done(p, <<s>>)
                                     ELSE [Done(p, <<pr[p].cwd>>) EXCEPT !.cwd = s]]
          /\ UNCHANGED <<disk, bitmap, stray, calls, panic>>

Close(p, f) ==
  LET s == pr[p].fds[f] IN
  /\ At(p, "user") /\ s # None
  /\ pr' = [pr EXCEPT ![p].fds[f] = None, ![p].todo = IF s = Device THEN <<>> ELSE Puts(<<s>>)]
  /\ UNCHANGED <<disk, bitmap, icache, stray, calls, panic>>

\* writei of n blocks at the end of a file.  bmap fills addrs in memory; only
\* a write that succeeds calls update().
Write(p, f, n) ==
  LET s == pr[p].fds[f]
      d == Node(s)
      need == Max({d.size + n, Cardinality(d.addrs)}) - Cardinality(d.addrs)
      got == Bmap(need)
      grown == [d EXCEPT !.addrs = @ \cup got]
      done == [grown EXCEPT !.size = d.size + n]
  IN /\ At(p, "user") /\ s \in Slots /\ Free(s)
     /\ d.typ = "File" /\ d.size + n <= MAXFILE
     /\ bitmap' = Marked(got)
     /\ IF Cardinality(got) = need
        THEN icache' = Store(icache, s, done) /\ disk' = [disk EXCEPT ![icache[s].inum] = done]
        ELSE icache' = Store(icache, s, grown) /\ UNCHANGED disk
     /\ UNCHANGED <<pr, stray, calls, panic>>
-----------------------------------------------------------------------------
Step(p) ==
  \/ Put(p) \/ PutRef(p) \/ Walk(p) \/ Parent(p)
  \/ Create(p) \/ Ialloc(p) \/ InitInode(p) \/ Made(p) \/ Exist(p) \/ OpenNew(p) \/ Open(p)
  \/ Unlink(p) \/ Victim(p) \/ Victim2(p) \/ Drop(p)
  \/ Link(p) \/ LinkParent(p) \/ LinkEntry(p) \/ LinkUndo(p) \/ Chdir(p)
Next ==
  \E p \in Procs :
    \/ Step(p)
    \/ \E op \in Ops : Call(p, op)
    \/ \E f \in Fds : Close(p, f) \/ \E n \in 1..MAXFILE : Write(p, f, n)
Spec == Init /\ [][Next]_vars
-----------------------------------------------------------------------------
Types == {"Unused", "Dir", "File", "Dev"}

\* Every variable has a value of its type.
TypeOK ==
  /\ \A i \in Inums : disk[i].typ \in Types /\ disk[i].nlink \in Nat
  /\ bitmap \subseteq Blocks
  /\ \A s \in Slots : icache[s].ref \in Nat /\ icache[s].inum \in Inums \cup {None}
  /\ \A p \in Procs : pr[p].cwd \in Slots /\ \A f \in Fds : pr[p].fds[f] \in 0..Device

\* The pointers to cache entry s: directories, open files, the locals of calls
\* and queued puts.
Pointers(s) ==
  LET Of(p) == (IF pr[p].cwd = s THEN 1 ELSE 0) + (IF pr[p].cur = s THEN 1 ELSE 0)
               + (IF pr[p].ip = s THEN 1 ELSE 0)
               + Cardinality({f \in Fds : pr[p].fds[f] = s})
               + Cardinality({k \in DOMAIN pr[p].todo : pr[p].todo[k][1] = s})
  IN FoldSet(LAMBDA p, n : n + Of(p), 0, Procs)

\* ip->ref "tracks the number of in-memory pointers to the entry", but for the
\* references that open of a device and a failing link leave behind; an inode
\* has one entry; a lock is held by a process with a pointer to the entry.
RefsExact ==
  /\ TypeOK
  /\ \A s \in Slots : icache[s].ref = Pointers(s) + stray[s]
  /\ \A s, t \in Slots : icache[s].ref > 0 /\ icache[t].ref > 0 /\ icache[s].inum = icache[t].inum => s = t
  /\ \A s \in Slots : icache[s].by # None => pr[icache[s].by].cur = s

\* Directory entries never dangle: the inode a name leads to is allocated and
\* counts every name it has; a cached inode is the one on disk (write-through)
\* but for blocks that a failed write left in memory.
NamesCovered ==
  /\ \A d \in Inums : \A e \in disk[d].ents : disk[e[2]].typ # "Unused"
  /\ \A i \in Inums :
       disk[i].nlink >= Cardinality({<<d, e>> \in Inums \X UNION {disk[j].ents : j \in Inums} :
                                        e \in disk[d].ents /\ e[2] = i})
  /\ \A s \in Slots : icache[s].valid =>
       [icache[s].d EXCEPT !.addrs = {}] = [disk[icache[s].inum] EXCEPT !.addrs = {}]

\* A block belongs to one inode and is marked in the bitmap: bfree's "freeing
\* free block" cannot fail.
Owned(i) ==
  disk[i].addrs \cup UNION {icache[s].d.addrs : s \in {t \in Slots : icache[t].valid /\ icache[t].inum = i}}
BlocksOwned ==
  /\ \A i \in Inums : Owned(i) \subseteq bitmap
  /\ \A i, j \in Inums : i # j => Owned(i) \cap Owned(j) = {}

\* Of the assertions only these can fail: a full descriptor table in open, and
\* in create a full disk or, where it hides an existing name, a full inode cache
\* ("create new link").  lock() always finds a type, unlink a count.
OnlyKnownPanics ==
  panic \in {"none", "nested sleep lock", "create new dir link", "create new link"}

\* No two processes wait for a lock that the other holds.
Wants(p) ==
  IF pr[p].todo # <<>> THEN IF Head(pr[p].todo)[2] = "put" THEN Head(pr[p].todo)[1] ELSE None
  ELSE IF pr[p].pc \in {"init", "victim", "undo"} THEN pr[p].ip ELSE None
NoLockCycle ==
  \A p, q \in Procs :
    p # q /\ Wants(p) # None /\ Wants(q) # None
      => ~(icache[Wants(p)].by = q /\ icache[Wants(q)].by = p)
=============================================================================
