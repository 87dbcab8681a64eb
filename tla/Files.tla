------------------------------- MODULE Files --------------------------------
(***************************************************************************)
(* Pipes (kernel/src/pipe.rs), the table of open files (file.rs), and the  *)
(* descriptor tables and system calls that join them (proc.rs, sysfile.rs).*)
(*                                                                         *)
(* A section under FILES, under PIPES or under a pipe's lock is one action.*)
(* Drops that are still to come, of guards on an error path, of the files  *)
(* of exit() or of a File's last reference, are queued in todo[p] and run  *)
(* one section at a time.  Descriptor tables are private to their process. *)
(***************************************************************************)
EXTENDS Naturals, Sequences, FiniteSets, FiniteSetsExt

CONSTANTS Procs, InitProc,     \* InitProc is the process that never exits
          NOFILE, NFILE,   \* descriptors of a process, files of the system
          Slabs,           \* bound: the pages that PipeSlab::new may use
          SLAB_NPIPES,     \* pipes of a slab
          PAGE_SIZE,       \* bytes of a pipe
          NPages,          \* pages of the allocator
          WIDTH,           \* values of a usize counter, a multiple of PAGE_SIZE
          Sizes,           \* lengths of the buffers of read and write
          Profiles         \* builds: "dev" checks + for overflow, "release" does not

ASSUME FilesAssumption ==
  /\ InitProc \in Procs
  /\ {NOFILE, NFILE, SLAB_NPIPES, PAGE_SIZE, NPages, WIDTH} \subseteq Nat \ {0}
  /\ WIDTH > PAGE_SIZE /\ WIDTH % PAGE_SIZE = 0
  /\ Slabs \subseteq Nat \ {0} /\ Sizes \subseteq Nat
  /\ Profiles \subseteq {"dev", "release"}

Fds == 1..NOFILE
FileIds == 1..NFILE
None == 0
Pipes == Slabs \X (1..SLAB_NPIPES)
NoPipe == <<None, None>>
End(q, side) == [pipe |-> q, side |-> side]
Ends == [pipe : Pipes, side : {"r", "w"}]
NoEnd == End(NoPipe, "r")
Zeroes == [k \in 0..(PAGE_SIZE - 1) |-> 0]

VARIABLES
  fds,                   \* Proc.files: a file or None
  ref, fp,               \* File.ref_cnt and File.fp
  PIPES,                 \* the current slab, or None
  slabs, bitmap,         \* the slabs in memory; the pipes allocated in each
  free,                  \* free pages of the allocator
  open,                  \* Pipe.read_open and write_open
  nread, nwrite, data,   \* Pipe: counters and contents
  pc, cur, left,         \* the call of each process, its pipe, bytes to go
  rf,                    \* pipe(): the file of the reader
  todo,                  \* drops to run, in order
  killed,
  profile                \* the build, chosen before the system starts

files == <<ref, fp>>
slabv == <<PIPES, slabs, bitmap, free>>
rings == <<nread, nwrite, data>>
calls == <<cur, left, rf>>
vars == <<fds, files, slabv, open, rings, pc, calls, todo, killed, profile>>

\* pipe::init leaves one slab without pipes.
Init ==
  /\ fds = [p \in Procs |-> [d \in Fds |-> None]]
  /\ ref = [f \in FileIds |-> 0] /\ fp = [f \in FileIds |-> NoEnd]
  /\ PIPES = Min(Slabs) /\ slabs = {PIPES} /\ free = NPages - 1
  /\ bitmap = [s \in Slabs |-> {}] /\ open = {}
  /\ nread = [q \in Pipes |-> 0] /\ nwrite = [q \in Pipes |-> 0]
  /\ data = [q \in Pipes |-> Zeroes]
  /\ pc = [p \in Procs |-> IF p = InitProc THEN "run" ELSE "unused"]
  /\ cur = [p \in Procs |-> NoPipe] /\ left = [p \in Procs |-> 0]
  /\ rf = [p \in Procs |-> None]
  /\ todo = [p \in Procs |-> <<>>]
  /\ killed = [p \in Procs |-> FALSE]
  /\ profile \in Profiles

DropFile(f) == [what |-> "file", file |-> f, end |-> NoEnd]
DropEnd(e) == [what |-> "end", file |-> None, end |-> e]
DropPipe(q) == [what |-> "pipe", file |-> None, end |-> End(q, "r")]

At(p, point) == pc[p] = point /\ todo[p] = <<>>
User(p) == At(p, "run") /\ ~killed[p]

FreeFds(p) == {d \in Fds : fds[p][d] = None}
FreeFiles == {f \in FileIds : ref[f] = 0}
\* alloc_fd: the lowest free descriptor.
AllocFd(table, f) == [table EXCEPT ![Min({d \in Fds : table[d] = None})] = f]
-----------------------------------------------------------------------------
(* pipe(): a pipe of the current slab, two files, two descriptors.         *)

\* The ring of a pipe that is new (Pipe::reset) or deallocated.
Fresh(q) ==
  /\ nread' = [nread EXCEPT ![q] = 0] /\ nwrite' = [nwrite EXCEPT ![q] = 0]
  /\ data' = [data EXCEPT ![q] = Zeroes]
FreeIn(s) == (1..SLAB_NPIPES) \ bitmap[s]
NewSlab == Min(Slabs \ slabs)

\* pipe::alloc under PIPES, with memory: a new slab if there is none; the slab
\* stays current only while it has a free pipe.
AllocPipe(p) ==
  /\ User(p)
  /\ PIPES = None => slabs # Slabs
  /\ LET s == IF PIPES = None THEN NewSlab ELSE PIPES
         k == Min(FreeIn(s))
         need == IF PIPES = None THEN 2 ELSE 1
     IN /\ free >= need /\ free' = free - need
        /\ slabs' = slabs \cup {s}
        /\ bitmap' = [bitmap EXCEPT ![s] = @ \cup {k}]
        /\ PIPES' = IF FreeIn(s) = {k} THEN None ELSE s
        /\ open' = open \cup {End(<<s, k>>, "r"), End(<<s, k>>, "w")}
        /\ Fresh(<<s, k>>)
        /\ cur' = [cur EXCEPT ![p] = <<s, k>>]
  /\ pc' = [pc EXCEPT ![p] = "rfile"]
  /\ UNCHANGED <<fds, files, left, rf, todo, killed>>

\* No page for the data: the slab, new or not, has been taken out of PIPES and
\* is not put back.
AllocPipeFails(p) ==
  /\ User(p)
  /\ PIPES = None => slabs # Slabs
  /\ free = IF PIPES = None THEN 1 ELSE 0
  /\ free' = 0
  /\ slabs' = IF PIPES = None THEN slabs \cup {NewSlab} ELSE slabs
  /\ PIPES' = None
  /\ UNCHANGED <<fds, files, bitmap, open, rings, pc, calls, todo, killed>>

\* file::alloc under FILES: the first file without references.
TakeFile(e) ==
  /\ ref' = [ref EXCEPT ![Min(FreeFiles)] = 1]
  /\ fp' = [fp EXCEPT ![Min(FreeFiles)] = e]

\* Mutant: on failure the guard of the reader is forgotten.
ForgetReader(q) == <<DropEnd(End(q, "w"))>>
\* The guards of both ends, dropped in the reverse order.
DropBoth(q) == <<DropEnd(End(q, "w")), DropEnd(End(q, "r"))>>

ReaderFile(p) ==
  /\ At(p, "rfile")
  /\ IF FreeFiles # {}
     THEN /\ TakeFile(End(cur[p], "r"))
          /\ rf' = [rf EXCEPT ![p] = Min(FreeFiles)]
          /\ pc' = [pc EXCEPT ![p] = "wfile"] /\ UNCHANGED <<todo, cur>>
     ELSE /\ todo' = [todo EXCEPT ![p] = DropBoth(cur[p])]
          /\ pc' = [pc EXCEPT ![p] = "run"]
          /\ cur' = [cur EXCEPT ![p] = NoPipe] /\ UNCHANGED <<files, rf>>
  /\ UNCHANGED <<fds, slabv, open, rings, left, killed>>

\* The second file and, in the caller sysfile::pipe, the descriptors: both or,
\* through the guards, neither.
WriterFile(p) ==
  /\ At(p, "wfile")
  /\ IF FreeFiles = {}
     THEN /\ todo' = [todo EXCEPT ![p] = <<DropFile(rf[p]), DropEnd(End(cur[p], "w"))>>]
          /\ UNCHANGED <<files, fds>>
     ELSE /\ TakeFile(End(cur[p], "w"))
          /\ IF Cardinality(FreeFds(p)) >= 2
             THEN /\ fds' = [fds EXCEPT ![p] = AllocFd(AllocFd(@, rf[p]), Min(FreeFiles))]
                  /\ UNCHANGED todo
             ELSE /\ todo' = [todo EXCEPT ![p] = <<DropFile(Min(FreeFiles)), DropFile(rf[p])>>]
                  /\ UNCHANGED fds
  /\ pc' = [pc EXCEPT ![p] = "run"]
  /\ rf' = [rf EXCEPT ![p] = None]
  /\ cur' = [cur EXCEPT ![p] = NoPipe]
  /\ UNCHANGED <<slabv, open, rings, left, killed>>
-----------------------------------------------------------------------------
(* dup, fork, close and exit.                                              *)

Dup(p, d) ==
  /\ User(p) /\ fds[p][d] # None /\ FreeFds(p) # {}
  /\ fds' = [fds EXCEPT ![p] = AllocFd(@, fds[p][d])]
  /\ ref' = [ref EXCEPT ![fds[p][d]] = @ + 1]
  /\ UNCHANGED <<fp, slabv, open, rings, pc, calls, todo, killed>>

Holds(p, f) == Cardinality({d \in Fds : fds[p][d] = f})

\* fork(): File::dup for every descriptor of the parent.
Fork(p, q) ==
  /\ User(p) /\ At(q, "unused")
  /\ fds' = [fds EXCEPT ![q] = fds[p]]
  /\ ref' = [f \in FileIds |-> ref[f] + Holds(p, f)]
  /\ pc' = [pc EXCEPT ![q] = "run"]
  /\ UNCHANGED <<fp, slabv, open, rings, calls, todo, killed>>

Close(p, d) ==
  /\ User(p) /\ fds[p][d] # None
  /\ fds' = [fds EXCEPT ![p][d] = None]
  /\ todo' = [todo EXCEPT ![p] = <<DropFile(fds[p][d])>>]
  /\ UNCHANGED <<files, slabv, open, rings, pc, calls, killed>>

\* exit(), called or forced by a kill: every open file is closed, in order.
Exit(p) ==
  /\ p # InitProc /\ At(p, "run")
  /\ todo' = [todo EXCEPT ![p] =
                SelectSeq([d \in Fds |-> DropFile(fds[p][d])], LAMBDA t : t.file # None)]
  /\ fds' = [fds EXCEPT ![p] = [d \in Fds |-> None]]
  /\ pc' = [pc EXCEPT ![p] = "exit"]
  /\ UNCHANGED <<files, slabv, open, rings, calls, killed>>

Exited(p) ==
  /\ At(p, "exit")
  /\ pc' = [pc EXCEPT ![p] = "unused"]
  /\ killed' = [killed EXCEPT ![p] = FALSE]
  /\ UNCHANGED <<fds, files, slabv, open, rings, calls, todo>>

Drops(p, what) == todo[p] # <<>> /\ Head(todo[p]).what = what
NextDrop(p, more) == todo' = [todo EXCEPT ![p] = more \o Tail(@)]

\* File::close under FILES; the last reference then closes what fp points to.
CloseFile(p) ==
  /\ Drops(p, "file")
  /\ LET f == Head(todo[p]).file IN
       /\ ref' = [ref EXCEPT ![f] = @ - 1]
       /\ IF ref[f] = 1
          THEN fp' = [fp EXCEPT ![f] = NoEnd] /\ NextDrop(p, <<DropEnd(fp[f])>>)
          ELSE UNCHANGED fp /\ NextDrop(p, <<>>)
  /\ UNCHANGED <<fds, slabv, open, rings, pc, calls, killed>>

Asleep(side) == IF side = "r" THEN "rsleep" ELSE "wsleep"
\* wakeup(): the sleepers on a side of pipe q go back to their loop.
Wake(q, side) ==
  [p \in Procs |-> IF pc[p] = Asleep(side) /\ cur[p] = q THEN side ELSE pc[p]]
Other(side) == IF side = "r" THEN "w" ELSE "r"

\* The wakeup in close().
Hangup(e) == Wake(e.pipe, Other(e.side))

\* A panic in write() leaves the pipe's lock taken, by a processor that loops.
Poisoned(q) == \E p \in Procs : pc[p] = "panic" /\ cur[p] = q

\* PipeReader::close and PipeWriter::close: whoever closes second deallocates.
CloseEnd(p) ==
  /\ Drops(p, "end")
  /\ LET e == Head(todo[p]).end IN
       /\ ~Poisoned(e.pipe)
       /\ open' = open \ {e}
       /\ pc' = Hangup(e)
       /\ NextDrop(p, IF End(e.pipe, Other(e.side)) \in open THEN <<>> ELSE <<DropPipe(e.pipe)>>)
  /\ UNCHANGED <<fds, files, slabv, rings, calls, killed>>

\* Mutant: a slab that is freed stays current.
KeepsFreedSlab(s) == PIPES
WithoutSlab(s) == IF PIPES = s THEN None ELSE PIPES

\* pipe::dealloc under PIPES: a slab without pipes is freed; another becomes
\* the current one, in place of any other.
Dealloc(p) ==
  /\ Drops(p, "pipe")
  /\ LET s == Head(todo[p]).end.pipe[1]
         k == Head(todo[p]).end.pipe[2]
     IN /\ bitmap' = [bitmap EXCEPT ![s] = @ \ {k}]
        /\ IF bitmap[s] = {k}
           THEN /\ free' = free + 2 /\ slabs' = slabs \ {s}
                /\ PIPES' = WithoutSlab(s)
           ELSE free' = free + 1 /\ UNCHANGED slabs /\ PIPES' = s
        /\ Fresh(<<s, k>>)
  /\ NextDrop(p, <<>>)
  /\ UNCHANGED <<fds, files, open, pc, calls, killed>>
-----------------------------------------------------------------------------
(* read and write.                                                         *)

\* The call finds the file of descriptor d; the bytes of a write are numbered.
Call(p, d, n, side) ==
  /\ User(p) /\ fds[p][d] # None
  /\ LET e == fp[fds[p][d]] IN
       /\ e.side = side
       /\ cur' = [cur EXCEPT ![p] = e.pipe]
  /\ left' = [left EXCEPT ![p] = n]
  /\ pc' = [pc EXCEPT ![p] = side]
  /\ UNCHANGED <<fds, files, slabv, open, rings, rf, todo, killed>>

Used(q) == (nwrite[q] + WIDTH - nread[q]) % WIDTH
Readable(q) == Used(q) > 0 \/ End(q, "w") \notin open

\* The call returns, after the wakeups in wake.
Return(p, wake) ==
  /\ pc' = [wake EXCEPT ![p] = "run"]
  /\ cur' = [cur EXCEPT ![p] = NoPipe]
  /\ left' = [left EXCEPT ![p] = 0]

\* Mutant: read(), like write(), never looks at dead().
NeverGivesUp(p) == FALSE
GivesUp(p) == killed[p]

\* PipeReader::read, one pass under the lock: sleep, give up, or drain.
Read(p) ==
  /\ At(p, "r") /\ ~Poisoned(cur[p])
  /\ IF Readable(cur[p])
     THEN /\ nread' = [nread EXCEPT ![cur[p]] = (@ + Min({left[p], Used(cur[p])})) % WIDTH]
          /\ Return(p, Wake(cur[p], "w"))
     ELSE IF GivesUp(p) THEN Return(p, pc) /\ UNCHANGED nread
     ELSE pc' = [pc EXCEPT ![p] = "rsleep"] /\ UNCHANGED <<nread, cur, left>>
  /\ UNCHANGED <<fds, files, slabv, open, nwrite, data, rf, todo, killed>>

\* Mutant: is_full() is off by one.
RoomForOneMore(q) == PAGE_SIZE + 1 - Used(q)
\* How often is_full() lets write_byte() go on: nread + PAGE_SIZE wraps as the
\* counters do, unless it is checked.
Room(q) == PAGE_SIZE - Used(q)
Overflows(q) == profile = "dev" /\ nread[q] + PAGE_SIZE >= WIDTH

\* The ring after n calls of write_byte; a byte is numbered by its counter.
Filled(q, n) ==
  [k \in DOMAIN data[q] |->
     LET new == {i \in 0..(n - 1) : (nwrite[q] + i) % PAGE_SIZE = k}
     IN IF new = {} THEN data[q][k] ELSE (nwrite[q] + Max(new)) % WIDTH]

\* PipeWriter::write, one pass under the lock: it fills the pipe and, if bytes
\* are left, finds it broken or wakes the readers and sleeps.
Write(p) ==
  /\ At(p, "w") /\ ~Poisoned(cur[p])
  /\ left[p] > 0 => ~Overflows(cur[p])
  /\ LET q == cur[p]
         n == Min({left[p], Room(q)})
     IN /\ nwrite' = [nwrite EXCEPT ![q] = (@ + n) % WIDTH]
        /\ data' = [data EXCEPT ![q] = Filled(q, n)]
        /\ IF n = left[p] THEN Return(p, Wake(q, "r"))
           ELSE IF End(q, "r") \notin open THEN Return(p, pc)
           ELSE /\ pc' = [Wake(q, "r") EXCEPT ![p] = "wsleep"]
                /\ left' = [left EXCEPT ![p] = @ - n] /\ UNCHANGED cur
  /\ UNCHANGED <<fds, files, slabv, open, nread, rf, todo, killed>>

\* The + in is_full(), which every write of a byte calls first, overflows: the
\* panic handler loops with the pipe's lock held.
WritePanics(p) ==
  /\ At(p, "w") /\ ~Poisoned(cur[p])
  /\ left[p] > 0 /\ Overflows(cur[p])
  /\ pc' = [pc EXCEPT ![p] = "panic"]
  /\ UNCHANGED <<fds, files, slabv, open, rings, calls, todo, killed>>

\* proc::kill: a sleeper runs again.
Kill(p) ==
  /\ p # InitProc /\ pc[p] # "unused" /\ ~killed[p]
  /\ killed' = [killed EXCEPT ![p] = TRUE]
  /\ pc' = [pc EXCEPT ![p] = IF @ = "rsleep" THEN "r" ELSE IF @ = "wsleep" THEN "w" ELSE @]
  /\ UNCHANGED <<fds, files, slabv, open, rings, calls, todo>>

\* A kill takes PROCS but not the pipe's lock: between a reader's test of dead()
\* and its sleep() it finds nobody asleep, and the reader sleeps on.
KillMissed(p) ==
  /\ p # InitProc /\ At(p, "r") /\ ~Poisoned(cur[p])
  /\ ~killed[p] /\ ~Readable(cur[p])
  /\ killed' = [killed EXCEPT ![p] = TRUE]
  /\ pc' = [pc EXCEPT ![p] = "rsleep"]
  /\ UNCHANGED <<fds, files, slabv, open, rings, calls, todo>>
-----------------------------------------------------------------------------
Step(p) ==
  \/ ReaderFile(p) \/ WriterFile(p)
  \/ CloseFile(p) \/ CloseEnd(p) \/ Dealloc(p) \/ Exited(p)
  \/ Read(p) \/ Write(p) \/ WritePanics(p)
Next ==
  /\ UNCHANGED profile
  /\ \E p \in Procs :
       \/ AllocPipe(p) \/ AllocPipeFails(p) \/ Step(p) \/ Exit(p) \/ Kill(p) \/ KillMissed(p)
       \/ \E d \in Fds : Dup(p, d) \/ Close(p, d)
       \/ \E d \in Fds, n \in Sizes, side \in {"r", "w"} : Call(p, d, n, side)
       \/ \E q \in Procs : Fork(p, q)
Spec == Init /\ [][Next]_vars
\* Every runnable process is scheduled: a call under way goes on.
FairSpec == Spec /\ \A p \in Procs : WF_vars(Step(p) /\ UNCHANGED profile)
-----------------------------------------------------------------------------
Points == {"unused", "run", "rfile", "wfile", "r", "w", "rsleep", "wsleep", "panic", "exit"}

\* Every variable has a value of its type.
TypeOK ==
  /\ fds \in [Procs -> [Fds -> FileIds \cup {None}]]
  /\ ref \in [FileIds -> Nat] /\ fp \in [FileIds -> Ends \cup {NoEnd}]
  /\ PIPES \in Slabs \cup {None} /\ slabs \subseteq Slabs /\ free \in 0..NPages
  /\ bitmap \in [Slabs -> SUBSET (1..SLAB_NPIPES)] /\ open \subseteq Ends
  /\ pc \in [Procs -> Points] /\ cur \in [Procs -> Pipes \cup {NoPipe}]

\* The queued drops of a kind, as <<process, index>>.
Pending(what) ==
  UNION {{p} \X {i \in DOMAIN todo[p] : todo[p][i].what = what} : p \in Procs}
Dropped(x) == todo[x[1]][x[2]]
Allocated == UNION {{s} \X bitmap[s] : s \in Slabs}

\* The references to file f: descriptors, the local of pipe(), queued closes.
FileRefs(f) ==
  FoldSet(LAMBDA p, n : n + Holds(p, f), 0, Procs)
  + Cardinality({p \in Procs : rf[p] = f})
  + Cardinality({x \in Pending("file") : Dropped(x).file = f})

\* Reference counts are exact and every open end of a pipe has one owner, on
\* every error path of pipe(), through fork, dup, close, exit and kill: no end
\* is closed while in use, none stays open for ever (file.rs, pipe.rs guards).
\* An owner is a file in use, a pipe() under way or a queued close; as many
\* owners as open ends, and together they own exactly those.
OwnersExact ==
  LET used == {f \in FileIds : ref[f] > 0}
      mine == {<<p, e>> \in Procs \X open :
                 /\ cur[p] = e.pipe /\ pc[p] \in {"rfile", "wfile"}
                 /\ pc[p] = "wfile" => e.side = "w"}
      drops == Pending("end")
  IN /\ TypeOK
     /\ \A f \in FileIds : ref[f] = FileRefs(f)
     /\ Cardinality(used) + Cardinality(mine) + Cardinality(drops) = Cardinality(open)
     /\ open = {fp[f] : f \in used} \cup {x[2] : x \in mine} \cup {Dropped(x).end : x \in drops}

\* A pipe is allocated exactly while an end is open or its one deallocation is
\* pending, its slab stays in memory meanwhile, every page is free or used
\* once, and the current slab is in memory and has a free pipe (the assert in
\* pipe::alloc).
SlabExact ==
  LET ended == {e.pipe : e \in open}
      drops == {Dropped(x).end.pipe : x \in Pending("pipe")}
  IN /\ Allocated = ended \cup drops /\ ended \cap drops = {}
     /\ Cardinality(drops) = Cardinality(Pending("pipe"))
     /\ \A q \in Allocated : q[1] \in slabs
     /\ free + Cardinality(slabs) + Cardinality(Allocated) = NPages
     /\ PIPES # None => PIPES \in slabs /\ FreeIn(PIPES) # {}

\* The ring holds the bytes written and not yet read, each at its place, and a
\* process sleeps in read() or write() only while it must: no wakeup is lost
\* between readers, writers and closes.  Nobody reads or writes a pipe that was
\* deallocated.  This holds where the counters wrap; in a build with overflow
\* checks they never do, as the + in is_full() panics before, and only there:
\* on a pipe through which all but PAGE_SIZE of WIDTH bytes have been read.
PipeFlows ==
  /\ \A q \in Allocated :
       /\ Used(q) \in 0..PAGE_SIZE
       /\ \A i \in 0..(Used(q) - 1) :
            LET b == (nread[q] + i) % WIDTH IN data[q][b % PAGE_SIZE] = b
       /\ profile = "dev" => nread[q] <= nwrite[q]
  /\ \A p \in Procs : pc[p] \in {"r", "rsleep"} => End(cur[p], "r") \in open
  /\ \A p \in Procs : pc[p] \in {"w", "wsleep", "panic"} => End(cur[p], "w") \in open
  /\ \A p \in Procs : pc[p] = "rsleep" => ~Readable(cur[p])
  /\ \A p \in Procs : pc[p] = "wsleep" => Room(cur[p]) = 0 /\ End(cur[p], "r") \in open
  /\ \A p \in Procs :
       pc[p] = "panic" => profile = "dev" /\ nread[cur[p]] \in (WIDTH - PAGE_SIZE)..(WIDTH - 1)

\* A read() whose writers are gone, or whose process is killed while it sleeps
\* or before it tests dead(), and a write() whose readers are gone, end: the
\* closes and the kill reach the sleeper.  The exception is a pipe that a panic
\* in write() has left locked.
HangupEnds ==
  \A p \in Procs :
    /\ (pc[p] \in {"r", "rsleep"} /\ End(cur[p], "w") \notin open) ~> pc[p] = "run"
    /\ (pc[p] = "r" /\ killed[p]) ~> pc[p] = "run" \/ Poisoned(cur[p])
    /\ (pc[p] \in {"w", "wsleep"} /\ End(cur[p], "r") \notin open)
         ~> pc[p] = "run" \/ Poisoned(cur[p])
=============================================================================
