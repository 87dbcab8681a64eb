----------------------------- MODULE AtomicDisk -----------------------------
(***************************************************************************)
(* What the log promises to the file system (the comment at the top of     *)
(* struct Log in kernel/src/fslog.rs): the operations between two commits  *)
(* reach the disk together or not at all, only when none of them is still  *)
(* in progress, and a crash leaves exactly the last commit.                *)
(***************************************************************************)
CONSTANTS Procs, Blocks, Vals, Zero
VARIABLES durable,    \* the blocks as a crash would leave them
          current,    \* the blocks as file system operations see them
          active      \* the processes inside an operation
vars == <<durable, current, active>>

Init ==
  /\ durable = [b \in Blocks |-> Zero]
  /\ current = durable
  /\ active = {}

Begin(p) == p \notin active /\ active' = active \cup {p} /\ UNCHANGED <<durable, current>>

Write(p, b, v) ==
  /\ p \in active
  /\ current' = [current EXCEPT ![b] = v]
  /\ UNCHANGED <<durable, active>>

End(p) == p \in active /\ active' = active \ {p} /\ UNCHANGED <<durable, current>>

Commit == active = {} /\ durable' = current /\ UNCHANGED <<current, active>>

Crash == current' = durable /\ active' = {} /\ UNCHANGED durable

Next ==
  \/ Commit \/ Crash
  \/ \E p \in Procs : Begin(p) \/ End(p) \/ \E b \in Blocks, v \in Vals : Write(p, b, v)

Spec == Init /\ [][Next]_vars
=============================================================================
