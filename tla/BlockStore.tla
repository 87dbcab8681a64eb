----------------------------- MODULE BlockStore -----------------------------
(***************************************************************************)
(* What the buffer cache promises to the file system and the log: every    *)
(* block has one content, which changes only by the process that has the   *)
(* block to itself.  Caching, recycling and disk traffic are not visible.  *)
(***************************************************************************)
CONSTANTS Procs, Blocks, Vals, Zero
VARIABLES content, held
vars == <<content, held>>

Init ==
  /\ content = [k \in Blocks |-> Zero]
  /\ held = [p \in Procs |-> {}]

Take(p, k) ==
  /\ \A q \in Procs : k \notin held[q]
  /\ held' = [held EXCEPT ![p] = @ \cup {k}]
  /\ UNCHANGED content

Update(p, k, v) ==
  /\ k \in held[p]
  /\ content' = [content EXCEPT ![k] = v]
  /\ UNCHANGED held

Give(p, k) ==
  /\ k \in held[p]
  /\ held' = [held EXCEPT ![p] = @ \ {k}]
  /\ UNCHANGED content

Next == \E p \in Procs, k \in Blocks :
  Take(p, k) \/ Give(p, k) \/ \E v \in Vals : Update(p, k, v)

Spec == Init /\ [][Next]_vars
=============================================================================
