---------------------------- MODULE AbstractLock ----------------------------
(***************************************************************************)
(* What a spinlock promises its callers: each lock is free or owned by one *)
(* CPU; a free lock may be taken, and only its owner gives it back.        *)
(***************************************************************************)
CONSTANTS CPUs, Locks, NoCPU

VARIABLE owner

Init == owner = [l \in Locks |-> NoCPU]

Take(c, l) ==
  /\ owner[l] = NoCPU
  /\ owner' = [owner EXCEPT ![l] = c]

Give(c, l) ==
  /\ owner[l] = c
  /\ owner' = [owner EXCEPT ![l] = NoCPU]

Next == \E c \in CPUs, l \in Locks : Take(c, l) \/ Give(c, l)

Spec == Init /\ [][Next]_owner
=============================================================================
