----------------------------- MODULE MCBufCache -----------------------------
(* BufCache with a few blocks.  k1 is the block that is written (and, with *)
(* OneNesting, a block of the log, inside which k2 is taken).  Where only  *)
(* k1 is written, the others are interchangeable; so are the processes.    *)
EXTENDS BufCache, TLC
CONSTANTS p1, p2, k1, k2, k3, k4
OneNesting == {<<k1, k2>>}
Symmetric == Permutations({p1, p2}) \cup Permutations({k2, k3, k4})
=============================================================================
