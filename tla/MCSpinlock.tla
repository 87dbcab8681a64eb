----------------------------- MODULE MCSpinlock -----------------------------
(* Model values of Spinlock for TLC: two nested locks and interchangeable  *)
(* CPUs.                                                                   *)
EXTENDS Spinlock, TLC
CONSTANTS l1, l2
NestedOrder == {<<l1, l2>>}
MCSymmetry == Permutations(CPUs)
=============================================================================
