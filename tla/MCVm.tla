-------------------------------- MODULE MCVm --------------------------------
(* Model values of the module Vm for TLC. *)
EXTENDS Vm, TLC

\* sbrk arguments within a page and over several; -3 underflows small sizes.
MCDeltas == {-3, 1, 5}

\* One segment; three, of which one ends below and one beyond a gap.
MCPrograms == {<<1>>, <<3, 2, 7>>}

\* Processors differ only by name.
MCSymmetry == Permutations(CPUs)
=============================================================================
