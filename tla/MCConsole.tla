------------------------------ MODULE MCConsole ------------------------------
(* Model values of the module Console for TLC. *)
EXTENDS Console, TLC

MCKeys == {<<FALSE, "shift">>, <<TRUE, "ctl">>, <<FALSE, "u">>}

\* The readers are interchangeable.
MCSymmetry == Permutations(Procs)
=============================================================================
