------------------------------- MODULE MCLog --------------------------------
(* Log with three processes for TLC. *)
EXTENDS Log
CONSTANTS p1, p2, p3

\* Every begin() returns, of p1 as of any other process: they differ only by
\* name.
BeginReturns == Returns(p1)
=============================================================================
