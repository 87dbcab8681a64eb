---------------------------- MODULE MCFileSystem ----------------------------
(* Model values of the module FileSystem for TLC. *)
EXTENDS FileSystem, TLC

Op1(kind, path) == [kind |-> kind, path |-> path, new |-> <<>>]

\* Calls on two names in the root and one in a subdirectory.
MCOps ==
  {Op1(k, <<"a">>) : k \in {"open", "creat", "mkdir", "mknod", "unlink", "chdir"}}
  \cup {Op1(k, <<"/", "a", "b">>) : k \in {"open", "creat", "mkdir", "unlink"}}
  \cup {[kind |-> "link", path |-> <<"a">>, new |-> <<"b">>]}

\* The processes are interchangeable.
MCSymmetry == Permutations(Procs)
=============================================================================
