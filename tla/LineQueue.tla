------------------------------ MODULE LineQueue ------------------------------
(***************************************************************************)
(* What the console reader promises (the comment at Reader in console.rs): *)
(* a queue of bytes behind a line that can be edited until it is entered;  *)
(* entered input is immutable and is consumed in order.                    *)
(***************************************************************************)
EXTENDS Naturals, Sequences

CONSTANTS Bytes,       \* what the buffer can hold
          Enders,      \* the bytes that enter a line
          CAPACITY

VARIABLES line,        \* typed and not entered
          queue        \* entered and not read

Init == line = <<>> /\ queue = <<>>

\* A byte is added to the line, and enters it when it ends the line or is the
\* last that fits.
Type(b) ==
  LET enters == b \in Enders \/ Len(line) + Len(queue) + 1 = CAPACITY IN
  /\ Len(line) + Len(queue) < CAPACITY
  /\ line' = IF enters THEN <<>> ELSE Append(line, b)
  /\ queue' = IF enters THEN queue \o Append(line, b) ELSE queue

\* Editing takes bytes off the end of the line only.
Erase(n) == n <= Len(line) /\ line' = SubSeq(line, 1, Len(line) - n) /\ UNCHANGED queue
Take == queue # <<>> /\ queue' = Tail(queue) /\ UNCHANGED line

Next == (\E b \in Bytes : Type(b)) \/ (\E n \in {1, Len(line)} : Erase(n)) \/ Take
Spec == Init /\ [][Next]_<<line, queue>>
=============================================================================
