------------------------------- MODULE Console -------------------------------
(***************************************************************************)
(* The console (kernel/src/console.rs): the input ring that the keyboard   *)
(* (kbd.rs) and the UART (uart.rs) fill and that processes read, and the   *)
(* display (cga.rs) that echoes it.                                        *)
(*                                                                         *)
(* Both interrupts go to CPU 0 with interrupts off, so they exclude each   *)
(* other; one step is one byte, put under READER's lock.  A read takes the *)
(* lock once for each byte.  Bytes are the ones the code tells apart: "x"  *)
(* stands for any other.                                                   *)
(***************************************************************************)
EXTENDS Naturals, Sequences, FiniteSets, FiniteSetsExt

CONSTANTS Procs,
          CAPACITY,     \* of the ring
          WORD,         \* a usize counts modulo WORD
          WIDTH, HEIGHT, TABSTOP,
          Keys,         \* bound: the keys that are used, <<extended, name>>
          UartBytes,    \* bound: what the UART receives
          Output,       \* bound: what processes write
          Sizes,        \* bound: the sizes of the reads (of none: nothing happens)
          MaxFifo       \* bound: codes in the keyboard controller

ASSUME ConsoleAssumption ==
  /\ CAPACITY \in Nat \ {0} /\ WORD \in Nat /\ WORD % CAPACITY = 0 /\ WORD > CAPACITY
  /\ {TABSTOP, WIDTH, HEIGHT} \subseteq Nat \ {0} /\ WIDTH % TABSTOP = 0
  /\ UartBytes \subseteq {"x", "NL", "CR", "TAB", "^D", "^U", "^P", "BS", "DEL"}
  /\ \A key \in Keys : key = <<key[1], key[2]>> /\ key[1] \in BOOLEAN
  /\ Sizes \subseteq Nat \ {0}

VARIABLES
  buffer, read_index, write_index, edit_index,   \* Reader
  state, left,    \* of the reads: "idle", "running" or "asleep", bytes to go
  killed,
  fifo, held,     \* the keyboard: codes to read, keys that are down
  modkeys,        \* kbd::getb
  cursor          \* Cga: <<line, column>>

ring == <<buffer, read_index, write_index, edit_index>>
reads == <<state, left, killed>>
keyboard == <<fifo, held, modkeys>>
vars == <<ring, reads, keyboard, cursor>>

Init ==
  /\ buffer = [i \in 0..CAPACITY - 1 |-> "x"]
  /\ read_index = 0 /\ write_index = 0 /\ edit_index = 0
  /\ state = [p \in Procs |-> "idle"] /\ left = [p \in Procs |-> 0]
  /\ killed = [p \in Procs |-> FALSE]
  /\ fifo = <<>> /\ held = {} /\ modkeys = {}
  /\ cursor = <<0, 0>>
-----------------------------------------------------------------------------
(* Cga::putb, as the cursor sees it.                                       *)

\* newline, which scrolls at the last line
Newline(c) == <<IF c[1] + 1 = HEIGHT THEN c[1] ELSE c[1] + 1, 0>>

\* Mutant: a glyph in the last column leaves the cursor beside the screen.
GlyphRunsOver(c) == IF c[2] + 1 > WIDTH THEN Newline(c) ELSE <<c[1], c[2] + 1>>
Glyph(c) == IF c[2] + 1 >= WIDTH THEN Newline(c) ELSE <<c[1], c[2] + 1>>

Tab(c) ==
  LET stop == c[2] + TABSTOP - (c[2] % TABSTOP) IN
  IF stop >= WIDTH THEN Newline(c) ELSE <<c[1], stop>>

Putb(c, b) ==
  CASE b = "NL" -> Newline(c)
    [] b = "CR" -> c
    [] b = "TAB" -> Tab(c)
    [] b = "BS" -> IF c[2] > 0 THEN <<c[1], c[2] - 1>> ELSE c
    [] OTHER -> Glyph(c)

\* Console::write and print: one byte under WRITER's lock.
Write(b) == cursor' = Putb(cursor, b) /\ UNCHANGED <<ring, reads, keyboard>>
-----------------------------------------------------------------------------
(* The ring.                                                               *)

Plus(a, b) == (a + b) % WORD
Minus(a, b) == (a + WORD - b) % WORD
IsEmpty == read_index = write_index
IsFull == Minus(edit_index, read_index) = CAPACITY

\* Mutant: backspace reaches into input that was entered.
ErasesEntered(i) == i # read_index
Erasable(i) == i # write_index

\* A cell outside read_index..edit_index is not read again: it is kept "x".
Cleared(from, n) ==
  [i \in DOMAIN buffer |-> IF \E k \in 1..n : i = Plus(from, k - 1) % CAPACITY THEN "x" ELSE buffer[i]]

\* n backspaces, each echoed; Cga stops at the first column
Backspaces(n) ==
  /\ edit_index' = Minus(edit_index, n)
  /\ cursor' = <<cursor[1], IF n > cursor[2] THEN 0 ELSE cursor[2] - n>>
  /\ buffer' = Cleared(Minus(edit_index, n), n)
  /\ UNCHANGED <<read_index, write_index, state>>

\* Mutant: only Return wakes the readers, not ^D or a full buffer.
WakeupOnReturn(b) ==
  state' = [p \in Procs |-> IF state[p] = "asleep" /\ b = "NL" THEN "running" ELSE state[p]]
\* wakeup(read_chan)
Wakeup(b) == state' = [p \in Procs |-> IF state[p] = "asleep" THEN "running" ELSE state[p]]

\* A byte that is stored, echoed, and perhaps ends the line.
Store(b) ==
  LET edit == Plus(edit_index, 1) IN
  /\ buffer' = [buffer EXCEPT ![edit_index % CAPACITY] = b]
  /\ edit_index' = edit
  /\ cursor' = Putb(cursor, b)
  /\ IF b \in {"NL", "^D"} \/ edit = Plus(read_index, CAPACITY)
     THEN write_index' = edit /\ Wakeup(b)
     ELSE UNCHANGED <<write_index, state>>
  /\ UNCHANGED read_index

\* Reader::put.  ^P prints the processes, which is a Write.
Put(b) ==
  \/ /\ b \in {"BS", "DEL"} /\ Erasable(edit_index)
     /\ Backspaces(1)
  \/ /\ b = "^U" /\ Erasable(edit_index)
     /\ Backspaces(Minus(edit_index, write_index))
  \/ /\ b = "^P" \/ (b \in {"BS", "DEL", "^U"} /\ ~Erasable(edit_index))
     /\ UNCHANGED <<ring, state, cursor>>
  \/ /\ b \notin {"BS", "DEL", "^U", "^P"}
     /\ IF IsFull THEN UNCHANGED <<ring, state, cursor>>
        ELSE Store(IF b = "CR" THEN "NL" ELSE b)

UartInterrupt(b) == Put(b) /\ UNCHANGED <<left, killed, keyboard>>
-----------------------------------------------------------------------------
(* The keyboard.                                                           *)

\* A key goes down, or repeats, or up; the controller (external) queues its
\* codes, an extended key's behind 0xE0.
Code(key, dir) == IF key[1] THEN <<<<"E0", "">>, <<dir, key[2]>>>> ELSE <<<<dir, key[2]>>>>
Press(key) ==
  /\ Len(fifo) < MaxFifo
  /\ \/ fifo' = fifo \o Code(key, "down") /\ held' = held \cup {key}
     \/ key \in held /\ fifo' = fifo \o Code(key, "up") /\ held' = held \ {key}
  /\ UNCHANGED <<ring, reads, modkeys, cursor>>

ShiftCode(ext, k) ==
  CASE k = "ctl" -> {"CTL"} [] k = "alt" -> {"ALT"} [] k = "shift" /\ ~ext -> {"SHIFT"} [] OTHER -> {}
ToggleCode(ext, k) == IF k = "caps" /\ ~ext THEN {"CAPSLOCK"} ELSE {}

\* The maps, for the keys that are used; "NO" is no byte.
NORMAL_MAP(k) == CASE k = "enter" -> "NL" [] k \in {"ctl", "alt", "shift", "caps"} -> "NO" [] OTHER -> "x"
CTL_MAP(k) ==
  CASE k = "enter" -> "CR" [] k = "d" -> "^D" [] k = "u" -> "^U" [] k = "h" -> "BS"
    [] k = "p" -> "^P" [] k \in {"ctl", "alt", "shift", "caps", "backspace"} -> "NO" [] OTHER -> "x"

\* Mutant: the release of an extended key leaves the escape pending.
KeepsEscape(k) == modkeys \ ShiftCode("E0ESC" \in modkeys, k)
Released(k) == modkeys \ ({"E0ESC"} \cup ShiftCode("E0ESC" \in modkeys, k))
Pressed(k) ==
  LET ext == "E0ESC" \in modkeys
      m == (modkeys \ {"E0ESC"}) \cup ShiftCode(ext, k)
      t == ToggleCode(ext, k)
  IN (m \ t) \cup (t \ m)

\* getb reads one code; console::interrupt puts the byte if there is one.
KbdInterrupt ==
  LET code == Head(fifo)
      b == IF "CTL" \in Pressed(code[2]) THEN CTL_MAP(code[2]) ELSE NORMAL_MAP(code[2])
  IN /\ fifo # <<>> /\ fifo' = Tail(fifo)
     /\ modkeys' = CASE code[1] = "E0" -> modkeys \cup {"E0ESC"}
                     [] code[1] = "up" -> Released(code[2])
                     [] OTHER -> Pressed(code[2])
     /\ IF code[1] = "down" /\ b # "NO" THEN Put(b) ELSE UNCHANGED <<ring, state, cursor>>
     /\ UNCHANGED <<left, killed, held>>
-----------------------------------------------------------------------------
(* Console::read.                                                          *)

Read(p, n) ==
  /\ state[p] = "idle" /\ ~killed[p]
  /\ state' = [state EXCEPT ![p] = "running"] /\ left' = [left EXCEPT ![p] = n]
  /\ UNCHANGED <<ring, killed, keyboard, cursor>>

\* One turn of the loop under READER's lock: an empty ring ends the read of a
\* killed process and puts another to sleep; ^D is taken and ends the read.
ReadByte(p) ==
  LET b == buffer[read_index % CAPACITY] IN
  /\ state[p] = "running"
  /\ IF IsEmpty
     THEN /\ state' = [state EXCEPT ![p] = IF killed[p] THEN "idle" ELSE "asleep"]
          /\ left' = [left EXCEPT ![p] = IF killed[p] THEN 0 ELSE @]
          /\ UNCHANGED <<buffer, read_index>>
     ELSE LET ends == b \in {"^D", "NL"} \/ left[p] = 1 IN
          /\ read_index' = Plus(read_index, 1) /\ buffer' = Cleared(read_index, 1)
          /\ left' = [left EXCEPT ![p] = IF ends THEN 0 ELSE @ - 1]
          /\ state' = [state EXCEPT ![p] = IF ends THEN "idle" ELSE @]
  /\ UNCHANGED <<write_index, edit_index, killed, keyboard, cursor>>

\* kill() makes a sleeping process runnable.
Kill(p) ==
  /\ killed' = [killed EXCEPT ![p] = TRUE]
  /\ state' = [state EXCEPT ![p] = IF @ = "asleep" THEN "running" ELSE @]
  /\ UNCHANGED <<ring, left, keyboard, cursor>>

\* A kill takes PROCS but not READER: between the reader's test of dead() and
\* its sleep() it finds nobody asleep, and the reader sleeps on.
KillMissed(p) ==
  /\ state[p] = "running" /\ IsEmpty /\ ~killed[p]
  /\ killed' = [killed EXCEPT ![p] = TRUE]
  /\ state' = [state EXCEPT ![p] = "asleep"]
  /\ UNCHANGED <<ring, left, keyboard, cursor>>
-----------------------------------------------------------------------------
Next ==
  \/ \E b \in UartBytes : UartInterrupt(b)
  \/ \E key \in Keys : Press(key)
  \/ KbdInterrupt
  \/ \E b \in Output : Write(b)
  \/ \E p \in Procs : ReadByte(p) \/ Kill(p) \/ KillMissed(p) \/ \E n \in Sizes : Read(p, n)
Spec == Init /\ [][Next]_vars
-----------------------------------------------------------------------------
Bytes == {"x", "NL", "^D", "TAB"}
\* Every variable has a value of its type.
TypeOK ==
  /\ buffer \in [0..CAPACITY - 1 -> Bytes]
  /\ {read_index, write_index, edit_index} \subseteq 0..WORD - 1
  /\ state \in [Procs -> {"idle", "running", "asleep"}]
  /\ left \in [Procs -> Nat] /\ killed \in [Procs -> BOOLEAN]
  /\ held \subseteq Keys /\ modkeys \subseteq {"CTL", "ALT", "SHIFT", "CAPSLOCK", "E0ESC"}

\* set_cursor writes inside the display: its slice never panics.
CursorOnScreen == TypeOK /\ cursor[1] \in 0..HEIGHT - 1 /\ cursor[2] \in 0..WIDTH - 1

\* No lost wakeup: a reader sleeps only while nothing is entered and there is
\* room for a line to be entered.
SleepersHaveNothing ==
  \A p \in Procs : state[p] = "asleep" => IsEmpty /\ ~IsFull

\* A modifier that getb believes in is held down, once every code is read.
ModifiersHeld ==
  fifo = <<>> /\ "E0ESC" \notin modkeys =>
    /\ "CTL" \in modkeys => \E ext \in BOOLEAN : <<ext, "ctl">> \in held
    /\ "ALT" \in modkeys => \E ext \in BOOLEAN : <<ext, "alt">> \in held
    /\ "SHIFT" \in modkeys => <<FALSE, "shift">> \in held

\* The ring with its three wrapping indices is a queue behind an editable
\* line: what was entered is never edited, lost or reordered.
Slice(from, to) == [i \in 1..Minus(to, from) |-> buffer[Plus(from, i - 1) % CAPACITY]]
Lines == INSTANCE LineQueue WITH line <- Slice(write_index, edit_index),
                                 queue <- Slice(read_index, write_index),
                                 Enders <- {"NL", "^D"}
ImplementsLineQueue == Lines!Spec
=============================================================================
