SPECIFICATION Spec
CONSTANTS
  Procs = {p1, p2}
  CAPACITY = 3
  WORD = 6
  WIDTH = 2
  HEIGHT = 2
  TABSTOP = 2
  Keys <- MCKeys
  UartBytes = {"CR", "^D", "DEL", "^P"}
  Output = {"TAB"}
  Sizes = {2}
  MaxFifo = 1
SYMMETRY MCSymmetry
INVARIANTS CursorOnScreen SleepersHaveNothing ModifiersHeld
PROPERTY ImplementsLineQueue
