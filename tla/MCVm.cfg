SPECIFICATION Spec
CONSTANTS
  Procs = {p1, p2}
  InitProc = p1
  CPUs = {c1, c2}
  FANOUT = 2
  LEVELS = 3
  PAGE_SIZE = 2
  USERSTACK = 7
  USEREND = 8
  NPages = 22
  WIDTH = 64
  Deltas <- MCDeltas
  Programs <- MCPrograms
INVARIANTS SpaceExact PagesExact LoadedTableLives
SYMMETRY MCSymmetry
