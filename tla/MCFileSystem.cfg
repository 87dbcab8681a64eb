SPECIFICATION Spec
CONSTANTS
  Procs = {p1, p2}
  Inums = {1, 2, 3, 4}
  NINODE = 3
  NOFILE = 1
  Blocks = {1, 2, 3}
  MAXFILE = 2
  MaxCalls = 4
  Ops <- MCOps
SYMMETRY MCSymmetry
INVARIANTS RefsExact NamesCovered BlocksOwned OnlyKnownPanics
CHECK_DEADLOCK FALSE
