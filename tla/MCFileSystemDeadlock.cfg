SPECIFICATION Spec
CONSTANTS
  Procs = {p1, p2}
  Inums = {1, 2, 3}
  NINODE = 3
  NOFILE = 1
  Blocks = {1, 2, 3}
  MAXFILE = 1
  MaxCalls = 2
  Ops <- MCOps
INVARIANT NoLockCycle
CHECK_DEADLOCK FALSE
