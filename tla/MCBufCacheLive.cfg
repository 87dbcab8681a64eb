SPECIFICATION FairSpec
CONSTANTS
  p1 = p1
  p2 = p2
  k1 = k1
  k2 = k2
  k3 = k3
  k4 = k4
  Procs = {p1, p2}
  NoProc = NoProc
  NBUF = 2
  Blocks = {k1, k2, k3}
  NoBlock = NoBlock
  Vals = {0}
  Zero = 0
  Logged = {k2}
  Direct = {k1, k2}
  Nesting <- OneNesting
PROPERTIES RdwrReturns LockGranted
CHECK_DEADLOCK TRUE
