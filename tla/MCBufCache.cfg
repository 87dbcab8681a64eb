SPECIFICATION Spec
CONSTANTS
  p1 = p1
  p2 = p2
  k1 = k1
  k2 = k2
  k3 = k3
  k4 = k4
  Procs = {p1, p2}
  NoProc = NoProc
  NBUF = 3
  Blocks = {k1, k2, k3, k4}
  NoBlock = NoBlock
  Vals = {0, 1}
  Zero = 0
  Logged = {k1}
  Direct = {k1}
  Nesting = {}
INVARIANTS CacheExact NoPanic QueueExact UsedIsValid
PROPERTY ImplementsBlockStore
SYMMETRY Symmetric
CHECK_DEADLOCK TRUE
