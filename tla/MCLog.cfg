SPECIFICATION FairSpec
CONSTANTS
  p1 = p1
  p2 = p2
  p3 = p3
  Procs = {p1, p2, p3}
  Blocks = {b1, b2, b3}
  Vals = {0, 1}
  Zero = 0
  Absent = Absent
  LOGSIZE = 4
  SIZE = 4
  MAXOPBLOCKS = 2
  OpBlocks = 1
  MaxOps = 3
  MaxCrashes = 2
INVARIANTS LogExact NoPanic
PROPERTIES ImplementsAtomicDisk LogStable BeginReturns CommitEnds
CHECK_DEADLOCK FALSE
