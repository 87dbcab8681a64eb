SPECIFICATION Spec
CONSTANTS
  CPUs = {c1, c2}
  l1 = l1
  l2 = l2
  Locks = {l1, l2}
  LockOrder <- NestedOrder
  NoCPU = NoCPU
INVARIANTS MutualExclusion HoldingSound InterruptsExact
PROPERTY ImplementsAbstractLock
SYMMETRY MCSymmetry
CHECK_DEADLOCK TRUE
