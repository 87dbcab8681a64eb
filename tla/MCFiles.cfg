SPECIFICATION Spec
CONSTANTS
  Procs = {p1, p2}
  InitProc = p1
  NOFILE = 2
  NFILE = 3
  Slabs = {1, 2}
  SLAB_NPIPES = 2
  PAGE_SIZE = 1
  WIDTH = 2
  NPages = 5
  Sizes = {}
  Profiles = {"dev"}
INVARIANTS OwnersExact SlabExact
CHECK_DEADLOCK FALSE
