SPECIFICATION FairSpec
CONSTANTS
  Procs = {p1, p2}
  InitProc = p1
  NOFILE = 2
  NFILE = 3
  Slabs = {1, 2}
  SLAB_NPIPES = 1
  PAGE_SIZE = 2
  WIDTH = 4
  NPages = 2
  Sizes = {1, 3}
  Profiles = {"dev", "release"}
INVARIANTS PipeFlows
CHECK_DEADLOCK FALSE
PROPERTY HangupEnds
