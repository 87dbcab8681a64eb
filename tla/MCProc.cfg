SPECIFICATION Spec
CONSTANTS
  CPUs = {c0, c1}
  BootCPU = c0
  NoCPU = NoCPU
  NPROC = 3
  MaxPid = 3
  Ops = {"fork", "nomem", "wait", "exit", "await", "kill", "fault"}
  InitOps = {"fork", "wait"}
  KillPids = {2, 3}
INVARIANTS ExclusiveRun NoPanic FamilyExact NoLostWakeup InterruptFlag
CHECK_DEADLOCK TRUE
