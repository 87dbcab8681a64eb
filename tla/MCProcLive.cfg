SPECIFICATION FairSpec
CONSTANTS
  CPUs = {c0}
  BootCPU = c0
  NoCPU = NoCPU
  NPROC = 3
  MaxPid = 3
  Ops = {"fork", "wait", "exit", "kill", "await"}
  InitOps = {"fork", "wait", "kill"}
  KillPids = {2, 3}
PROPERTIES ZombiesReaped KilledExits NoStarvation
CHECK_DEADLOCK TRUE
