CONSTANTS
  p1 = p1  p2 = p2  p3 = p3
  a1 = a1  a2 = a2  b1 = b1  c1 = c1
  Procs = {p1, p2}
  Calls = {a1, a2, b1}
  ProcOf <- MCProcOf
  HostOf <- MCHostOf
  Lock = Lock
  None = None
  MaxAttempts = 2
  MaxFaults = 1
SPECIFICATION FairSpec
CHECK_DEADLOCK FALSE
INVARIANTS TypeOK MutualExclusion HolderKeepsLock CandidateIntact NoManualRepair
PROPERTIES RefinesMutex CallsProgress
