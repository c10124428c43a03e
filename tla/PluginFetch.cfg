CONSTANTS
  f1 = f1  f2 = f2  k1 = k1  k2 = k2  h1 = h1  h2 = h2  Absent = Absent
  Fetches = {f1, f2}
  Sessions = {k1, k2}
  HostPool <- MCPool
  HostWorkspaces <- MCWorkspaces
  FailoverModes = {"aggressive"}
  MaxAuthFailures = 1
  MaxShortRetries = 0
  MaxEmptyRetries = 1
  MaxPoolWaits = 0
  MaxFallbacks = 0
  MaxFailovers = 1
  MaxOutbound = 2
  BurstThreshold = 2
  Blockable = {1}
SPECIFICATION FetchSpec
VIEW MCView
SYMMETRY MCSymmetry
CHECK_DEADLOCK FALSE
INVARIANTS FetchSafe
