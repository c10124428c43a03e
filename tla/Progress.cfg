CONSTANTS
  r1 = r1
  a1 = a1
  a2 = a2
  w1 = w1
  w2 = w2
  mem1 = mem1
  mem2 = mem2
  sw1 = sw1
  f1 = f1
  k1 = k1
  h1 = h1
  h2 = h2
  fa = fa
  fb = fb
  Failed = Failed
  login1 = login1
  login2 = login2
  uc1 = uc1
  uc2 = uc2
  None = None
  Requests = {r1}
  Accounts = {a1, a2}
  Scopes <- MCSharedScopes
  Kinds = {"responses", "thread-goal"}
  Pins = {None, a1}
  Native = TRUE
  MaxAttempts = 2
  MaxPinned = 2
  MaxSelections = 2
  MaxTokens = 1
  Drain = 1
  Patience = 1
  MaxResets = 0
  MaxSwaps = 0
  Members = {mem1, mem2}
  Switches = {sw1}
  MaxSelects = 2
  MaxWriteErrors = 1
  Missing = Missing
  Absent = Absent
  Fetches = {f1}
  Sessions = {k1}
  HostPool <- MCPool
  HostWorkspaces <- MCWorkspaces
  FailoverModes = {"aggressive", "balanced", "conservative"}
  MaxAuthFailures = 1
  MaxShortRetries = 1
  MaxEmptyRetries = 1
  MaxPoolWaits = 1
  MaxFallbacks = 1
  MaxFailovers = 1
  MaxOutbound = 2
  BurstThreshold = 2
   Blockable = {1, 2}
  Logins = {login1, login2}
  Families = {"v6", "v4"}
  Free = Free
  Foreign = Foreign
  Unavailable = Unavailable
  NoCode = NoCode
  MaxWaitPolls = 2
  DeviceBudget = 1
  Calls = {uc1, uc2}
  LimitOf <- MCLimitOf
  NoHolder = NoHolder
  NoLimits = NoLimits
  MaxLoads = 3
  MaxLedgerFaults = 1
SPECIFICATION BenchSpec
CHECK_DEADLOCK FALSE
INVARIANTS SkippedMeansMirrored SignInsApart BudgetKept
PROPERTIES EverythingEnds
