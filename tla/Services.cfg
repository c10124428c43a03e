CONSTANTS
  r1 = r1
  s1 = s1
  lf1 = lf1
  lf2 = lf2
  th1 = th1
  th2 = th2
  None = None
  Requests = {r1}
  Syncs = {s1}
  Modes = {"recover", "reload"}
  Journaled = {TRUE, FALSE}
  JournalRead = {TRUE, FALSE}
  Edits = {"login", "toggle", "remove"}
  Quiet = TRUE
  MaxManagers = 3
  MaxCred = 3
  MaxEdits = 1
  LineFields = {lf1, lf2}
  Themes = {th1, th2}
  WriteAttempts = 2
  MaxMenuEdits = 2
  OtherPanels = {"behavior", "theme"}
  MaxOtherSaves = 1
  Nil = Nil
  Checks = {1, 2}
  Recs = {1, 2}
  MaxTime = 2
  MaxProbes = 1
  MaxQuotaEvents = 3
  CasAttempts = 2
  NoTime = NoTime
  Routers = {1, 2}
  CheckInterval = 2
  Skew = 1
  PreparationRetry = 1
  MaxNow = 3
  MaxUpsets = 2
  Holders = {1, 4}
  Calls = {1, 2}
  MaxAccounts = 3
  MaxIssued = 4
  MaxRecords = 4
  MaxBegun = 3
  Proxies = {1}
  Users = {3}
  Scopes = {"team", "own"}
  RedeemGap = 1
  CheckGap = 1
  AutoGap = 1
  MaxPasses = 2
  MaxAttempts = 2
  MaxFaults = 1
  MaxChanges = 1
  Inflight = {1, 2}
  MaxGeneration = 2
  MaxRejections = 3
  MaxReadFaults = 1
SPECIFICATION BenchSpec
CHECK_DEADLOCK FALSE
INVARIANTS StoresTrue ChecksSpaced RedirectsReachActive
PROPERTIES UpdatesKept
