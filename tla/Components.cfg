CONSTANTS
  r1 = r1
  r2 = r2
  r3 = r3
  p1 = p1
  p2 = p2
  w1 = w1
  w2 = w2
  s1 = s1
  s2 = s2
  s3 = s3
  c1 = c1
  c2 = c2
  o1 = o1
  a1 = a1
  q1 = q1
  q2 = q2
  ld1 = ld1
  ld2 = ld2
  id1 = id1
  id2 = id2
  cmd1 = cmd1
  sv1 = sv1
  sv2 = sv2
  lu1 = lu1
  lu2 = lu2
  rh1 = rh1
  rh2 = rh2
  rm1 = rm1
  rm2 = rm2
  bc1 = bc1
  bc2 = bc2
  bt1 = bt1
  bt2 = bt2
  vs1 = vs1
  vc1 = vc1
  vc2 = vc2
  Absent = Absent
  NoFile = NoFile
  NoLock = NoLock
  Requests = {r1, r2, r3}
  Threshold = 2
  Window = 2
  ResetTimeout = 2
  MaxProbes = 2
  MaxTime = 5
  MaxFailures = 4
  MaxWindows = 5
  Pids = {p1, p2}
  MaxEdits = 1
  MaxCommands = 2
  Wrappers = {w1, w2}
  Nested = {w1}
  MaxVersions = 3
  IdleTimeout = 3
  DetachedIdle = 2
  MaxLifetime = 7
  Recheck = 2
  ProbeTimeout = 1
  LaunchTime = 1
  MaxServed = 1
  MaxClock = 8
  HelperIds = {p1, p2}
  Generations = {1, 2, 3}
  MaxWrites = 3
  Nothing = Nothing
  MaxFileVersions = 3
  MaxLoads = 2
  Savers = {s1, s2, s3}
  MaxChanges = 3
  MaxSaveRetries = 1
  Creates = {c1, c2}
  OAuthKeys = {o1}
  ApiKeys = {a1}
  MaxQueued = 1
  MaxSockets = 2
  MaxRoutes = 1
  MaxCancels = 1
  NoCreate = NoCreate
  Holders = {1, 2}
  Repairs = {q1, q2}
  RepairKinds <- MCRepairKinds
  MaxRotations = 3
  PoolCap = 2
  MaxMishaps = 1
  Loaders = {ld1, ld2}
  MaxContent = 3
  Uncached = Uncached
  Ids = {id1, id2}
  Commands = {cmd1}
  MaxGeneration = 2
  MaxRows = 2
  MaxNow = 7
  Granularity = 2
  Settle = 2
  MaxMetaWrites = 3
  People = {p1, p2}
  Spaces = {s1, s2}
  Granted = {s1}
  DefaultSpace = s1
  Nobody = Nobody
  NoSpace = NoSpace
  MaxSignIns = 2
  MaxAccounts = 2
  SettingSavers = {sv1, sv2}
  Absent = Absent
  Corrupt = Corrupt
  NoSettingSaver = NoSettingSaver
  MaxValue = 3
  MaxHandEdits = 1
  MaxLosses = 1
  MaxTries = 2
  Models = {lu1, lu2}
  Reserve = lu2
  CacheTTL = 2
  UnsequencedTTL = 1
  MaxRetryAfter = 2
  MaxSelections = 2
  NoModel = NoModel
  NoPending = NoPending
  PoolSize = 2
  MaxWait = 2
  MaxBlows = 3
  MaxReset = 3
  MaxDeferral = 2
  SnapshotTTL = 3
  NoSnapshot = NoSnapshot
  DedupWindow = 2
  StateReset = 4
  MaxBackoff = 16
  MaxAsked = 2
  MaxAttempts = 3
  NoBackoff = NoBackoff
  Handlers = {rh1, rh2}
  Messages = {rm1, rm2}
  MaxReports = 2
  AutoResume = TRUE
  NoMessage = NoMessage
  Clients = {bc1, bc2}
  Tokens = {bt1, bt2}
  NoToken = NoToken
  NoClient = NoClient
  MaxTokenTries = 2
  MaxForeign = 1
  MaxTokenCalls = 3
  Sidebands = {vs1}
  CallIds = {vc1, vc2}
  NoCall = NoCall
  MaxCalls = 1
  CallTtl = 2
  HoldLimit = 2
  HighWater = 1
  LowWater = 0
  MaxFrames = 4
  MaxSignals = 2
SPECIFICATION BenchSpec
CHECK_DEADLOCK FALSE
INVARIANTS BreakerFaithful LimitsRespected LaunchKept CopiesCatchUp RelaysFaithful RecoveryEarned SelectionMeant BridgeGuarded NotLost
PROPERTIES NothingRevived LimitsAndWrites
