SPECIFICATION BenchSpec
CONSTANTS
  r1 = r1
  r2 = r2
  a1 = a1
  a2 = a2
  w1 = w1
  w2 = w2
  k1 = k1
  k2 = k2
  m1 = m1
  m2 = m2
  Parts = {"loop", "routes", "evidence", "slots"}
  Calls = {1, 2}
  Routes = {1, 2}
  Keys = {k1, k2}
  MaxDelay = 2
  AdmissionTime = 2
  MaxEntries = 1
  MaxSends = 2
  MaxLimits = 2
  MaxLists = 1
  NoRoute = NoRoute
  Checkers = {1, 2}
  ApiModels = {m1, m2}
  Probed = m1
  MaxLives = 2
  MaxApiChecks = 2
  MaxCheckFaults = 1
  Asking = {1, 2, 3, 4}
  Slots = 2
  Missing = Missing
  Corrupt = Corrupt
  Closed = Closed
  None = None
  Requests = {r1}
  Accounts = {a1, a2}
  Scopes <- MCTwinScopes
  Kinds = {"responses", "transcribe", "image"}
  Pins = {None, a1}
  Native = TRUE
  MaxAttempts = 2
  MaxPinned = 2
  MaxSelections = 2
  MaxTokens = 1
  Drain = 1
  Patience = 0
  MaxResets = 0
  MaxSwaps = 1
INVARIANTS PinnedAndOnce KeysTrue
PROPERTIES KeysKept
CHECK_DEADLOCK FALSE
