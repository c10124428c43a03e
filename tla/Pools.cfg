CONSTANTS
  s1 = s1
  s2 = s2
  x = x
  y = y
  ia = ia
  ib = ib
  mx = mx
  my = my
  ta = ta
  tb = tb
  Sessions = {s1, s2}
  Accounts = {x, y}
  None = None
  Torn = Torn
  Depth = 2
  MaxOps = 4
  MaxFaults = 1
  MaxDamage = 1
  Absent = Absent
  Ids = {ia, ib}
  Mails = {mx, my}
  Tokens = {ta, tb}
  MaxUsed = 2
  MaxRows = 3
  MaxPool = 3
  Exporters = {1, 2}
  MaxTransferEdits = 1
SPECIFICATION BenchSpec
SYMMETRY MCSymmetry
CHECK_DEADLOCK FALSE
INVARIANTS PoolsTrue TypeOK Durable JournalNotStale
PROPERTIES PoolsKept
