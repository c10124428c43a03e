CONSTANTS
  Sessions = {s1, s2}
  Accounts = {x, y}
  None = None  Torn = Torn
  Depth = 2
  MaxOps = 4
  MaxFaults = 0
  MaxDamage = 0
SPECIFICATION Spec
CHECK_DEADLOCK FALSE
INVARIANT NoRevival
