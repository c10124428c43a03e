CONSTANTS
  Granularity = 2
  Settle = 2
  MaxNow = 4
  MaxMetaWrites = 2
SPECIFICATION MetaSpec
CHECK_DEADLOCK FALSE
INVARIANT SettledMeansUnchanged
