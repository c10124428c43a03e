CONSTANTS
  proc1 = proc1  proc2 = proc2
  a1 = a1  a2 = a2  b1 = b1
  Procs = {proc1, proc2}
  Flights = {a1, a2, b1}
  ProcOf <- MCProcOf
  None = None  Failed = Failed
  MaxToken = 2
  LeaseModes = {TRUE, FALSE}
  MaxPolls = 1
  MaxFaults = 1
SPECIFICATION Spec
SYMMETRY MCSymmetry
CHECK_DEADLOCK FALSE
INVARIANTS TypeOK ExclusiveRefresh FlightsKept
PROPERTIES ResultsShield
