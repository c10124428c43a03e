SPECIFICATION Spec
CONSTANTS
  None = None
  Requests = {r1}
  Syncs = {}
  Modes = {"reload"}
  Journaled = {TRUE}
  JournalRead = {TRUE}
  Edits = {}
  Quiet = FALSE
  MaxManagers = 2
  MaxCred = 2
  MaxEdits = 0
INVARIANT NoSpentActive
CHECK_DEADLOCK FALSE
