CONSTANTS
  N = 2
  Comms <- MCComms
  Reqs = {1, 2}
  Calls <- TwoRequestsCalls
  MaxCalls = 4
  MaxLag = 1
  Synced = TRUE
  Types = {"ptp", "1tn", "1ta", "at1"}
  Ids <- MCIds
  TableSize = 8
  MaxKeys = 20
  NProcs = 2
  NoLinks = FALSE
  NoStates = FALSE
  IgnoreErrors = FALSE
  Dummy = FALSE
SPECIFICATION Spec
CHECK_DEADLOCK FALSE
INVARIANTS
  ReceivesAreFifo
