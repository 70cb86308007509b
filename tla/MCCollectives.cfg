CONSTANTS
  N = 3
  Comms <- MCComms
  Reqs = {1}
  Calls <- CollectiveCalls
  MaxCalls = 2
  MaxLag = 1
  Synced = TRUE
  Types = {"ptp", "1tn", "1ta", "at1"}
  Ids <- MCIds
  TableSize = 36
  MaxKeys = 20
  NProcs = 3
  NoLinks = FALSE
  NoStates = FALSE
  IgnoreErrors = FALSE
  Dummy = FALSE
SPECIFICATION Spec
CHECK_DEADLOCK FALSE
INVARIANTS
  NoMissingKey
  LinksJoinOneMessage
  CollectiveLinksComplete
