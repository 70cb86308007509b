CONSTANTS
  N = 2
  Comms <- MCComms
  Reqs = {1}
  Calls <- UntracedCalls
  MaxCalls = 2
  MaxLag = 4
  Synced = FALSE
  Types = {"ptp", "1tn", "1ta", "at1"}
  Ids <- MCIds
  TableSize = 8
  MaxKeys = 20
  NProcs = 2
  NoLinks = FALSE
  NoStates = FALSE
  IgnoreErrors = TRUE
  Dummy = FALSE
SPECIFICATION Spec
CHECK_DEADLOCK FALSE
INVARIANTS
  TraceIsWhole
PROPERTIES
  PopsItsOwnState
  ConversionEnds
