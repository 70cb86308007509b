CONSTANTS
  Types = {"ptp", "1tn", "1ta", "at1"}
  Ids = {0, 1}
  TableSize = 2
  MaxKeys = 10
  NProcs = 2
  NoLinks = FALSE
  NoStates = FALSE
  IgnoreErrors = TRUE
  Dummy = FALSE
  Events <- MCEvents
  MaxLinks = 3
SPECIFICATION AnySpec
CONSTRAINT Bounded
CHECK_DEADLOCK FALSE
INVARIANTS
  LinkKeysUnique
  EndsFollowStarts
  OpenLinksWait
  EmptyStartMeansFull
PROPERTIES
  AnyLinksPaired
