CONSTANTS
  Types = {"ptp"}
  Ids = {0, 1}
  TableSize = 2
  MaxKeys = 5
  Elems = {e1, e2, e3, e4}
  NULL = NULL
SPECIFICATION ListSpec
SYMMETRY Addresses
INVARIANTS
  ListTypeOK
  WellLinked
  NoLeakNoSharing
PROPERTIES
  ImplementsAkyKeys
