CONSTANTS
  Types = {"ptp", "1tn"}
  Ids = {0, 1}
  TableSize = 3
  MaxKeys = 4
SPECIFICATION KeysSpec
INVARIANTS
  KeysTypeOK
  QueuesOrdered
  KeysUnique
PROPERTIES
  NoKeyReturns
  BufferExplained
