CONSTANTS
  Types = {"n"}
  Ids = {0, 1}
  TableSize = 1
  MaxKeys = 5
  Containers <- MCContainers
  Threads <- MCThreads
  States = {1, 2}
  MpiStates = {1}
  StateSlots = 1
  Batch = 3
  MaxThreads = 2
  MaxDepth = 2
  MaxMessages = 2
  MaxRecords = 4
  Processes = {0, 1}
  Functions = {0, 1}
  CollectiveOps = {0}
  NameSlots = 1
  MaxNesting = 2
  MaxEvents = 5
  HostLines <- MCHostLines
  MaxHostLines = 2
  Texts <- MCTexts
  ShortName <- MCShortName
  MpiTexts = {"MPI_f"}
  RegionNames <- MCRegionNames
  NodeNames = {0, 1}
  ClassNames = {0, 1}
  MaxNodes = 3
  MaxGroups = 2
  MaxLocations = 2
  LocationTypes = {1, 2}
  MaxOpen = 2
  MaxDefinitions = 5
  MaxArchive = 6
  OmpThreads = {0, 1}
  OmpRegions = {"r"}
  BufferLines = 2
  MaxLines = 4
  Commands <- FlatOnly
SPECIFICATION Spec
CONSTRAINT Bounded
CHECK_DEADLOCK FALSE
INVARIANTS
  FlatConverts
