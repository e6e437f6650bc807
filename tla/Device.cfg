SPECIFICATION Spec
CONSTANTS
  OvSessions = {"a", "b", "c"}
  OvPaths = {"p"}
  OvContents = {"x"}
  OvQuota = 1
  SqPaths = {"p", "q"}
  SqOperations = 2
  SqMaximumBytes = 2
  SqContents = 2
  SqGenerations = 2
  PtKeys = 2
  PtOutputs = 1
  PtFaults = 1
  TwFrames = 2
  TwSize = 2
  TwMessage = 3
  TwSlab = 2
  TwQueueMax = 3
  TwPendMax = 1
  WaLimit = 2
  WaMoves = 3
  CpExcluded = {"x"}
  CpGenerations = 4
  RlPeers = {"p1", "p2", "p3"}
  RlAttempts = 2
  RlConnections = 2
  MwTop = {"a", "x"}
  MwBelow = {"b"}
  MwExcluded = {"x"}
  MwLimit = 2
  MwEdits = 2
  MwClock = 2
INVARIANTS
  SyncIsHonest
  StreamsEndWell
PROPERTIES
  MergesWhatWasSeen
  WireIsOrderedStream
CHECK_DEADLOCK FALSE
