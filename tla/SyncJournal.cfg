\* The journals and stores that outlive a process; the sync journal with torn lines and with every fault.
SPECIFICATION MCSpec
CONSTANTS
  w1 = w1
  w2 = w2
  a = a
  x = x
  y = y
  NoOne = NoOne
  Writers <- MCWriters
  Ops <- MCOps
  Intents <- MCIntents
  Faults <- MCTorn
  LeaseMs = 1
  MaxNow = 1
  MaxOpens = 3
  MaxLog = 3
  DmPlatform = "posix"
  DmCallers = {"c1"}
  DmOwners = {"o1", "o2"}
  DmIntents = {"i1"}
  DmEntries = 1
  DmClock = 2
  DmTtl = 1
  DmLives = 2
  SkRuns = {"a", "b", "c"}
  SkBases = {0}
  SkRoots = {"m"}
  SkAttempts = 1
  SkDeaths = 1
  SkElsewhere = 1
  LsProcs = {"p", "q"}
  LsOps = 2
  LsTampers = 1
  LsEnds = 1
SYMMETRY WriterSymmetry
INVARIANTS
  TypeOK
  HistoriesLawful
  OwnersTakeOver
  AckedSurvives
  AckedIntentKept
  OnlyLatestWriter
  StoresKeep
CHECK_DEADLOCK FALSE
