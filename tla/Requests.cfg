SPECIFICATION Spec
CONSTANTS
  Invocations = {"i1", "i2"}
  Console = "web"
  Owner = "owner"
  Stranger = "stranger"
  Creators = {"k1", "k2"}
  McRuns = {"r1", "r2"}
  McStarts = 2
  McHistory = 2
  PlRuns = {"r1", "r2"}
  PlStarts = 2
  PlPosts = 3
  PlHistory = 2
  Deadline = 5
  Budget = 3
  Pause = 1
  Poll = 2
  CrDeadline = 3
  CrPoll = 1
  CrBudget = 2
  RcBudget = 2
  CiRuns = 2
  CiDepth = 2
  OgProcs = {"p1"}
  OgOps = 1
  OgReadings = 1
  OgStarts = 2
  CgTtl = 1
  CgSkew = 1
  CgClock = 2
  SwSessions = {1, 2}
  SwSwitches = 2
  SwEvents = 2
  SwWaits = 1
  SoOps = 2
  SoOpens = 3
  SoMoves = 2
  PeMode = "auto"
  PeColumns = 5
  PeKeys = 5
  PeClock = 2
  PeTimeout = 2
  PeBarrier = 2
  PeMoves = 1
  VtWrites = 3
  VtPending = 2
  VtMoves = 2
INVARIANTS
  AskedOnce
  RefusalsAreTrue
  ShownIsSo
  NothingStrays
CHECK_DEADLOCK FALSE
