SPECIFICATION Spec
CONSTANTS
  Paths = {"p"}
  Excluded = {}
  MaxGen = 2
  MaxEdits = 1
  MaxMachine = 1
  MaxEnds = 0
  MaxFailures = 0
  MaxSleeps = 0
  MaxPending = 5
  StaleLimit = 2
  RetakeLimit = 1
  EditDuring = {"apply", "pass"}
INVARIANTS
  NoEditLost
CHECK_DEADLOCK FALSE
