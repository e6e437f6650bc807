\* One path, and every fault: lost requests and answers, ends of the process, a journal lease that runs out.
SPECIFICATION Spec
CONSTANTS
  Paths = {"p"}
  Excluded = {}
  MaxGen = 3
  MaxEdits = 2
  MaxMachine = 1
  MaxEnds = 1
  MaxFailures = 1
  MaxSleeps = 2
  MaxPending = 5
  StaleLimit = 2
  RetakeLimit = 1
  EditDuring = {"pass"}
INVARIANTS
  BaselineTruth
  NoEditLost
  CommitKeepsOthers
CHECK_DEADLOCK FALSE
