\* Two sides that both write, one path excluded by the policy, no faults: both are kept, and they converge.
SPECIFICATION FairSpec
CONSTANTS
  Paths = {"p", "x"}
  Excluded = {"x"}
  MaxGen = 7
  MaxEdits = 2
  MaxMachine = 2
  MaxEnds = 0
  MaxFailures = 0
  MaxSleeps = 0
  MaxPending = 5
  StaleLimit = 2
  RetakeLimit = 1
  EditDuring = {}
INVARIANTS
  BothSidesKept
PROPERTIES
  AppliesInWhole
  Converges
CHECK_DEADLOCK FALSE
