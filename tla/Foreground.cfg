SPECIFICATION MCSpec
CONSTANTS
  Tabs = {1, 2}
  Keys = {"w", "enter", "d", "n", "interrupt", "prefix"}
  Questions <- OneBrowser
  Observable = {1}
  Roster = TRUE
  Budgets <- KeysAndFaults
  MaxFence = 2
  MaxPending = 3
  QuickAttempts = 1
  SlowAttempts = 1
  ExEvents = 1
INVARIANTS
  AimedInput
  ScreensTruthful
CHECK_DEADLOCK FALSE
