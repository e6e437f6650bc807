SPECIFICATION Spec
CONSTANTS
  MaxKeys = 2
  MaxFence = 2
  MaxEpoch = 2
  MaxOut = 2
  MaxReq = 2
  Window = 1
  MaxFaults = 1
INVARIANTS
  KeysArrive
  StreamResumes
CHECK_DEADLOCK FALSE
