\* POSIX, a stale name may be there from the start: calls end and refusals are honest.
SPECIFICATION LockFairSpec
CONSTANTS
    Procs = {p1, p2, p3}
    Keys = {k1}
    Platform = "posix"
INVARIANTS LockTypeOK BusyIsHonest
PROPERTY CallsEnd
