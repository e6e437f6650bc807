\* Windows pipes: one client per id, records in use are kept, seats resume; and the
\* local actions of two requests, the second of a kind this device has no adapter for.
SPECIFICATION MCSpec
CONSTANTS
    Procs = {p1, p2}
    Keys = {k1, k2}
    Platform = "win32"
    MaxIds = 3
    Requests = {"r1", "r2"}
    Forbidden = {}
    Unsupported = {"r2"}
    Ttl = 1
    MaxMoves = 1
    MaxQueue = 2
    MaxHistory = 1
INVARIANTS MutualExclusion OneClientPerId ActionsOnce ActionsSettle
PROPERTY SeatsKept
CHECK_DEADLOCK FALSE
