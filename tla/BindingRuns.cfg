\* Two runs at a time in one folder, three in all, two Machines, every fault.
SPECIFICATION Spec
CONSTANTS
    Procs = {p1, p2}
    Keys = {k1}
    Platform = "win32"
    Machines = {m1, m2}
    Faults = {"crash", "delete", "gone", "lost"}
    MaxGen = 3
    MaxRev = 2
    MaxRuns = 3
PROPERTIES LockIsExclusive NoLostUpdate RecordsTrue RebindOnlyWhenGone
CHECK_DEADLOCK FALSE
SYMMETRY Symmetry
