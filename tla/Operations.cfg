SPECIFICATION MCFairSpec
CONSTANTS
    LeaseIds = {1, 2}
    LeaseProcs = {p1}
    Workers = {w1}
    MaxLimit = 2
    MaxSwitches = 2
    MaxLeaseFaults = 1
    MaxVersion = 3
    MaxSysOps = 2
    MaxSysFaults = 3
    KeepReleases = 2
    NoMark = NoMark
INVARIANTS
    ReportedIsRunning
    UpdateInvariant
PROPERTIES
    BarredUserLosesLeases
    SnapshotFirst
    OperationSettles
CHECK_DEADLOCK FALSE
