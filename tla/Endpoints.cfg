SPECIFICATION MCSpec
CONSTANTS
    RegNodes = {n1, n2}
    MaxRegTokens = 2
    MaxSecrets = 2
    MaxEras = 2
    MaxHostFaults = 2
    MaxAdminActs = 1
    NoFile = NoFile
    MaxLogins = 1
    MaxConnects = 2
    MaxStops = 2
    MaxStopFaults = 1
    NoLease = NoLease
    Cleaners = {k1}
    MaxFileFaults = 2
    MaxRelease = 2
    MaxArtifact = 2
    MaxUploads = 2
    AdminProcs = {p1, p2}
    NoAdmin = NoAdmin
    MaxVersionRow = 2
    Fetchers = {w1, w2}
    Sources = {1}
    KeepNewest = 1
INVARIANTS
    RegistrationRecoverable
    RunsOnOwnState
    TokenInvariant
    StopWins
    RuntimeInvariant
    ReferencedExists
    StorageInvariant
PROPERTY LineOnlyRises
SYMMETRY Symmetry
CHECK_DEADLOCK FALSE
