SPECIFICATION Spec
CONSTANTS
    None = None
    Onboarding = TRUE
    Bindings = {b1}
    Specs = {p1, p2}
    MaxAttempts = 1
    MaxJobs = 3
    MaxRevision = 3
    MaxLate = 1
    MaxSnapshots = 0
    MaxAborts = 1
INVARIANTS
    CommittedOrdersDone
    LastRequestWins
    InboundInvariant
    ResolutionAgrees
SYMMETRY Symmetry
CHECK_DEADLOCK FALSE
