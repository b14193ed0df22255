SPECIFICATION Spec
CONSTANTS
    None = None
    Onboarding = FALSE
    Bindings = {b1}
    Specs = {}
    MaxAttempts = 1
    MaxJobs = 3
    MaxRevision = 2
    MaxLate = 0
    MaxSnapshots = 0
    MaxAborts = 1
INVARIANT CompletedMeansDone
CHECK_DEADLOCK FALSE
