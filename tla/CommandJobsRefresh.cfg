SPECIFICATION FairSpec
CONSTANTS
    None = None
    Onboarding = FALSE
    Bindings = {b1}
    Specs = {}
    MaxAttempts = 1
    MaxJobs = 2
    MaxRevision = 2
    MaxLate = 0
    MaxSnapshots = 1
    MaxAborts = 0
INVARIANTS
    CompletedMeansDone
PROPERTY EventuallyFinal
CHECK_DEADLOCK FALSE
