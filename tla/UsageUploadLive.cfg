\* Liveness: one credential for the whole run.
SPECIFICATION FairSpec
CONSTANTS
  MaxBoot = 2
  MaxSequence = 2
  MaxCredential = 1
  MaxLate = 1
  MaxRedacted = 0
  ListLimit = 2
  MaxContiguousBatches = 1
PROPERTY EventuallySettled
