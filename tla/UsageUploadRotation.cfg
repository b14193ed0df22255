\* Liveness: the credential is replaced while batches are queued.
SPECIFICATION FairSpec
CONSTANTS
  MaxBoot = 2
  MaxSequence = 2
  MaxCredential = 2
  MaxLate = 0
  MaxRedacted = 0
  ListLimit = 2
  MaxContiguousBatches = 1
PROPERTY EventuallySettled
