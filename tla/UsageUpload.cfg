\* Safety: two restarts' worth of boots, a rotation, late requests.
SPECIFICATION Spec
CONSTANTS
  MaxBoot = 2
  MaxSequence = 3
  MaxCredential = 2
  MaxLate = 2
  MaxRedacted = 1
  ListLimit = 2
  MaxContiguousBatches = 2
INVARIANTS NeverLost UnsettledKeepsPayload UploadInvariant
PROPERTY LedgerSpec
