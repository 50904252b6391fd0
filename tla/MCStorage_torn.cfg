SPECIFICATION Spec
CONSTANTS
  MaxVersion = 3
  Batches <- MCBatches
  MaxCrashes = 1
INVARIANT CommitSucceeds
CHECK_DEADLOCK FALSE
