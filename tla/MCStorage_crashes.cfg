SPECIFICATION Spec
CONSTANTS
  MaxVersion = 3
  Batches <- MCBatches
  MaxCrashes = 3
INVARIANT AckedComplete
INVARIANT LatestNotBehind
INVARIANT QuiescentLatest
CHECK_DEADLOCK FALSE
