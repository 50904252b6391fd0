SPECIFICATION Spec
CONSTANTS
  Allocations <- MCAllocations
  GenesisAllocations <- MCGenesis
  Txs <- MCMempoolTxs
  RewardNotes <- NoRewards
  MaxHeight = 2
  MaxBlockTxs = 1
  QueueLen = 2
  MaxSyncs = 0
INVARIANT MempoolFresh
PROPERTY MempoolCatchesUp
CHECK_DEADLOCK FALSE
