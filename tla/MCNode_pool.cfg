SPECIFICATION Spec
CONSTANTS
  Allocations <- MCAllocations
  GenesisAllocations <- MCGenesis
  Txs <- MCTxs
  RewardNotes <- MCRewards
  MaxHeight = 3
  MaxBlockTxs = 2
  QueueLen = 0
  MaxSyncs = 2
INVARIANT ValueConserved
INVARIANT NoDoubleSpend
INVARIANT BlocksRebuildTree
INVARIANT AnchorsEndBlocks
INVARIANT ClientAnchorAccepted
PROPERTY SpentIsFinal
PROPERTY ImplementsLedger
CHECK_DEADLOCK FALSE
