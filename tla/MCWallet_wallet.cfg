SPECIFICATION Spec
CONSTANTS
  penumbra = penumbra
  delegation = delegation
  Bps = 2
  U64 = 1000000
  Stake = penumbra
  DelegationToken = delegation
  Rate <- MCRate
  GenesisNotes <- MCNotes
  Requests <- MCRequests
  Payment = 1
  SweepCount = 2
  CheckpointInterval = 2
  SubmittedTimeout = 1
  MaxHeight = 3
  MaxCommands = 2
  MaxClock = 2
INVARIANTS NotesAccounted SpendableHavePath ChangeCountedOnce BuildsBalance NoSecondAttempt
CHECK_DEADLOCK FALSE
