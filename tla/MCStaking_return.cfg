SPECIFICATION Spec
CONSTANTS
  a = a
  b = b
  c = c
  ka = ka
  kb = kb
  kc = kc
  IdentityKeys = {a, b, c}
  ConsensusKeys = {ka, kb, kc}
  GenesisValidators <- MCGenesisValidators
  GenesisDelegation <- MCGenesisDelegation
  GenesisStake = 40
  Bps = 4
  U64 = 4096
  EpochDuration = 2
  UnbondingEpochs = 1
  ActiveValidatorLimit = 2
  BaseRewardRate = 4
  SlashingPenaltyDowntime = 1
  SignedBlocksWindowLen = 1
  MissedBlocksMaximum = 9
  MaxVotingPower = 1000
  Txs <- MCSetTxs
  EvidenceArrives = FALSE
  MaxHeight = 3
  MaxBlockTxs = 2
INVARIANT BlocksSucceed
CHECK_DEADLOCK FALSE
