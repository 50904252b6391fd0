SPECIFICATION Spec
CONSTANTS
  a = a
  b = b
  c = c
  ka = ka
  kb = kb
  kc = kc
  IdentityKeys = {a, b, c}
  ConsensusKeys = {ka, kb, kc}
  GenesisValidators <- MCGenesisValidators
  GenesisDelegation <- MCGenesisDelegation
  GenesisStake = 5
  Bps = 4
  U64 = 4096
  EpochDuration = 2
  UnbondingEpochs = 2
  ActiveValidatorLimit = 2
  BaseRewardRate = 4
  SlashingPenaltyDowntime = 1
  SignedBlocksWindowLen = 2
  MissedBlocksMaximum = 2
  MaxVotingPower = 1000
  Txs <- MCRekeyTxs
  EvidenceArrives = TRUE
  MaxHeight = 7
  MaxBlockTxs = 1
INVARIANT RatesInSync
INVARIANT UptimeInSync
INVARIANT TmTracksActive
INVARIANT ActiveAreStrongest
INVARIANT DelegationSupplyConserved
INVARIANT StakeSupplyCovers
PROPERTY SlashedIsFinal
PROPERTY RemovalsNameMembers
CHECK_DEADLOCK FALSE
