---------------------------- MODULE StakingProofs ----------------------------
(***************************************************************************)
(* Proofs about Staking, for every set of validators and transactions and  *)
(* every value of the chain parameters:                                    *)
(*   - the type invariant;                                                 *)
(*   - rates and uptime trackers stay in step with the height, so that the *)
(*     assertion of end_epoch and the unwrap of track_uptime cannot fail;  *)
(*   - slashing is final;                                                  *)
(*   - the active set is the strongest part of the validators;             *)
(*   - delegation tokens are conserved, and the staking-token supply       *)
(*     covers the stake in circulation while nobody is slashed;            *)
(*   - Tendermint's set follows the active set, but for the consensus keys *)
(*     that definitions move or share;                                     *)
(*   - the chain halts for six known reasons only, and goes on where none  *)
(*     of them arises.                                                     *)
(***************************************************************************)
EXTENDS Staking, Arithmetic, TLAPS

\* The steps that only end the worker.
Fails == BeginBlockEvidence \/ \E tx \in Txs : DeliverTxPanics(tx)

\* They leave everything else alone.
LEMMA FailsHalts == ASSUME Fails PROVE Halt
  BY DEF Fails, BeginBlockEvidence, DeliverTxPanics

-----------------------------------------------------------------------------
(* Epochs                                                                  *)

\* Epoch::from_height: the epoch index changes exactly after the last height of an epoch.
LEMMA EpochStep ==
  ASSUME NEW h \in Nat
  PROVE  /\ EpochOf(h) \in Nat
         /\ EpochOf(h + 1) = IF IsEpochEnd(h) THEN EpochOf(h) + 1 ELSE EpochOf(h)
  <1> DEFINE d == EpochDuration
             q == h \div d
  <1>1. d \in Nat \ {0} BY StakingAssumption
  <1>2. q \in Nat BY <1>1, DivType
  <1>3. d * q <= h /\ h < d * q + d BY <1>1, DivBounds
  <1>4. CASE IsEpochEnd(h)
    <2>1. h + 1 = d * (q + 1)
      BY <1>1, <1>2, <1>4 DEF IsEpochEnd, EndHeight, EpochOf
    <2>2. (h + 1) \div d = q + 1
      <3> DEFINE r == q + 1
      <3>1. r \in Int /\ d * r <= h + 1 /\ h + 1 < d * r + d BY <1>1, <1>2, <2>1
      <3> HIDE DEF r
      <3>2. (h + 1) \div d = r BY <1>1, <3>1, DivUnique
      <3> QED BY <3>2 DEF r
    <2> QED BY <1>2, <1>4, <2>2 DEF EpochOf
  <1>5. CASE ~IsEpochEnd(h)
    <2>1. h + 1 # d * q + d
      BY <1>1, <1>2, <1>5 DEF IsEpochEnd, EndHeight, EpochOf
    <2>2. (h + 1) \div d = q
      <3>1. d * q <= h + 1 /\ h + 1 < d * q + d
        <4> DEFINE p == d * q
        <4>1. p \in Nat BY <1>1, <1>2
        <4>2. p <= h /\ h < p + d /\ h + 1 # p + d BY <1>3, <2>1
        <4> HIDE DEF p
        <4>3. p <= h + 1 /\ h + 1 < p + d BY <1>1, <4>1, <4>2
        <4> QED BY <4>3 DEF p
      <3> QED BY <1>1, <1>2, <3>1, DivUnique, SMTT(30)
    <2> QED BY <1>2, <1>5, <2>2 DEF EpochOf
  <1> QED BY <1>4, <1>5

-----------------------------------------------------------------------------
(* What the operators of Rates and Uptime return                           *)

\* The constants of the fixed-point numbers are positive.
LEMMA ScaleType == Scale \in Nat \ {0} /\ Bps \in Nat \ {0} /\ U64 \in Nat \ {0}
  BY RatesAssumption DEF Scale

\* The rates of init_chain and add_validator are rates.
LEMMA InitialRateType ==
  ASSUME NEW e \in Nat PROVE InitialRate(e) \in RateData /\ InitialBaseRate(e) \in BaseRateData
  BY ScaleType DEF InitialRate, InitialBaseRate, RateData, BaseRateData

\* A held rate is a rate.
LEMMA ConstantRateType ==
  ASSUME NEW r \in RateData PROVE ConstantRate(r) \in RateData
  BY DEF ConstantRate, RateData

\* A wrapped product divided by a positive number.
LEMMA WrapDivType ==
  ASSUME NEW n \in Int, NEW d \in Nat \ {0} PROVE Wrap(n) \div d \in Nat
  <1>1. Wrap(n) \in Nat BY ScaleType, ModType DEF Wrap
  <1> QED BY <1>1, DivType

\* BaseRateData::next returns a base rate, an overflow included.
LEMMA BaseRateNextType ==
  ASSUME NEW r \in BaseRateData, NEW reward \in Nat PROVE BaseRateNext(r, reward) \in BaseRateData
  <1> DEFINE n == r.base_exchange_rate * (reward + Scale)
  <1>1. n \in Int BY ScaleType DEF BaseRateData
  <1> HIDE DEF n
  <1>2. Wrap(n) \div Scale \in Nat BY <1>1, ScaleType, WrapDivType
  <1> QED BY <1>2 DEF BaseRateNext, BaseRateData, n

\* RateData::next returns a rate, an overflow included.
LEMMA ActiveRateNextType ==
  ASSUME NEW r \in RateData, NEW base \in BaseRateData, NEW bps \in Nat
  PROVE  ActiveRateNext(r, base, bps) \in RateData
  <1> DEFINE m == (Scale - bps * Bps) * base.base_reward_rate
             reward == Wrap(m) \div Scale
             n == r.validator_exchange_rate * (reward + Scale)
  <1>1. m \in Int BY ScaleType DEF BaseRateData
  <1>2. reward \in Nat
    <2> HIDE DEF m
    <2> QED BY <1>1, ScaleType, WrapDivType
  <1>3. n \in Int
    <2> HIDE DEF reward
    <2> QED BY <1>2, ScaleType DEF RateData
  <1>4. Wrap(n) \div Scale \in Nat
    <2> HIDE DEF n
    <2> QED BY <1>3, ScaleType, WrapDivType
  <1> HIDE DEF m
  <1> QED BY <1>2, <1>4 DEF ActiveRateNext, RateData, m

\* RateData::slash returns a rate: the subtraction saturates.
LEMMA SlashRateType ==
  ASSUME NEW r \in RateData, NEW penalty \in Nat PROVE SlashRate(r, penalty) \in RateData
  <1> DEFINE n == r.validator_exchange_rate * penalty
             cut == Wrap(n) \div Bps
  <1>1. n \in Int BY DEF RateData
  <1>2. cut \in Nat
    <2> HIDE DEF n
    <2> QED BY <1>1, ScaleType, WrapDivType
  <1>3. SlashRate(r, penalty) =
          [r EXCEPT !.validator_exchange_rate =
             IF cut > r.validator_exchange_rate THEN 0 ELSE r.validator_exchange_rate - cut]
    BY DEF SlashRate, RateData
  <1> HIDE DEF cut
  <1> QED BY <1>2, <1>3 DEF RateData

\* Slashing leaves the epoch of a rate alone.
LEMMA SlashRateEpoch ==
  ASSUME NEW r \in RateData, NEW penalty \in Nat
  PROVE  SlashRate(r, penalty).epoch_index = r.epoch_index
  BY DEF SlashRate, RateData

\* A voting power is a natural number.
LEMMA VotingPowerType ==
  ASSUME NEW r \in RateData, NEW base \in BaseRateData, NEW tokens \in Nat, base.base_exchange_rate # 0
  PROVE  VotingPower(r, tokens, base) \in Nat
  <1> DEFINE n == tokens * r.validator_exchange_rate
  <1>1. n \in Nat BY DEF RateData
  <1>2. base.base_exchange_rate \in Nat \ {0} BY DEF BaseRateData
  <1> HIDE DEF n
  <1>3. n \div base.base_exchange_rate \in Nat BY <1>1, <1>2, DivType
  <1> QED BY <1>3 DEF VotingPower, n

\* New and marked trackers are trackers.
LEMMA UptimeType ==
  ASSUME NEW h \in Nat
  PROVE  /\ NewUptime(h, SignedBlocksWindowLen) \in UptimeOver(SignedBlocksWindowLen)
         /\ \A u \in UptimeOver(SignedBlocksWindowLen), s \in BOOLEAN :
              MarkHeightAsSigned(u, h, s, SignedBlocksWindowLen) \in UptimeOver(SignedBlocksWindowLen)
  BY StakingAssumption DEF NewUptime, MarkHeightAsSigned, UptimeOver

-----------------------------------------------------------------------------
(* Type correctness                                                        *)

\* The validators of the list are identity keys.
LEMMA KnownType == TypeOK => Known \subseteq IdentityKeys
  BY DEF TypeOK, Known

\* The height is a natural number.
LEMMA TypeHeight == TypeOK => height \in Nat
  BY DEF TypeOK

\* The definitions of a transaction: each has the type, and the latest one of
\* a validator is one of them.
LEMMA TxType ==
  ASSUME NEW tx \in Txs
  PROVE  /\ tx.delegate \in Delegations \union {NoAction}
         /\ tx.undelegate \in Undelegations \union {NoAction}
         /\ tx.definitions \in Seq(Definitions)
         /\ Len(tx.definitions) \in 0 .. 2
         /\ DOMAIN tx.definitions = 1 .. Len(tx.definitions)
         /\ \A i \in DOMAIN tx.definitions : tx.definitions[i] \in Definitions
  <1>1. /\ tx.delegate \in Delegations \union {NoAction}
        /\ tx.undelegate \in Undelegations \union {NoAction}
        /\ tx.definitions \in Seq(Definitions) /\ Len(tx.definitions) <= 2
    BY StakingAssumption
  <1> DEFINE ds == tx.definitions
  <1>2. ds \in Seq(Definitions) /\ Len(ds) <= 2 BY <1>1
  <1> HIDE DEF ds
  <1>3. Len(ds) \in 0 .. 2 /\ DOMAIN ds = 1 .. Len(ds)
    <2>1. Len(ds) \in Nat BY <1>2
    <2>2. DOMAIN ds = 1 .. Len(ds) BY <1>2
    <2> QED BY <1>2, <2>1, <2>2
  <1>4. \A i \in DOMAIN ds : ds[i] \in Definitions BY <1>2
  <1> QED BY <1>1, <1>3, <1>4 DEF ds

\* The latest definition of a validator in a transaction is one of its own.
LEMMA LatestIs ==
  ASSUME NEW tx \in Txs, NEW v \in IdentityKeys, Defined(tx, v) # {}
  PROVE  \E i \in DOMAIN tx.definitions :
           Latest(tx, v) = tx.definitions[i] /\ tx.definitions[i].identity_key = v
  <1>1. Defined(tx, v) \subseteq 1 .. 2 BY TxType DEF Defined
  <1>2. \E i \in Defined(tx, v) : \A j \in Defined(tx, v) : j <= i
    <2>1. CASE 2 \in Defined(tx, v) BY <1>1, <2>1
    <2>2. CASE 2 \notin Defined(tx, v) BY <1>1, <2>2
    <2> QED BY <2>1, <2>2
  <1> DEFINE k == CHOOSE i \in Defined(tx, v) : \A j \in Defined(tx, v) : j <= i
  <1>3. k \in Defined(tx, v) BY <1>2
  <1>4. Latest(tx, v) = tx.definitions[k] BY DEF Latest
  <1> HIDE DEF k
  <1> QED BY <1>3, <1>4 DEF Defined

\* It has the type of a definition.
LEMMA LatestType ==
  ASSUME NEW tx \in Txs, NEW v \in IdentityKeys, Defined(tx, v) # {}
  PROVE  Latest(tx, v) \in Definitions /\ Latest(tx, v).identity_key = v
  <1>1. PICK i \in DOMAIN tx.definitions :
          Latest(tx, v) = tx.definitions[i] /\ tx.definitions[i].identity_key = v
    BY LatestIs
  <1> QED BY <1>1, TxType

\* add_validator keeps the list and adds the new validators of the transaction.
LEMMA AppendNewType ==
  ASSUME NEW list \in Seq(IdentityKeys), NEW def \in Definitions
  PROVE  /\ AppendNew(list, def) \in Seq(IdentityKeys)
         /\ {AppendNew(list, def)[i] : i \in DOMAIN AppendNew(list, def)} =
              {list[i] : i \in DOMAIN list} \union {def.identity_key}
  <1>1. def.identity_key \in IdentityKeys BY DEF Definitions
  <1>2. CASE \E i \in DOMAIN list : list[i] = def.identity_key BY <1>2 DEF AppendNew
  <1>3. CASE ~ \E i \in DOMAIN list : list[i] = def.identity_key
    <2> DEFINE new == Append(list, def.identity_key)
    <2>1. AppendNew(list, def) = new BY <1>3 DEF AppendNew
    <2>2. new \in Seq(IdentityKeys) /\ DOMAIN new = 1 .. (Len(list) + 1) /\ DOMAIN list = 1 .. Len(list)
      BY <1>1
    <2>3. new[Len(list) + 1] = def.identity_key /\ \A i \in 1 .. Len(list) : new[i] = list[i]
      BY <1>1
    <2>4. Len(list) \in Nat OBVIOUS
    <2> HIDE DEF new
    <2>5. {new[i] : i \in DOMAIN new} = {list[i] : i \in DOMAIN list} \union {def.identity_key}
      BY <2>2, <2>3, <2>4
    <2> QED BY <2>1, <2>2, <2>5
  <1> QED BY <1>2, <1>3

\* After a transaction the list also names the validators it defines.
LEMMA ListAfterType ==
  ASSUME TypeOK, NEW tx \in Txs, validator_list' = ListAfter(tx)
  PROVE  /\ validator_list' \in Seq(IdentityKeys)
         /\ Known' = Known \union {v \in IdentityKeys : Defined(tx, v) # {}}
  <1>1. validator_list \in Seq(IdentityKeys) BY DEF TypeOK
  <1> DEFINE ds == tx.definitions
  <1>2. CASE Len(ds) = 0
    <2>1. ds \in Seq(Definitions) /\ DOMAIN ds = {} BY <1>2, TxType
    <2>2. ds = << >>
      <3> HIDE DEF ds
      <3> QED BY <1>2, <2>1
    <2>3. validator_list' = validator_list BY <2>2 DEF ListAfter
    <2>4. \A v \in IdentityKeys : Defined(tx, v) = {} BY <2>1 DEF Defined
    <2>5. Known' = Known BY <2>3 DEF Known
    <2> QED BY <1>1, <2>3, <2>4, <2>5
  <1>3. CASE Len(ds) = 1
    <2>1. ds # << >> /\ ds[1] \in Definitions /\ DOMAIN ds = {1} BY <1>3, TxType
    <2>2. validator_list' = AppendNew(validator_list, ds[1]) BY <1>3, <2>1 DEF ListAfter
    <2>3. {v \in IdentityKeys : Defined(tx, v) # {}} = {ds[1].identity_key}
      BY <2>1 DEF Defined, Definitions
    <2> DEFINE one == AppendNew(validator_list, ds[1])
    <2>4. one \in Seq(IdentityKeys) /\ {one[i] : i \in DOMAIN one} = Known \union {ds[1].identity_key}
      BY <1>1, <2>1, AppendNewType DEF Known
    <2> HIDE DEF one
    <2>5. validator_list' = one BY <2>2 DEF one
    <2> QED BY <2>3, <2>4, <2>5 DEF Known
  <1>4. CASE Len(ds) = 2
    <2>1. ds # << >> /\ ds[1] \in Definitions /\ ds[2] \in Definitions /\ DOMAIN ds = {1, 2}
      BY <1>4, TxType
    <2> DEFINE one == AppendNew(validator_list, ds[1])
    <2>2. validator_list' = AppendNew(one, ds[2]) BY <1>4, <2>1 DEF ListAfter
    <2>3. {v \in IdentityKeys : Defined(tx, v) # {}} = {ds[1].identity_key, ds[2].identity_key}
      BY <2>1 DEF Defined, Definitions
    <2>4. one \in Seq(IdentityKeys) /\ {one[i] : i \in DOMAIN one} = Known \union {ds[1].identity_key}
      BY <1>1, <2>1, AppendNewType DEF Known
    <2> HIDE DEF one
    <2>5. /\ AppendNew(one, ds[2]) \in Seq(IdentityKeys)
          /\ {AppendNew(one, ds[2])[i] : i \in DOMAIN AppendNew(one, ds[2])} =
               Known \union {ds[1].identity_key} \union {ds[2].identity_key}
      BY <2>1, <2>4, AppendNewType
    <2> QED BY <2>2, <2>3, <2>5 DEF Known
  <1> QED BY <1>2, <1>3, <1>4, TxType

\* init_chain writes well-formed records.
LEMMA InitType == Init => TypeOK
  <1> SUFFICES ASSUME Init PROVE TypeOK OBVIOUS
  <1> DEFINE gs == GenesisValidators
  <1>1. gs \in Seq(Definitions) /\ DOMAIN gs = 1 .. Len(gs) /\ Len(gs) \in Nat
        /\ \A i \in DOMAIN gs : gs[i] \in Definitions
    <2>1. gs \in Seq(Definitions) BY StakingAssumption
    <2> HIDE DEF gs
    <2>2. Len(gs) \in Nat /\ DOMAIN gs = 1 .. Len(gs) BY <2>1
    <2> QED BY <2>1, <2>2
  <1>2. validator_list \in Seq(IdentityKeys) /\ Known = GenesisKeys
    <2>1. validator_list = [i \in 1 .. Len(gs) |-> gs[i].identity_key] BY <1>1 DEF Init
    <2>2. \A i \in 1 .. Len(gs) : gs[i].identity_key \in IdentityKeys BY <1>1 DEF Definitions
    <2>3. validator_list \in Seq(IdentityKeys)
      <3> HIDE DEF gs
      <3> QED BY <1>1, <2>1, <2>2
    <2> QED BY <1>1, <2>1, <2>3 DEF Known, GenesisKeys
  <1>3. \A v \in GenesisKeys : GenesisDefinition(v) \in Definitions
    BY <1>1 DEF GenesisKeys, GenesisDefinition
  <1>4. \A v \in IdentityKeys : GenesisPower(v) \in Nat
    <2> TAKE v \in IdentityKeys
    <2>1. GenesisDelegation[v] \in Nat BY StakingAssumption
    <2>2. InitialRate(0) \in RateData /\ InitialBaseRate(0) \in BaseRateData BY InitialRateType
    <2>3. InitialBaseRate(0).base_exchange_rate # 0 BY ScaleType DEF InitialBaseRate
    <2> QED BY <2>1, <2>2, <2>3, VotingPowerType DEF GenesisPower
  <1>5. GenesisKeys \subseteq IdentityKeys BY <1>1 DEF GenesisKeys, Definitions
  <1>6. definition \in [IdentityKeys -> Definitions \union {NoDefinition}]
        /\ \A v \in Known : definition[v] \in Definitions
    BY <1>2, <1>3, <1>5 DEF Init
  <1>7. state \in [IdentityKeys -> ValidatorStates] BY DEF Init, ValidatorStates
  <1>8. power \in [IdentityKeys -> Nat] BY <1>4 DEF Init
  <1>9. /\ current_rate \in [IdentityKeys -> RateData] /\ next_rate \in [IdentityKeys -> RateData]
        /\ current_base_rate \in BaseRateData /\ next_base_rate \in BaseRateData
    BY InitialRateType DEF Init
  <1>10. uptime \in [IdentityKeys -> UptimeOver(SignedBlocksWindowLen)] BY UptimeType DEF Init
  <1>11. NoChanges \in [IdentityKeys -> [delegated : Nat, undelegated : Nat]]
    BY DEF NoChanges, NoChange
  <1>12. supply \in [IdentityKeys -> Nat] /\ stake_supply \in Nat BY StakingAssumption DEF Init
  <1>13. tm \in [ConsensusKeys -> Nat]
    BY <1>4, <1>5 DEF Init
  <1>14. tm_updates \in [ConsensusKeys -> Nat \union {NoUpdate}] BY DEF Init, NoUpdates
  <1> HIDE DEF gs
  <1> QED BY <1>2, <1>6, <1>7, <1>8, <1>9, <1>10, <1>11, <1>12, <1>13, <1>14 DEF Init, TypeOK

\* An action that leaves the typed part alone, but for the phase.
LEMMA UnchangedType ==
  ASSUME TypeOK, phase' \in {"committed", "block", "ended", "halted"}, height' \in Nat, block_txs' \in Nat,
         UNCHANGED <<validators, base_rates, changes, supplies>>,
         pending' \in [IdentityKeys -> [delegated : Nat, undelegated : Nat]],
         tm_updates' \in [ConsensusKeys -> Nat \union {NoUpdate}],
         tm' \in [ConsensusKeys -> Nat], rekeyed' = rekeyed
  PROVE  TypeOK'
  <1>1. Known' = Known BY DEF Known, validators
  <1> QED BY <1>1 DEF TypeOK, validators, base_rates, supplies

\* A failed block leaves the records alone.
LEMMA HaltType == TypeOK /\ Halt => TypeOK'
  <1> SUFFICES ASSUME TypeOK, Halt PROVE TypeOK' OBVIOUS
  <1>1. /\ phase' = "halted" /\ height' \in Nat /\ block_txs' \in Nat
        /\ UNCHANGED <<validators, base_rates, changes, supplies>>
        /\ pending' = pending /\ tm_updates' = tm_updates /\ tm' = tm /\ rekeyed' = rekeyed
    BY DEF Halt, TypeOK, queue, tendermint
  <1>2. /\ pending \in [IdentityKeys -> [delegated : Nat, undelegated : Nat]]
        /\ tm_updates \in [ConsensusKeys -> Nat \union {NoUpdate}]
        /\ tm \in [ConsensusKeys -> Nat]
    BY DEF TypeOK
  <1> QED BY <1>1, <1>2, UnchangedType

\* A slashed rate is a rate of the same epoch.
LEMMA PenalisedType ==
  ASSUME TypeOK, NEW v \in IdentityKeys
  PROVE  /\ Penalised(v) \in RateData
         /\ ConstantRate(Penalised(v)) \in RateData
         /\ Penalised(v).epoch_index = current_rate[v].epoch_index
         /\ ConstantRate(Penalised(v)).epoch_index = current_rate[v].epoch_index + 1
         /\ ConstantRate(Penalised(v)).validator_exchange_rate = Penalised(v).validator_exchange_rate
  <1>1. current_rate[v] \in RateData /\ SlashingPenaltyDowntime \in Nat
    BY StakingAssumption DEF TypeOK
  <1>2. Penalised(v) \in RateData BY <1>1, SlashRateType DEF Penalised
  <1>3. Penalised(v).epoch_index = current_rate[v].epoch_index BY <1>1, SlashRateEpoch DEF Penalised
  <1> QED BY <1>2, <1>3, ConstantRateType DEF ConstantRate, RateData

\* Tendermint's set stays a set of powers.
LEMMA AppliedType ==
  ASSUME TypeOK, NEW updates \in [ConsensusKeys -> Nat \union {NoUpdate}]
  PROVE  Applied(updates) \in [ConsensusKeys -> Nat]
  BY DEF TypeOK, Applied

\* begin_block: trackers, slashed states and penalised rates are well formed.
LEMMA BeginBlockType ==
  ASSUME TypeOK, NEW signers \in SUBSET ConsensusKeys, BeginBlock(signers) PROVE TypeOK'
  <1> DEFINE down == Down(signers)
  <1>1. CASE Halt BY <1>1, HaltType
  <1>2. CASE ~Halt
    <2>1. height + 1 \in Nat BY DEF TypeOK
    <2>2. \A v \in IdentityKeys : Marked(v, signers) \in UptimeOver(SignedBlocksWindowLen)
      <3> TAKE v \in IdentityKeys
      <3>1. uptime[v] \in UptimeOver(SignedBlocksWindowLen) BY DEF TypeOK
      <3>2. (definition[v].consensus_key \in signers) \in BOOLEAN OBVIOUS
      <3> QED BY <2>1, <3>1, <3>2, UptimeType DEF Marked
    <2>3. \A v \in IdentityKeys : /\ Penalised(v) \in RateData
                                  /\ ConstantRate(Penalised(v)) \in RateData
      BY PenalisedType
    <2>4. /\ TrackUptime(signers, down)
          /\ phase' = "block" /\ height' = height + 1
          /\ UNCHANGED <<block_txs, validator_list, definition, power, base_rates, queue,
                         supplies, notes, tm, rekeyed>>
      BY <1>2 DEF BeginBlock
    <2> HIDE DEF down
    <2>5. Known' = Known BY <2>4 DEF Known
    <2>6. uptime' \in [IdentityKeys -> UptimeOver(SignedBlocksWindowLen)]
      BY <2>2, <2>4 DEF TrackUptime, TypeOK
    <2>7. state' \in [IdentityKeys -> ValidatorStates] BY <2>4 DEF TrackUptime, TypeOK, ValidatorStates
    <2>8. current_rate' \in [IdentityKeys -> RateData] /\ next_rate' \in [IdentityKeys -> RateData]
      BY <2>3, <2>4 DEF TrackUptime, TypeOK
    <2>9. tm_updates' \in [ConsensusKeys -> Nat \union {NoUpdate}] BY <2>4 DEF TrackUptime, TypeOK
    <2> QED BY <2>1, <2>4, <2>5, <2>6, <2>7, <2>8, <2>9 DEF TypeOK, base_rates, queue, supplies
  <1> QED BY <1>1, <1>2

\* What a transaction queues is well formed.
LEMMA QueuedType ==
  ASSUME TypeOK, NEW tx \in Txs
  PROVE  Queued(tx) \in [IdentityKeys -> [delegated : Nat, undelegated : Nat]]
  <1>1. /\ tx.delegate # NoAction => tx.delegate.delegation_amount \in Nat
        /\ tx.undelegate # NoAction => tx.undelegate.delegation_amount \in Nat
    BY TxType DEF Delegations, Undelegations
  <1> QED BY <1>1 DEF Queued, TypeOK

\* execute_tx: queued changes, definitions and new validators are well formed.
LEMMA DeliverTxType ==
  ASSUME TypeOK, NEW tx \in Txs, DeliverTx(tx) PROVE TypeOK'
  <1>1. validator_list' = ListAfter(tx) BY DEF DeliverTx
  <1>2. validator_list' \in Seq(IdentityKeys)
        /\ Known' = Known \union {v \in IdentityKeys : Defined(tx, v) # {}}
    BY <1>1, ListAfterType
  <1>3. \A v \in IdentityKeys : Defined(tx, v) # {} => Latest(tx, v) \in Definitions BY LatestType
  <1>4. definition' \in [IdentityKeys -> Definitions \union {NoDefinition}]
    BY <1>3 DEF DeliverTx, TypeOK
  <1>5. \A v \in Known' : definition'[v] \in Definitions
    <2> TAKE v \in Known'
    <2>1. v \in IdentityKeys BY <1>2, KnownType
    <2>2. definition'[v] = IF Defined(tx, v) # {} THEN Latest(tx, v) ELSE definition[v]
      BY <2>1 DEF DeliverTx
    <2>3. CASE Defined(tx, v) # {} BY <1>3, <2>1, <2>2, <2>3
    <2>4. CASE Defined(tx, v) = {} BY <1>2, <2>2, <2>4 DEF TypeOK
    <2> QED BY <2>3, <2>4
  <1>6. pending' \in [IdentityKeys -> [delegated : Nat, undelegated : Nat]]
    BY QueuedType DEF DeliverTx
  <1>7. state' \in [IdentityKeys -> ValidatorStates] /\ power' \in [IdentityKeys -> Nat]
    BY DEF DeliverTx, TypeOK, ValidatorStates
  <1>8. EpochOf(height) \in Nat /\ EpochOf(height) + 1 \in Nat
    <2>1. height \in Nat BY DEF TypeOK
    <2>2. EpochOf(height) \in Nat BY <2>1, EpochStep
    <2> QED BY <2>2
  <1>9. current_rate' \in [IdentityKeys -> RateData] /\ next_rate' \in [IdentityKeys -> RateData]
    BY <1>8, InitialRateType DEF DeliverTx, TypeOK
  <1>10. /\ phase' = "block" /\ height' \in Nat /\ block_txs' \in Nat
         /\ UNCHANGED <<uptime, base_rates, changes, supplies, tm_updates, tm>>
    BY DEF DeliverTx, TypeOK
  <1>11. rekeyed' \subseteq ConsensusKeys BY DEF DeliverTx, Rekeyed, TypeOK
  <1> QED BY <1>2, <1>4, <1>5, <1>6, <1>7, <1>9, <1>10, <1>11
          DEF TypeOK, base_rates, supplies

\* The block's changes are recorded under its height.
LEMMA ChangesAfterType ==
  ASSUME TypeOK
  PROVE  /\ DOMAIN ChangesAfter \subseteq Nat
         /\ \A h \in DOMAIN ChangesAfter :
              ChangesAfter[h] \in [IdentityKeys -> [delegated : Nat, undelegated : Nat]]
  BY DEF TypeOK, ChangesAfter

\* An empty queue is a queue.
LEMMA NoChangesType == NoChanges \in [IdentityKeys -> [delegated : Nat, undelegated : Nat]]
  BY DEF NoChanges, NoChange

\* end_block inside an epoch.
LEMMA EndOrdinaryBlockType == TypeOK /\ EndOrdinaryBlock => TypeOK'
  <1> SUFFICES ASSUME TypeOK, EndOrdinaryBlock PROVE TypeOK' OBVIOUS
  <1>1. Known' = Known BY DEF EndOrdinaryBlock, Known, validators
  <1>2. changes' = ChangesAfter BY DEF EndOrdinaryBlock
  <1>3. tm' \in [ConsensusKeys -> Nat] BY AppliedType DEF EndOrdinaryBlock, TypeOK
  <1>4. pending' = NoChanges /\ phase' = "ended" BY DEF EndOrdinaryBlock
  <1>5. UNCHANGED <<height, block_txs, validators, base_rates, supplies, tm_updates, rekeyed>>
    BY DEF EndOrdinaryBlock
  <1>6. /\ DOMAIN changes' \subseteq Nat
        /\ \A h \in DOMAIN changes' : changes'[h] \in [IdentityKeys -> [delegated : Nat, undelegated : Nat]]
    BY <1>2, ChangesAfterType
  <1> QED BY <1>1, <1>3, <1>4, <1>5, <1>6, NoChangesType DEF TypeOK, validators, base_rates, supplies

\* What end_epoch computes for the validators of the list, once its checks
\* have succeeded.
LEMMA EndEpochValues ==
  ASSUME TypeOK, NEW delta, NEW tokens, NEW pow, NEW top,
         pow = PowerAfter(tokens), top = TopValidators(pow),
         EndEpochSucceeds(delta, tokens, pow, top)
  PROVE  /\ BaseRateAfter \in BaseRateData
         /\ top \subseteq Known
         /\ \A v \in Known : /\ RateAfter(v) \in RateData
                             /\ tokens[v] \in Nat
                             /\ pow[v] \in Nat
                             /\ StateAfter(v, top) \in ValidatorStates
         /\ StakeSupplyAfter(delta)[Len(validator_list)] + TotalCommission(tokens) \in Nat
         /\ EpochUpdates(pow, top) \in [ConsensusKeys -> Nat \union {NoUpdate}]
  <1>1. BaseRateAfter \in BaseRateData
    BY StakingAssumption, BaseRateNextType DEF BaseRateAfter, TypeOK
  <1>2. top \subseteq Known BY DEF TopValidators
  <1>3. \A v \in Known : RateAfter(v) \in RateData
    <2> TAKE v \in Known
    <2>1. v \in IdentityKeys BY KnownType
    <2>2. next_rate[v] \in RateData BY <2>1 DEF TypeOK
    <2>3. definition[v].rate_bps \in Nat BY DEF TypeOK, Definitions
    <2> QED BY <1>1, <2>2, <2>3, ActiveRateNextType, ConstantRateType DEF RateAfter
  <1>4. \A v \in Known : tokens[v] \in Nat BY ScaleType DEF EndEpochSucceeds
  <1>5. \A v \in Known : pow[v] \in Nat
    <2> TAKE v \in Known
    <2>1. v \in IdentityKeys BY KnownType
    <2>2. next_rate[v] \in RateData /\ next_base_rate \in BaseRateData BY <2>1 DEF TypeOK
    <2>3. next_base_rate.base_exchange_rate # 0 BY DEF EndEpochSucceeds
    <2>4. pow[v] = VotingPower(next_rate[v], tokens[v], next_base_rate) BY <2>1 DEF PowerAfter
    <2> QED BY <1>4, <2>2, <2>3, <2>4, VotingPowerType
  <1>6. \A v \in Known : StateAfter(v, top) \in ValidatorStates
    <2> TAKE v \in Known
    <2>1. state[v] \in ValidatorStates BY KnownType DEF TypeOK
    <2>2. EpochOf(height) \in Nat BY EpochStep, TypeHeight
    <2>3. Unbonding(EpochOf(height) + UnbondingEpochs) \in ValidatorStates
      BY <2>2, StakingAssumption DEF Unbonding, ValidatorStates
    <2>4. Active \in ValidatorStates /\ Inactive \in ValidatorStates BY DEF ValidatorStates
    <2> QED BY <2>1, <2>3, <2>4 DEF StateAfter
  <1>7. StakeSupplyAfter(delta)[Len(validator_list)] + TotalCommission(tokens) \in Nat
    BY ScaleType DEF EndEpochSucceeds
  <1>8. EpochUpdates(pow, top) \in [ConsensusKeys -> Nat \union {NoUpdate}]
    <2> SUFFICES ASSUME NEW ck \in ConsensusKeys
                 PROVE  (IF Reporting(ck, top) = {} THEN tm_updates[ck]
                         ELSE IF LastReporting(ck, pow, top) \in top
                              THEN pow[LastReporting(ck, pow, top)] ELSE 0) \in Nat \union {NoUpdate}
      BY DEF EpochUpdates
    <2>1. tm_updates[ck] \in Nat \union {NoUpdate} BY DEF TypeOK
    <2> QED BY <1>2, <1>5, <2>1
  <1> QED BY <1>1, <1>2, <1>3, <1>4, <1>5, <1>6, <1>7, <1>8

\* end_block at the end of an epoch.
LEMMA EndEpochBlockType == TypeOK /\ EndEpochBlock => TypeOK'
  <1> SUFFICES ASSUME TypeOK, EndEpochBlock PROVE TypeOK' OBVIOUS
  <1> DEFINE delta == DelegationDelta
             tokens == SupplyAfter(delta)
             pow == PowerAfter(tokens)
             top == TopValidators(pow)
  <1>1. CASE Halt BY <1>1, HaltType
  <1>2. CASE ~Halt
    <2>1. /\ EndEpochSucceeds(delta, tokens, pow, top)
          /\ EndEpoch(delta, tokens, pow, top)
          /\ phase' = "ended"
          /\ changes' = ChangesAfter
          /\ pending' = NoChanges
          /\ UNCHANGED <<height, block_txs, validator_list, definition, circulating_delegation, rekeyed>>
      BY <1>2 DEF EndEpochBlock
    <2>2. pow = PowerAfter(tokens) /\ top = TopValidators(pow) OBVIOUS
    <2> HIDE DEF delta, tokens, pow, top
    <2>3. /\ BaseRateAfter \in BaseRateData
          /\ top \subseteq Known
          /\ \A v \in Known : /\ RateAfter(v) \in RateData
                              /\ tokens[v] \in Nat
                              /\ pow[v] \in Nat
                              /\ StateAfter(v, top) \in ValidatorStates
          /\ StakeSupplyAfter(delta)[Len(validator_list)] + TotalCommission(tokens) \in Nat
          /\ EpochUpdates(pow, top) \in [ConsensusKeys -> Nat \union {NoUpdate}]
      BY <2>1, <2>2, EndEpochValues
    <2>4. Known' = Known BY <2>1 DEF Known
    <2>5. current_base_rate' \in BaseRateData /\ next_base_rate' \in BaseRateData
      BY <2>1, <2>3 DEF EndEpoch, TypeOK
    <2>6. current_rate' \in [IdentityKeys -> RateData] /\ next_rate' \in [IdentityKeys -> RateData]
      BY <2>1, <2>3 DEF EndEpoch, TypeOK
    <2>7. supply' \in [IdentityKeys -> Nat] /\ power' \in [IdentityKeys -> Nat]
      BY <2>1, <2>3 DEF EndEpoch, TypeOK
    <2>8. state' \in [IdentityKeys -> ValidatorStates] BY <2>1, <2>3 DEF EndEpoch, TypeOK
    <2>9. uptime' \in [IdentityKeys -> UptimeOver(SignedBlocksWindowLen)]
      BY <2>1, TypeHeight, UptimeType DEF EndEpoch, UptimeAfter, TypeOK
    <2>10. stake_supply' \in Nat BY <2>1, <2>3 DEF EndEpoch
    <2>11. tm_updates' \in [ConsensusKeys -> Nat \union {NoUpdate}] BY <2>1, <2>3 DEF EndEpoch
    <2>12. tm' \in [ConsensusKeys -> Nat] BY <2>1, <2>3, AppliedType DEF EndEpoch
    <2>13. /\ DOMAIN changes' \subseteq Nat
           /\ \A h \in DOMAIN changes' :
                changes'[h] \in [IdentityKeys -> [delegated : Nat, undelegated : Nat]]
      BY <2>1, ChangesAfterType
    <2> QED BY <2>1, <2>4, <2>5, <2>6, <2>7, <2>8, <2>9, <2>10, <2>11, <2>12, <2>13, NoChangesType
            DEF TypeOK
  <1> QED BY <1>1, <1>2

\* commit drops what is in memory.
LEMMA CommitType == TypeOK /\ Commit => TypeOK'
  <1> SUFFICES ASSUME TypeOK, Commit PROVE TypeOK' OBVIOUS
  <1>1. /\ phase' = "committed" /\ height' \in Nat /\ block_txs' = 0
        /\ UNCHANGED <<validators, base_rates, changes, supplies>>
        /\ pending' = NoChanges /\ tm_updates' = NoUpdates /\ tm' \in [ConsensusKeys -> Nat]
        /\ rekeyed' = rekeyed
    BY DEF Commit, TypeOK
  <1>2. NoUpdates \in [ConsensusKeys -> Nat \union {NoUpdate}] BY DEF NoUpdates
  <1> QED BY <1>1, <1>2, NoChangesType, UnchangedType

\* Nothing changes.
LEMMA StutterType == TypeOK /\ UNCHANGED vars => TypeOK'
  <1> SUFFICES ASSUME TypeOK, UNCHANGED vars PROVE TypeOK' OBVIOUS
  <1>1. /\ UNCHANGED <<phase, height, block_txs, validators, base_rates, changes, pending, supplies, tm_updates, tm, rekeyed>>
    BY DEF vars, chain, queue, tendermint
  <1> QED BY <1>1, UnchangedType DEF TypeOK

\* Every step keeps the type invariant: one case per ABCI handler.
LEMMA NextType == TypeOK /\ [Next]_vars => TypeOK'
  <1> SUFFICES ASSUME TypeOK, [Next]_vars PROVE TypeOK' OBVIOUS
  <1>1. ASSUME NEW signers \in SUBSET {ck \in ConsensusKeys : tm[ck] > 0}, BeginBlock(signers)
        PROVE  TypeOK'
    BY <1>1, BeginBlockType
  <1>2. CASE Fails BY <1>2, FailsHalts, HaltType
  <1>3. ASSUME NEW tx \in Txs, DeliverTx(tx) PROVE TypeOK' BY <1>3, DeliverTxType
  <1>4. CASE EndOrdinaryBlock BY <1>4, EndOrdinaryBlockType
  <1>5. CASE EndEpochBlock BY <1>5, EndEpochBlockType
  <1>6. CASE Commit BY <1>6, CommitType
  <1>7. CASE UNCHANGED vars BY <1>7, StutterType
  <1> QED BY <1>1, <1>2, <1>3, <1>4, <1>5, <1>6, <1>7 DEF Next, Fails

\* The component's records keep their shape: whatever validators, transactions
\* and parameters, what end_epoch writes is well formed, because its checks
\* reject a block that would take a supply or a power out of range.
THEOREM TypeCorrect == Spec => []TypeOK
  <1>1. Init => TypeOK BY InitType
  <1>2. TypeOK /\ [Next]_vars => TypeOK' BY NextType
  <1> QED BY <1>1, <1>2, PTL DEF Spec

-----------------------------------------------------------------------------
(* Rates stay in step with the height                                      *)

\* end_epoch moves every rate on by one epoch.
LEMMA RateAfterEpoch ==
  ASSUME TypeOK, NEW v \in Known
  PROVE  /\ RateAfter(v).epoch_index = next_rate[v].epoch_index + 1
         /\ state[v] # Active => RateAfter(v).validator_exchange_rate = next_rate[v].validator_exchange_rate
  <1>1. v \in IdentityKeys BY KnownType
  <1>2. next_rate[v] \in RateData BY <1>1 DEF TypeOK
  <1> QED BY <1>2 DEF RateAfter, ActiveRateNext, ConstantRate, RateData

\* Genesis rates are those of the epochs 0 and 1.
LEMMA RatesInit == EpochDuration > 1 /\ Init => RatesInSync
  <1> SUFFICES ASSUME EpochDuration > 1, Init PROVE RatesInSync OBVIOUS
  <1>1. EpochDuration \in Nat BY StakingAssumption
  <1>2. EpochOf(1) = 0 BY <1>1, DivUnique DEF EpochOf
  <1>3. RateEpoch = 0 BY <1>2 DEF RateEpoch, Init
  <1>4. Known \subseteq IdentityKeys BY InitType, KnownType
  <1> QED BY <1>3, <1>4 DEF RatesInSync, Init, InitialRate, InitialBaseRate

\* Slashing in begin_block keeps the epochs of the rates.
LEMMA RatesBeginBlock ==
  ASSUME TypeOK, RatesInSync, NEW signers, BeginBlock(signers) PROVE RatesInSync'
  <1> DEFINE down == Down(signers)
  <1>1. CASE Halt BY <1>1 DEF Halt, RatesInSync
  <1>2. CASE ~Halt
    <2>1. /\ TrackUptime(signers, down)
          /\ phase = "committed" /\ phase' = "block" /\ height' = height + 1
          /\ UNCHANGED <<validator_list, current_base_rate, next_base_rate>>
      BY <1>2 DEF BeginBlock, base_rates
    <2>2. Known' = Known BY <2>1 DEF Known
    <2>3. RateEpoch' = RateEpoch BY <2>1 DEF RateEpoch, EpochOf
    <2> HIDE DEF down
    <2>4. ASSUME NEW v \in Known
          PROVE  /\ current_rate'[v].epoch_index = RateEpoch
                 /\ next_rate'[v].epoch_index = RateEpoch + 1
      <3>1. v \in IdentityKeys BY KnownType
      <3>2. current_rate[v].epoch_index = RateEpoch /\ next_rate[v].epoch_index = RateEpoch + 1
        BY <2>1 DEF RatesInSync
      <3>3. /\ Penalised(v).epoch_index = RateEpoch
            /\ ConstantRate(Penalised(v)).epoch_index = RateEpoch + 1
        BY <3>1, <3>2, PenalisedType
      <3> QED BY <2>1, <3>1, <3>2, <3>3 DEF TrackUptime
    <2> QED BY <2>1, <2>2, <2>3, <2>4 DEF RatesInSync
  <1> QED BY <1>1, <1>2

\* A new validator starts with the rates of the block's epoch.
LEMMA RatesDeliverTx ==
  ASSUME TypeOK, RatesInSync, NEW tx \in Txs, DeliverTx(tx) PROVE RatesInSync'
  <1>1. validator_list' = ListAfter(tx) BY DEF DeliverTx
  <1>2. Known' = Known \union {v \in IdentityKeys : Defined(tx, v) # {}} BY <1>1, ListAfterType
  <1>3. RateEpoch = EpochOf(height) /\ RateEpoch' = RateEpoch BY DEF DeliverTx, RateEpoch, EpochOf
  <1>4. UNCHANGED <<current_base_rate, next_base_rate>> /\ phase = "block" BY DEF DeliverTx, base_rates
  <1>5. ASSUME NEW v \in Known'
        PROVE  /\ current_rate'[v].epoch_index = RateEpoch
               /\ next_rate'[v].epoch_index = RateEpoch + 1
    <2>1. v \in IdentityKeys BY <1>2, KnownType
    <2>2. CASE IsNew(tx, v) BY <1>3, <2>1, <2>2 DEF DeliverTx, InitialRate
    <2>3. CASE ~IsNew(tx, v)
      <3>1. v \in Known BY <1>2, <2>3 DEF IsNew
      <3> QED BY <1>4, <2>1, <2>3, <3>1 DEF DeliverTx, RatesInSync
    <2> QED BY <2>2, <2>3
  <1> QED BY <1>3, <1>4, <1>5 DEF RatesInSync

\* end_epoch moves all the rates on together.
LEMMA RatesEndEpochBlock ==
  ASSUME TypeOK, RatesInSync, EndEpochBlock PROVE RatesInSync'
  <1> DEFINE delta == DelegationDelta
             tokens == SupplyAfter(delta)
             pow == PowerAfter(tokens)
             top == TopValidators(pow)
  <1>1. CASE Halt BY <1>1 DEF Halt, RatesInSync
  <1>2. CASE ~Halt
    <2>1. /\ EndEpoch(delta, tokens, pow, top)
          /\ phase = "block" /\ phase' = "ended" /\ IsEpochEnd(height)
          /\ UNCHANGED <<height, validator_list>>
      BY <1>2 DEF EndEpochBlock
    <2> HIDE DEF delta, tokens, pow, top
    <2>2. Known' = Known BY <2>1 DEF Known
    <2>3. RateEpoch = EpochOf(height) /\ RateEpoch' = EpochOf(height + 1) BY <2>1 DEF RateEpoch, EpochOf
    <2>4. RateEpoch' = RateEpoch + 1 /\ RateEpoch \in Nat BY <2>1, <2>3, TypeHeight, EpochStep
    <2>5. current_base_rate'.epoch_index = RateEpoch + 1 /\ next_base_rate'.epoch_index = RateEpoch + 1 + 1
      BY <2>1 DEF EndEpoch, RatesInSync, BaseRateAfter, BaseRateNext
    <2>6. ASSUME NEW v \in Known
          PROVE  /\ current_rate'[v].epoch_index = RateEpoch + 1
                 /\ next_rate'[v].epoch_index = RateEpoch + 1 + 1
      <3>1. v \in IdentityKeys BY KnownType
      <3>2. next_rate[v].epoch_index = RateEpoch + 1 BY <2>1 DEF RatesInSync
      <3>3. current_rate'[v] = next_rate[v] /\ next_rate'[v] = RateAfter(v) BY <2>1, <3>1 DEF EndEpoch
      <3> QED BY <3>2, <3>3, RateAfterEpoch
    <2> QED BY <2>1, <2>2, <2>4, <2>5, <2>6 DEF RatesInSync
  <1> QED BY <1>1, <1>2

\* A step that leaves rates, list and rate epoch alone.
LEMMA RatesUnchanged ==
  ASSUME RatesInSync, phase # "halted", RateEpoch' = RateEpoch,
         UNCHANGED <<validator_list, current_rate, next_rate, current_base_rate, next_base_rate>>
  PROVE  RatesInSync'
  <1>1. Known' = Known BY DEF Known
  <1> QED BY <1>1 DEF RatesInSync

\* Every step keeps the rates in step.
LEMMA RatesNext == TypeOK /\ RatesInSync /\ [Next]_vars => RatesInSync'
  <1> SUFFICES ASSUME TypeOK, RatesInSync, [Next]_vars PROVE RatesInSync' OBVIOUS
  <1>1. ASSUME NEW signers, BeginBlock(signers) PROVE RatesInSync' BY <1>1, RatesBeginBlock
  <1>2. CASE Fails BY <1>2, FailsHalts DEF Halt, RatesInSync
  <1>3. ASSUME NEW tx \in Txs, DeliverTx(tx) PROVE RatesInSync' BY <1>3, RatesDeliverTx
  <1>4. CASE EndOrdinaryBlock
    <2>1. /\ phase = "block" /\ phase' = "ended" /\ ~IsEpochEnd(height) /\ height' = height
          /\ UNCHANGED <<validator_list, current_rate, next_rate, current_base_rate, next_base_rate>>
      BY <1>4 DEF EndOrdinaryBlock, validators, base_rates
    <2>2. RateEpoch = EpochOf(height) /\ RateEpoch' = EpochOf(height + 1) BY <2>1 DEF RateEpoch, EpochOf
    <2>3. RateEpoch' = RateEpoch BY <2>1, <2>2, TypeHeight, EpochStep
    <2> QED BY <2>1, <2>3, RatesUnchanged
  <1>5. CASE EndEpochBlock BY <1>5, RatesEndEpochBlock
  <1>6. CASE Commit
    <2>1. /\ phase = "ended" /\ phase' = "committed" /\ height' = height
          /\ UNCHANGED <<validator_list, current_rate, next_rate, current_base_rate, next_base_rate>>
      BY <1>6 DEF Commit, validators, base_rates
    <2>2. RateEpoch' = RateEpoch BY <2>1 DEF RateEpoch, EpochOf
    <2> QED BY <2>1, <2>2, RatesUnchanged
  <1>7. CASE UNCHANGED vars
    <2>1. UNCHANGED <<phase, height, validator_list, current_rate, next_rate, current_base_rate, next_base_rate>>
      BY <1>7 DEF vars, chain, validators, base_rates
    <2>2. RateEpoch' = RateEpoch BY <2>1 DEF RateEpoch, EpochOf
    <2>3. CASE phase = "halted" BY <2>1, <2>3 DEF RatesInSync
    <2>4. CASE phase # "halted" BY <2>1, <2>2, <2>4, RatesUnchanged
    <2> QED BY <2>3, <2>4
  <1> QED BY <1>1, <1>2, <1>3, <1>4, <1>5, <1>6, <1>7 DEF Next, Fails

\* Rates are those of their epoch in every state of a chain whose epochs have
\* more than one block, for validators added in any block, slashed or
\* displaced at any time.  (With one block to an epoch the rates of genesis are
\* an epoch behind the first block.)
THEOREM RatesStayInSync == ASSUME EpochDuration > 1 PROVE Spec => []RatesInSync
  <1>1. Init => TypeOK /\ RatesInSync BY InitType, RatesInit
  <1>2. TypeOK /\ RatesInSync /\ [Next]_vars => TypeOK' /\ RatesInSync' BY NextType, RatesNext
  <1> QED BY <1>1, <1>2, PTL DEF Spec

\* The assertion of end_epoch, next_rate.epoch_index == epoch_to_end.index + 2,
\* holds for every validator whenever end_epoch runs.
RateAssertionHolds ==
  phase = "block" => \A v \in Known : RateAfter(v).epoch_index = EpochOf(height) + 2

\* end_epoch's assertion cannot fail.
THEOREM RateAssertion == ASSUME EpochDuration > 1 PROVE Spec => []RateAssertionHolds
  <1>1. TypeOK /\ RatesInSync => RateAssertionHolds
    <2> SUFFICES ASSUME TypeOK, RatesInSync, phase = "block", NEW v \in Known
                 PROVE  RateAfter(v).epoch_index = EpochOf(height) + 2
      BY DEF RateAssertionHolds
    <2>1. EpochOf(height) \in Nat BY TypeHeight, EpochStep
    <2>2. next_rate[v].epoch_index = EpochOf(height) + 1 BY DEF RatesInSync, RateEpoch
    <2> QED BY <2>1, <2>2, RateAfterEpoch
  <1>2. Spec => []TypeOK BY TypeCorrect
  <1>3. Spec => []RatesInSync BY RatesStayInSync
  <1> QED BY <1>1, <1>2, <1>3, PTL

-----------------------------------------------------------------------------
(* Uptime trackers stay in step with the height                            *)

\* begin_block marks every tracker of a validator that stays Active.
LEMMA UptimeBeginBlock ==
  ASSUME TypeOK, UptimeInSync, NEW signers, BeginBlock(signers) PROVE UptimeInSync'
  <1> DEFINE down == Down(signers)
  <1>1. CASE Halt BY <1>1 DEF Halt, UptimeInSync
  <1>2. CASE ~Halt
    <2>1. /\ TrackUptime(signers, down)
          /\ height' = height + 1
          /\ UNCHANGED validator_list
      BY <1>2 DEF BeginBlock
    <2>2. down \subseteq ActiveSet BY DEF Down
    <2> HIDE DEF down
    <2>3. Known' = Known BY <2>1 DEF Known
    <2>4. ActiveSet' = ActiveSet \ down
      BY <2>1, <2>2, <2>3, KnownType DEF ActiveSet, TrackUptime, Active, Slashed
    <2>5. ASSUME NEW v \in ActiveSet' PROVE uptime'[v].as_of_block_height = height'
      <3>1. v \in IdentityKeys BY <2>4, KnownType DEF ActiveSet
      <3>2. uptime'[v] = Marked(v, signers) BY <2>1, <2>4, <3>1 DEF TrackUptime
      <3> QED BY <2>1, <3>2 DEF Marked, MarkHeightAsSigned
    <2> QED BY <2>5 DEF UptimeInSync
  <1> QED BY <1>1, <1>2

\* No transaction makes a validator Active.
LEMMA UptimeDeliverTx ==
  ASSUME TypeOK, UptimeInSync, NEW tx \in Txs, DeliverTx(tx) PROVE UptimeInSync'
  <1>1. validator_list' = ListAfter(tx) BY DEF DeliverTx
  <1>2. Known' = Known \union {v \in IdentityKeys : Defined(tx, v) # {}} BY <1>1, ListAfterType
  <1>3. phase = "block" /\ UNCHANGED <<height, uptime>> BY DEF DeliverTx
  <1>4. ActiveSet' \subseteq ActiveSet
    <2> SUFFICES ASSUME NEW v \in Known', state'[v] = Active PROVE v \in ActiveSet BY DEF ActiveSet
    <2>1. v \in IdentityKeys BY <1>2, KnownType
    <2>2. state'[v] = IF IsNew(tx, v) THEN Inactive ELSE state[v] BY <2>1 DEF DeliverTx
    <2>3. ~IsNew(tx, v) /\ state[v] = Active BY <2>2 DEF Active, Inactive
    <2>4. v \in Known BY <1>2, <2>3 DEF IsNew
    <2> QED BY <2>3, <2>4 DEF ActiveSet
  <1> QED BY <1>3, <1>4 DEF UptimeInSync

\* A validator that becomes Active gets a tracker as of this block.
LEMMA UptimeEndEpochBlock ==
  ASSUME TypeOK, UptimeInSync, EndEpochBlock PROVE UptimeInSync'
  <1> DEFINE delta == DelegationDelta
             tokens == SupplyAfter(delta)
             pow == PowerAfter(tokens)
             top == TopValidators(pow)
  <1>1. CASE Halt BY <1>1 DEF Halt, UptimeInSync
  <1>2. CASE ~Halt
    <2>1. /\ EndEpoch(delta, tokens, pow, top)
          /\ phase = "block"
          /\ UNCHANGED <<height, validator_list>>
      BY <1>2 DEF EndEpochBlock
    <2> HIDE DEF delta, tokens, pow, top
    <2>2. Known' = Known BY <2>1 DEF Known
    <2>3. ASSUME NEW v \in ActiveSet' PROVE uptime'[v].as_of_block_height = height'
      <3>1. v \in Known /\ v \in IdentityKeys BY <2>2, KnownType DEF ActiveSet
      <3>2. StateAfter(v, top) = Active BY <2>1, <3>1 DEF ActiveSet, EndEpoch
      <3>3. CASE v \in Promoted(top) BY <2>1, <3>1, <3>3 DEF EndEpoch, UptimeAfter, NewUptime
      <3>4. CASE v \notin Promoted(top)
        <4>1. state[v] = Active BY <3>2, <3>4 DEF StateAfter, Unbonding, Active, Inactive
        <4>2. uptime'[v] = uptime[v] BY <2>1, <3>1, <3>4 DEF EndEpoch, UptimeAfter
        <4> QED BY <2>1, <3>1, <4>1, <4>2 DEF UptimeInSync, ActiveSet
      <3> QED BY <3>3, <3>4
    <2> QED BY <2>3 DEF UptimeInSync
  <1> QED BY <1>1, <1>2

\* Every step keeps the trackers in step.
LEMMA UptimeNext == TypeOK /\ UptimeInSync /\ [Next]_vars => UptimeInSync'
  <1> SUFFICES ASSUME TypeOK, UptimeInSync, [Next]_vars PROVE UptimeInSync' OBVIOUS
  <1>1. ASSUME NEW signers, BeginBlock(signers) PROVE UptimeInSync' BY <1>1, UptimeBeginBlock
  <1>2. CASE Fails BY <1>2, FailsHalts DEF Halt, UptimeInSync
  <1>3. ASSUME NEW tx \in Txs, DeliverTx(tx) PROVE UptimeInSync' BY <1>3, UptimeDeliverTx
  <1>4. ASSUME phase # "halted", UNCHANGED <<height, validators>> PROVE UptimeInSync'
    BY <1>4 DEF UptimeInSync, ActiveSet, Known, validators
  <1>5. CASE EndOrdinaryBlock BY <1>4, <1>5 DEF EndOrdinaryBlock
  <1>6. CASE EndEpochBlock BY <1>6, UptimeEndEpochBlock
  <1>7. CASE Commit BY <1>4, <1>7 DEF Commit
  <1>8. CASE UNCHANGED vars
    <2>1. UNCHANGED <<phase, height, validators>> BY <1>8 DEF vars, chain
    <2>2. CASE phase = "halted" BY <2>1, <2>2 DEF UptimeInSync
    <2> QED BY <1>4, <2>1, <2>2
  <1> QED BY <1>1, <1>2, <1>3, <1>5, <1>6, <1>7, <1>8 DEF Next, Fails

\* The tracker of every Active validator is as of the current block, so that
\* begin_block's mark_height_as_signed(..).unwrap() cannot fail.
THEOREM UptimeStaysInSync == Spec => []UptimeInSync
  <1>1. Init => TypeOK /\ UptimeInSync
    <2>1. Init => TypeOK BY InitType
    <2> QED BY <2>1, KnownType DEF Init, UptimeInSync, ActiveSet, NewUptime
  <1>2. TypeOK /\ UptimeInSync /\ [Next]_vars => TypeOK' /\ UptimeInSync' BY NextType, UptimeNext
  <1> QED BY <1>1, <1>2, PTL DEF Spec

-----------------------------------------------------------------------------
(* Slashing is final                                                       *)

\* The strengthening: a slashed pool's next rate is its current one.
SlashedRateHeld ==
  \A v \in Known : state[v] = Slashed =>
    next_rate[v].validator_exchange_rate = current_rate[v].validator_exchange_rate

\* begin_block slashes Active validators only.
LEMMA SlashedBeginBlock ==
  ASSUME TypeOK, SlashedRateHeld, NEW signers, BeginBlock(signers) PROVE SlashedRateHeld' /\ SlashedKept
  <1> DEFINE down == Down(signers)
  <1>1. CASE Halt BY <1>1 DEF Halt, SlashedRateHeld, SlashedKept, validators, Known
  <1>2. CASE ~Halt
    <2>1. TrackUptime(signers, down) /\ UNCHANGED validator_list BY <1>2 DEF BeginBlock
    <2>2. down \subseteq ActiveSet BY DEF Down
    <2> HIDE DEF down
    <2>3. Known' = Known BY <2>1 DEF Known
    <2>4. ASSUME NEW v \in Known
          PROVE  /\ v \in IdentityKeys
                 /\ v \notin down => /\ state'[v] = state[v]
                                     /\ current_rate'[v] = current_rate[v]
                                     /\ next_rate'[v] = next_rate[v]
                 /\ v \in down => /\ state[v] # Slashed
                                  /\ next_rate'[v].validator_exchange_rate =
                                       current_rate'[v].validator_exchange_rate
      <3>1. v \in IdentityKeys BY KnownType
      <3>2. CASE v \in down
        <4>1. state[v] # Slashed BY <2>2, <3>2 DEF ActiveSet, Active, Slashed
        <4>2. current_rate'[v] = Penalised(v) /\ next_rate'[v] = ConstantRate(Penalised(v))
          BY <2>1, <3>1, <3>2 DEF TrackUptime
        <4> QED BY <3>1, <3>2, <4>1, <4>2, PenalisedType
      <3>3. CASE v \notin down BY <2>1, <3>1, <3>3 DEF TrackUptime
      <3> QED BY <3>2, <3>3, <3>1
    <2> QED BY <2>3, <2>4 DEF SlashedRateHeld, SlashedKept
  <1> QED BY <1>1, <1>2

\* No transaction touches a slashed validator: it is known already.
LEMMA SlashedDeliverTx ==
  ASSUME TypeOK, SlashedRateHeld, NEW tx \in Txs, DeliverTx(tx) PROVE SlashedRateHeld' /\ SlashedKept
  <1>1. validator_list' = ListAfter(tx) BY DEF DeliverTx
  <1>2. Known' = Known \union {v \in IdentityKeys : Defined(tx, v) # {}} BY <1>1, ListAfterType
  <1>3. ASSUME NEW v \in Known
        PROVE  state'[v] = state[v] /\ current_rate'[v] = current_rate[v] /\ next_rate'[v] = next_rate[v]
    BY KnownType DEF DeliverTx, IsNew
  <1>4. ASSUME NEW v \in Known', v \notin Known PROVE state'[v] # Slashed
    <2>1. v \in IdentityKeys /\ IsNew(tx, v) BY <1>2, <1>4 DEF IsNew
    <2> QED BY <2>1 DEF DeliverTx, Inactive, Slashed
  <1> QED BY <1>3, <1>4 DEF SlashedRateHeld, SlashedKept

\* end_epoch neither promotes a slashed validator nor rewards its pool.
LEMMA SlashedEndEpochBlock ==
  ASSUME TypeOK, SlashedRateHeld, EndEpochBlock PROVE SlashedRateHeld' /\ SlashedKept
  <1> DEFINE delta == DelegationDelta
             tokens == SupplyAfter(delta)
             pow == PowerAfter(tokens)
             top == TopValidators(pow)
  <1>1. CASE Halt BY <1>1 DEF Halt, SlashedRateHeld, SlashedKept, validators, Known
  <1>2. CASE ~Halt
    <2>1. EndEpoch(delta, tokens, pow, top) /\ UNCHANGED validator_list BY <1>2 DEF EndEpochBlock
    <2> HIDE DEF delta, tokens, pow, top
    <2>2. Known' = Known BY <2>1 DEF Known
    <2>3. ASSUME NEW v \in Known
          PROVE  /\ state'[v] = StateAfter(v, top)
                 /\ current_rate'[v] = next_rate[v] /\ next_rate'[v] = RateAfter(v)
      BY <2>1, KnownType DEF EndEpoch
    <2>4. ASSUME NEW v \in Known PROVE StateAfter(v, top) = Slashed <=> state[v] = Slashed
      BY DEF StateAfter, Promoted, Displaced, Expired, ActiveSet, IsUnbonding,
             Active, Inactive, Slashed, Unbonding
    <2>5. ASSUME NEW v \in Known, state[v] = Slashed
          PROVE  RateAfter(v).validator_exchange_rate = next_rate[v].validator_exchange_rate
      BY <2>5, RateAfterEpoch DEF Active, Slashed
    <2> QED BY <2>2, <2>3, <2>4, <2>5 DEF SlashedRateHeld, SlashedKept
  <1> QED BY <1>1, <1>2

\* Every step keeps what was slashed.
LEMMA SlashedNext == TypeOK /\ SlashedRateHeld /\ [Next]_vars => SlashedRateHeld' /\ SlashedKept
  <1> SUFFICES ASSUME TypeOK, SlashedRateHeld, [Next]_vars PROVE SlashedRateHeld' /\ SlashedKept OBVIOUS
  <1>1. ASSUME NEW signers, BeginBlock(signers) PROVE SlashedRateHeld' /\ SlashedKept
    BY <1>1, SlashedBeginBlock
  <1>2. ASSUME UNCHANGED validators PROVE SlashedRateHeld' /\ SlashedKept
    BY <1>2 DEF SlashedRateHeld, SlashedKept, validators, Known
  <1>3. CASE Fails BY <1>2, <1>3, FailsHalts DEF Halt
  <1>4. ASSUME NEW tx \in Txs, DeliverTx(tx) PROVE SlashedRateHeld' /\ SlashedKept
    BY <1>4, SlashedDeliverTx
  <1>5. CASE EndOrdinaryBlock BY <1>2, <1>5 DEF EndOrdinaryBlock
  <1>6. CASE EndEpochBlock BY <1>6, SlashedEndEpochBlock
  <1>7. CASE Commit BY <1>2, <1>7 DEF Commit
  <1>8. CASE UNCHANGED vars BY <1>2, <1>8 DEF vars
  <1> QED BY <1>1, <1>3, <1>4, <1>5, <1>6, <1>7, <1>8 DEF Next, Fails

\* A slashed validator stays slashed and its pool keeps the exchange rate the
\* penalty left it, whatever definitions, delegations and epochs follow.
THEOREM SlashingIsFinal == Spec => SlashedIsFinal
  <1>1. Init => TypeOK /\ SlashedRateHeld
    <2>1. Init => TypeOK BY InitType
    <2>2. Init => SlashedRateHeld BY <2>1, KnownType DEF Init, SlashedRateHeld, InitialRate
    <2> QED BY <2>1, <2>2
  <1>2. TypeOK /\ SlashedRateHeld /\ [Next]_vars => (TypeOK /\ SlashedRateHeld)' /\ SlashedKept
    BY NextType, SlashedNext
  <1> QED BY <1>1, <1>2, PTL DEF Spec, SlashedIsFinal

-----------------------------------------------------------------------------
(* The active set is the strongest part of the known validators            *)

\* The validators of the list are finitely many, and each has its own position.
LEMMA KnownFinite ==
  ASSUME TypeOK
  PROVE  /\ IsFiniteSet(Known)
         /\ \A v \in Known : Position(v) \in Nat /\ validator_list[Position(v)] = v
  <1>1. validator_list \in Seq(IdentityKeys) BY DEF TypeOK
  <1> DEFINE D == DOMAIN validator_list
  <1>2. D = 1 .. Len(validator_list) /\ Len(validator_list) \in Nat BY <1>1
  <1>3. IsFiniteSet(D) BY <1>2, FS_Interval
  <1>4. validator_list \in Surjection(D, Known) BY <1>1 DEF Surjection, Known
  <1>5. IsFiniteSet(Known) BY <1>3, <1>4, FS_Surjection
  <1>6. \A v \in Known : Position(v) \in D /\ validator_list[Position(v)] = v BY DEF Known, Position
  <1> QED BY <1>2, <1>5, <1>6

\* The sorted validator_power_list: Before is a strict total order.
LEMMA BeforeOrders ==
  ASSUME TypeOK, NEW pow, \A v \in Known : pow[v] \in Nat
  PROVE  /\ \A v \in Known : ~Before(v, v, pow)
         /\ \A v, w \in Known : v = w \/ Before(v, w, pow) \/ Before(w, v, pow)
         /\ \A u, v, w \in Known : Before(u, v, pow) /\ Before(v, w, pow) => Before(u, w, pow)
  <1>1. \A v \in Known : Position(v) \in Nat /\ validator_list[Position(v)] = v BY KnownFinite
  <1>2. \A v, w \in Known : Position(v) = Position(w) => v = w BY <1>1
  <1> QED BY <1>1, <1>2 DEF Before

\* How many validators come before one in the list.
Rank(v, pow) == Cardinality({w \in Known : Before(w, v, pow)})

\* Different validators have different ranks: the earlier one the smaller.
LEMMA RankOrders ==
  ASSUME TypeOK, NEW pow, \A v \in Known : pow[v] \in Nat,
         NEW v \in Known, NEW w \in Known, Before(v, w, pow)
  PROVE  /\ Rank(v, pow) \in Nat /\ Rank(w, pow) \in Nat
         /\ Rank(v, pow) < Rank(w, pow)
  <1> DEFINE V == {u \in Known : Before(u, v, pow)}
             W == {u \in Known : Before(u, w, pow)}
  <1>1. IsFiniteSet(Known) BY KnownFinite
  <1>2. IsFiniteSet(V) /\ IsFiniteSet(W) BY <1>1, FS_Subset
  <1>3. V \subseteq W /\ v \in W /\ v \notin V BY BeforeOrders
  <1>4. Cardinality(V) \in Nat /\ Cardinality(W) \in Nat BY <1>2, FS_CardinalityType
  <1>5. Rank(v, pow) = Cardinality(V) /\ Rank(w, pow) = Cardinality(W) BY DEF Rank
  <1> HIDE DEF V, W
  <1>6. Cardinality(V) <= Cardinality(W) /\ Cardinality(V) # Cardinality(W) BY <1>2, <1>3, FS_Subset
  <1> QED BY <1>4, <1>5, <1>6

\* The top of the list holds no more validators than the limit, and nobody
\* outside it has more power than somebody in it.
LEMMA TopIsStrongest ==
  ASSUME TypeOK, NEW pow, \A v \in Known : pow[v] \in Nat
  PROVE  /\ IsFiniteSet(TopValidators(pow))
         /\ Cardinality(TopValidators(pow)) <= ActiveValidatorLimit
         /\ \A v \in TopValidators(pow), w \in Known : w \notin TopValidators(pow) => pow[w] <= pow[v]
  <1> DEFINE top == TopValidators(pow)
             L == 0 .. (ActiveValidatorLimit - 1)
             rank == [v \in top |-> Rank(v, pow)]
  <1>1. top \subseteq Known /\ \A v \in top : Rank(v, pow) < ActiveValidatorLimit
    BY DEF TopValidators, Rank
  <1>2. ActiveValidatorLimit \in Nat BY StakingAssumption
  <1>3. IsFiniteSet(Known) BY KnownFinite
  <1>4. \A v \in Known : Rank(v, pow) \in Nat
    <2> TAKE v \in Known
    <2> DEFINE V == {u \in Known : Before(u, v, pow)}
    <2>1. IsFiniteSet(V) BY <1>3, FS_Subset
    <2>2. Cardinality(V) \in Nat BY <2>1, FS_CardinalityType
    <2> QED BY <2>2 DEF Rank
  <1> HIDE DEF top
  <1>5. rank \in Injection(top, L)
    <2>1. rank \in [top -> L] BY <1>1, <1>2, <1>4
    <2>2. ASSUME NEW v \in top, NEW w \in top, Rank(v, pow) = Rank(w, pow) PROVE v = w
      <3>1. v \in Known /\ w \in Known BY <1>1
      <3>2. ~Before(v, w, pow)
        <4> SUFFICES ASSUME Before(v, w, pow) PROVE FALSE OBVIOUS
        <4>1. Rank(v, pow) < Rank(w, pow) BY <3>1, RankOrders
        <4> QED BY <1>4, <2>2, <3>1, <4>1
      <3>3. ~Before(w, v, pow)
        <4> SUFFICES ASSUME Before(w, v, pow) PROVE FALSE OBVIOUS
        <4>1. Rank(w, pow) < Rank(v, pow) BY <3>1, RankOrders
        <4> QED BY <1>4, <2>2, <3>1, <4>1
      <3> QED BY <3>1, <3>2, <3>3, BeforeOrders
    <2> QED BY <2>1, <2>2 DEF Injection, IsInjective
  <1>6. IsFiniteSet(L) /\ Cardinality(L) = ActiveValidatorLimit BY <1>2, FS_Interval
  <1>7. IsFiniteSet(top) /\ Cardinality(top) <= ActiveValidatorLimit
    <2> HIDE DEF rank, L
    <2> QED BY <1>5, <1>6, FS_Injection
  <1>8. ASSUME NEW v \in top, NEW w \in Known, pow[w] > pow[v] PROVE w \in top
    <2>1. v \in Known BY <1>1
    <2>2. Before(w, v, pow) BY <1>8 DEF Before
    <2>3. Rank(w, pow) < Rank(v, pow) BY <2>1, <2>2, RankOrders
    <2>4. Rank(w, pow) < ActiveValidatorLimit BY <1>1, <1>2, <1>4, <2>1, <2>3
    <2>5. pow[w] > 0 BY <1>8, <2>1
    <2> QED BY <2>4, <2>5 DEF top, TopValidators, Rank
  <1>9. \A v \in top, w \in Known : w \notin top => pow[w] <= pow[v] BY <1>1, <1>8
  <1> QED BY <1>7, <1>9 DEF top

\* A smaller active set that nobody has joined keeps the property, whatever
\* becomes Known with no power.
LEMMA StrongestShrinks ==
  ASSUME TypeOK, TypeOK', ActiveAreStrongest, ActiveSet' \subseteq ActiveSet,
         current_base_rate' = current_base_rate,
         \A v \in Known : power'[v] = power[v],
         \A v \in Known' : v \in Known \/ power'[v] = 0,
         \A v \in Known : state'[v] # Slashed => state'[v] = state[v]
  PROVE  ActiveAreStrongest'
  <1>1. IsFiniteSet(ActiveSet)
    <2>1. IsFiniteSet(Known) BY KnownFinite
    <2> QED BY <2>1, FS_Subset DEF ActiveSet
  <1>2. IsFiniteSet(ActiveSet') /\ Cardinality(ActiveSet') <= Cardinality(ActiveSet) BY <1>1, FS_Subset
  <1>3. Cardinality(ActiveSet) \in Nat /\ Cardinality(ActiveSet') \in Nat /\ ActiveValidatorLimit \in Nat
    BY <1>1, <1>2, FS_CardinalityType, StakingAssumption
  <1>4. \/ Cardinality(ActiveSet') <= ActiveValidatorLimit
        \/ current_base_rate'.epoch_index = 0 /\ ActiveSet' \subseteq GenesisKeys
    BY <1>2, <1>3 DEF ActiveAreStrongest
  <1>5. ASSUME NEW a \in ActiveSet', NEW b \in Known', state'[b] = Inactive \/ IsUnbonding(state'[b])
        PROVE  power'[b] <= power'[a]
    <2>1. a \in ActiveSet /\ a \in Known BY DEF ActiveSet
    <2>2. power'[a] = power[a] /\ power'[a] \in Nat BY <2>1, KnownType DEF TypeOK
    <2>3. CASE b \in Known
      <3>1. state'[b] # Slashed BY <1>5 DEF Inactive, Slashed, IsUnbonding
      <3>2. state'[b] = state[b] BY <2>3, <3>1
      <3> QED BY <1>5, <2>1, <2>2, <2>3, <3>2 DEF ActiveAreStrongest
    <2>4. CASE b \notin Known BY <2>2, <2>4
    <2> QED BY <2>3, <2>4
  <1> QED BY <1>4, <1>5 DEF ActiveAreStrongest

\* Nothing of it changes.
LEMMA StrongestUnchanged ==
  ASSUME ActiveAreStrongest, UNCHANGED <<validators, current_base_rate>> PROVE ActiveAreStrongest'
  BY DEF ActiveAreStrongest, ActiveSet, Known, validators

\* begin_block only takes validators out of the active set.
LEMMA StrongestBeginBlock ==
  ASSUME TypeOK, TypeOK', ActiveAreStrongest, NEW signers, BeginBlock(signers) PROVE ActiveAreStrongest'
  <1> DEFINE down == Down(signers)
  <1>1. CASE Halt BY <1>1, StrongestUnchanged DEF Halt, base_rates
  <1>2. CASE ~Halt
    <2>1. /\ TrackUptime(signers, down)
          /\ UNCHANGED <<validator_list, power, current_base_rate>>
      BY <1>2 DEF BeginBlock, base_rates
    <2> HIDE DEF down
    <2>2. Known' = Known BY <2>1 DEF Known
    <2>3. \A v \in Known : state'[v] = IF v \in down THEN Slashed ELSE state[v]
      BY <2>1, KnownType DEF TrackUptime
    <2>4. ActiveSet' \subseteq ActiveSet BY <2>2, <2>3 DEF ActiveSet, Active, Slashed
    <2> QED BY <2>1, <2>2, <2>3, <2>4, StrongestShrinks
  <1> QED BY <1>1, <1>2

\* A new validator has no power.
LEMMA StrongestDeliverTx ==
  ASSUME TypeOK, TypeOK', ActiveAreStrongest, NEW tx \in Txs, DeliverTx(tx) PROVE ActiveAreStrongest'
  <1>1. validator_list' = ListAfter(tx) BY DEF DeliverTx
  <1>2. Known' = Known \union {v \in IdentityKeys : Defined(tx, v) # {}} BY <1>1, ListAfterType
  <1>3. \A v \in Known : state'[v] = state[v] /\ power'[v] = power[v]
    BY KnownType DEF DeliverTx, IsNew
  <1>4. \A v \in Known' : v \in Known \/ (state'[v] = Inactive /\ power'[v] = 0)
    BY <1>2 DEF DeliverTx, IsNew
  <1>5. ActiveSet' \subseteq ActiveSet BY <1>3, <1>4 DEF ActiveSet, Active, Inactive
  <1>6. current_base_rate' = current_base_rate BY DEF DeliverTx, base_rates
  <1> QED BY <1>3, <1>4, <1>5, <1>6, StrongestShrinks

\* process_epoch_transitions makes the top of the sorted list the active set.
LEMMA StrongestEndEpochBlock ==
  ASSUME TypeOK, TypeOK', ActiveAreStrongest, EndEpochBlock PROVE ActiveAreStrongest'
  <1> DEFINE delta == DelegationDelta
             tokens == SupplyAfter(delta)
             pow == PowerAfter(tokens)
             top == TopValidators(pow)
  <1>1. CASE Halt BY <1>1, StrongestUnchanged DEF Halt, base_rates
  <1>2. CASE ~Halt
    <2>1. /\ EndEpochSucceeds(delta, tokens, pow, top)
          /\ EndEpoch(delta, tokens, pow, top)
          /\ UNCHANGED validator_list
      BY <1>2 DEF EndEpochBlock
    <2>2. pow = PowerAfter(tokens) /\ top = TopValidators(pow) OBVIOUS
    <2> HIDE DEF delta, tokens, pow, top
    <2>3. top \subseteq Known /\ \A v \in Known : pow[v] \in Nat BY <2>1, <2>2, EndEpochValues
    <2>4. /\ IsFiniteSet(top) /\ Cardinality(top) <= ActiveValidatorLimit
          /\ \A v \in top, w \in Known : w \notin top => pow[w] <= pow[v]
      BY <2>2, <2>3, TopIsStrongest
    <2>5. Known' = Known BY <2>1 DEF Known
    <2>6. \A v \in Known : /\ state'[v] = StateAfter(v, top)
                           /\ power'[v] = IF v \in Displaced(top) THEN 0 ELSE pow[v]
      BY <2>1, KnownType DEF EndEpoch
    <2>7. ASSUME NEW v \in Known, state'[v] = Active PROVE v \in top /\ v \notin Displaced(top)
      <3>1. StateAfter(v, top) = Active BY <2>6, <2>7
      <3>2. CASE v \in Promoted(top) BY <3>2 DEF Promoted, Displaced
      <3>3. CASE v \notin Promoted(top)
        <4>1. v \notin Displaced(top) BY <3>1, <3>3 DEF StateAfter, Unbonding, Active
        <4>2. state[v] = Active BY <3>1, <3>3, <4>1 DEF StateAfter, Active, Inactive
        <4> QED BY <4>1, <4>2 DEF Displaced, ActiveSet
      <3> QED BY <3>2, <3>3
    <2>8. ASSUME NEW v \in Known, state'[v] = Inactive \/ IsUnbonding(state'[v]) PROVE v \notin top
      <3> SUFFICES ASSUME v \in top PROVE FALSE OBVIOUS
      <3>1. StateAfter(v, top) # Active BY <2>6, <2>8 DEF Inactive, Active, IsUnbonding
      <3>2. v \notin Promoted(top) BY <3>1 DEF StateAfter
      <3>3. v \notin Displaced(top) BY DEF Displaced
      <3>4. state[v] # Inactive /\ ~IsUnbonding(state[v]) BY <3>2 DEF Promoted
      <3>5. StateAfter(v, top) = state[v] BY <3>2, <3>3, <3>4 DEF StateAfter, Expired
      <3> QED BY <2>6, <2>8, <3>4, <3>5
    <2>9. ActiveSet' \subseteq top BY <2>5, <2>7 DEF ActiveSet
    <2>10. Cardinality(ActiveSet') <= ActiveValidatorLimit
      <3>1. IsFiniteSet(ActiveSet') /\ Cardinality(ActiveSet') <= Cardinality(top) BY <2>4, <2>9, FS_Subset
      <3>2. Cardinality(ActiveSet') \in Nat /\ Cardinality(top) \in Nat /\ ActiveValidatorLimit \in Nat
        BY <2>4, <3>1, FS_CardinalityType, StakingAssumption
      <3> QED BY <2>4, <3>1, <3>2
    <2>11. ASSUME NEW a \in ActiveSet', NEW b \in Known', state'[b] = Inactive \/ IsUnbonding(state'[b])
           PROVE  power'[b] <= power'[a]
      <3>1. a \in Known /\ b \in Known /\ a \in top /\ a \notin Displaced(top) /\ b \notin top
        BY <2>5, <2>7, <2>8, <2>11 DEF ActiveSet
      <3>2. pow[b] <= pow[a] /\ pow[a] \in Nat /\ power'[a] = pow[a] BY <2>3, <2>4, <2>6, <3>1
      <3> QED BY <2>6, <3>1, <3>2
    <2> QED BY <2>10, <2>11 DEF ActiveAreStrongest
  <1> QED BY <1>1, <1>2

\* Every step keeps the strongest active.
LEMMA StrongestNext == TypeOK /\ ActiveAreStrongest /\ [Next]_vars => ActiveAreStrongest'
  <1> SUFFICES ASSUME TypeOK, ActiveAreStrongest, [Next]_vars PROVE ActiveAreStrongest' OBVIOUS
  <1>0. TypeOK' BY NextType
  <1>1. ASSUME NEW signers, BeginBlock(signers) PROVE ActiveAreStrongest' BY <1>0, <1>1, StrongestBeginBlock
  <1>2. CASE Fails BY <1>2, FailsHalts, StrongestUnchanged DEF Halt, base_rates
  <1>3. ASSUME NEW tx \in Txs, DeliverTx(tx) PROVE ActiveAreStrongest' BY <1>0, <1>3, StrongestDeliverTx
  <1>4. CASE EndOrdinaryBlock BY <1>4, StrongestUnchanged DEF EndOrdinaryBlock, base_rates
  <1>5. CASE EndEpochBlock BY <1>0, <1>5, StrongestEndEpochBlock
  <1>6. CASE Commit BY <1>6, StrongestUnchanged DEF Commit, base_rates
  <1>7. CASE UNCHANGED vars BY <1>7, StrongestUnchanged DEF vars, base_rates
  <1> QED BY <1>1, <1>2, <1>3, <1>4, <1>5, <1>6, <1>7 DEF Next, Fails

\* Whatever the genesis, the limit and the history of delegations, slashings
\* and returns: nobody who could be Active has more power than somebody who
\* is, and the active set is within the limit once an epoch has ended.
THEOREM ActiveStayStrongest == Spec => []ActiveAreStrongest
  <1>1. Init => TypeOK /\ ActiveAreStrongest
    <2> SUFFICES ASSUME Init PROVE ActiveAreStrongest BY InitType
    <2>1. TypeOK BY InitType
    <2>2. Known = GenesisKeys BY DEF Init, Known, GenesisKeys
    <2>3. \A v \in Known : state[v] = Active BY <2>1, <2>2, KnownType DEF Init
    <2>4. current_base_rate.epoch_index = 0 BY DEF Init, InitialBaseRate
    <2> QED BY <2>2, <2>3, <2>4 DEF ActiveAreStrongest, ActiveSet, Active, Inactive, IsUnbonding
  <1>2. TypeOK /\ ActiveAreStrongest /\ [Next]_vars => TypeOK' /\ ActiveAreStrongest'
    BY NextType, StrongestNext
  <1> QED BY <1>1, <1>2, PTL DEF Spec

-----------------------------------------------------------------------------
(* Delegation tokens are conserved                                         *)

\* The heights of an epoch.
LEMMA EpochInterval ==
  ASSUME NEW e \in Nat, NEW h \in Nat
  PROVE  /\ StartHeight(e) \in Nat /\ EndHeight(e) \in Int
         /\ EpochOf(h) = e <=> h \in StartHeight(e) .. EndHeight(e)
         /\ EndHeight(e) < StartHeight(e + 1)
  <1> DEFINE d == EpochDuration
             q == h \div d
             p == d * e
  <1>1. d \in Nat \ {0} BY StakingAssumption
  <1>2. p \in Nat BY <1>1
  <1>3. StartHeight(e) = p /\ EndHeight(e) = p + d - 1 /\ StartHeight(e + 1) = p + d
    BY <1>1 DEF StartHeight, EndHeight
  <1>4. q \in Nat /\ d * q <= h /\ h < d * q + d BY <1>1, DivType, DivBounds
  <1>5. ASSUME q = e PROVE p <= h /\ h < p + d
    BY <1>4, <1>5
  <1>6. ASSUME p <= h, h < p + d PROVE q = e BY <1>1, <1>6, DivUnique
  <1> HIDE DEF p, d
  <1>7. EpochOf(h) = q BY DEF EpochOf, d
  <1> HIDE DEF q
  <1> QED BY <1>1, <1>2, <1>3, <1>5, <1>6, <1>7

\* What the recorded changes c of the heights H add up to for a validator.
Net(c, v, H) == SumFunction([h \in H |-> c[h][v].delegated - c[h][v].undelegated])

\* One more height.
LEMMA NetAdd ==
  ASSUME NEW c, NEW d, NEW v, NEW H, IsFiniteSet(H), NEW g, g \notin H,
         \A h \in H : d[h] = c[h],
         \A h \in H \union {g} : d[h][v].delegated \in Nat /\ d[h][v].undelegated \in Nat
  PROVE  /\ Net(d, v, H \union {g}) = Net(c, v, H) + (d[g][v].delegated - d[g][v].undelegated)
         /\ Net(c, v, H) \in Int
  <1> DEFINE x == [h \in H |-> c[h][v].delegated - c[h][v].undelegated]
             y == [h \in H \union {g} |-> d[h][v].delegated - d[h][v].undelegated]
  <1>1. Net(c, v, H) = SumFunctionOnSet(x, H) /\ Net(d, v, H \union {g}) = SumFunctionOnSet(y, H \union {g})
    BY DEF Net, SumFunction
  <1>2. \A h \in H : x[h] = y[h] OBVIOUS
  <1>3. \A h \in H \union {g} : y[h] \in Int OBVIOUS
  <1>4. y[g] = d[g][v].delegated - d[g][v].undelegated OBVIOUS
  <1> HIDE DEF x, y
  <1>5. SumFunctionOnSet(x, H) = SumFunctionOnSet(y, H) BY <1>2, SumSame
  <1>6. SumFunctionOnSet(y, H \union {g}) = y[g] + SumFunctionOnSet(y, H) BY <1>3, SumAdd
  <1>7. \A h \in H : y[h] \in Int BY <1>3
  <1>8. SumFunctionOnSet(y, H) \in Int BY <1>7, SumType
  <1>9. y[g] \in Int BY <1>3
  <1> QED BY <1>1, <1>4, <1>5, <1>6, <1>8, <1>9

\* Heights without changes add nothing.
LEMMA NetZero ==
  ASSUME NEW c, NEW v, NEW H, IsFiniteSet(H), \A h \in H : c[h][v] = NoChange
  PROVE  Net(c, v, H) = 0
  <1> DEFINE x == [h \in H |-> c[h][v].delegated - c[h][v].undelegated]
  <1>1. \A h \in H : x[h] = 0 BY DEF NoChange
  <1>2. Net(c, v, H) = SumFunctionOnSet(x, H) BY DEF Net, SumFunction
  <1> HIDE DEF x
  <1> QED BY <1>1, <1>2, SumZero

\* The heights of changes that belong to the epoch whose rates are current.
Waiting == {h \in DOMAIN changes : EpochOf(h) = RateEpoch}

\* What waits: the pending changes and the recorded ones of the epoch.
LEMMA UnprocessedIs ==
  ASSUME NEW v
  PROVE  Unprocessed(v) = pending[v].delegated - pending[v].undelegated + Net(changes, v, Waiting)
  BY DEF Unprocessed, Net, Waiting

\* The strengthening: changes are recorded once a block, after the block's
\* transactions, and only for validators of the list.
ChangesInv ==
  phase # "halted" =>
    /\ \A h \in DOMAIN changes : h <= height /\ (phase = "block" => h < height)
    /\ phase # "block" => pending = NoChanges
    /\ \A v \in IdentityKeys : v \notin Known =>
         /\ pending[v] = NoChange
         /\ \A h \in DOMAIN changes : changes[h][v] = NoChange
    /\ circulating_delegation \in [IdentityKeys -> Int]

SupplyInv == ChangesInv /\ DelegationSupplyConserved

\* The heights with changes are finitely many, and what waits is an integer.
LEMMA WaitingFinite ==
  ASSUME TypeOK, ChangesInv, phase # "halted"
  PROVE  IsFiniteSet(DOMAIN changes) /\ IsFiniteSet(Waiting)
  <1>1. DOMAIN changes \subseteq 0 .. height BY TypeHeight DEF TypeOK, ChangesInv
  <1>2. IsFiniteSet(0 .. height) BY TypeHeight, FS_Interval
  <1>3. IsFiniteSet(DOMAIN changes) BY <1>1, <1>2, FS_Subset
  <1> QED BY <1>3, FS_Subset DEF Waiting

\* Genesis delegation is recorded as supply.
LEMMA SupplyInit == Init => SupplyInv
  <1> SUFFICES ASSUME Init PROVE SupplyInv OBVIOUS
  <1>0. TypeOK BY InitType
  <1>1. ChangesInv
    <2>1. height = 0 /\ phase = "committed" /\ changes = [h \in {0} |-> NoChanges] /\ pending = NoChanges
      BY DEF Init
    <2>2. circulating_delegation \in [IdentityKeys -> Int] BY StakingAssumption DEF Init
    <2> QED BY <2>1, <2>2 DEF ChangesInv, NoChanges
  <1>2. ASSUME NEW v \in IdentityKeys PROVE circulating_delegation[v] = supply[v] + Unprocessed(v)
    <2>1. IsFiniteSet(Waiting) BY <1>0, <1>1, WaitingFinite DEF Init
    <2>2. \A h \in Waiting : changes[h][v] = NoChange BY DEF Waiting, Init, NoChanges
    <2>3. Net(changes, v, Waiting) = 0 BY <2>1, <2>2, NetZero
    <2>4. pending[v] = NoChange BY DEF Init, NoChanges
    <2>5. Unprocessed(v) = 0 BY <2>3, <2>4, UnprocessedIs DEF NoChange
    <2>6. circulating_delegation[v] = supply[v] /\ supply[v] \in Nat BY StakingAssumption DEF Init
    <2> QED BY <2>5, <2>6
  <1> QED BY <1>1, <1>2 DEF SupplyInv, DelegationSupplyConserved

\* A step that leaves the queue, the rate epoch and the tokens alone.
LEMMA SupplyUnchanged ==
  ASSUME SupplyInv, phase # "halted", ChangesInv', RateEpoch' = RateEpoch,
         UNCHANGED <<changes, pending, supply, circulating_delegation>>
  PROVE  SupplyInv'
  <1>1. \A v \in IdentityKeys : Unprocessed(v)' = Unprocessed(v) BY DEF Unprocessed
  <1> QED BY <1>1 DEF SupplyInv, DelegationSupplyConserved

\* Nothing is claimed of a halted chain.
LEMMA SupplyHalt == ASSUME phase' = "halted" PROVE SupplyInv'
  BY DEF SupplyInv, ChangesInv, DelegationSupplyConserved

\* begin_block leaves queue and tokens alone.
LEMMA SupplyBeginBlock ==
  ASSUME TypeOK, SupplyInv, NEW signers, BeginBlock(signers) PROVE SupplyInv'
  <1>1. CASE Halt BY <1>1, SupplyHalt DEF Halt
  <1>2. CASE ~Halt
    <2>1. /\ phase = "committed" /\ phase' = "block" /\ height' = height + 1
          /\ UNCHANGED <<validator_list, changes, pending, supply, circulating_delegation>>
      BY <1>2 DEF BeginBlock, queue, supplies, notes
    <2>2. Known' = Known BY <2>1 DEF Known
    <2>3. RateEpoch' = RateEpoch BY <2>1 DEF RateEpoch, EpochOf
    <2>4. \A h \in DOMAIN changes : h <= height' /\ h < height'
      BY <2>1, TypeHeight DEF SupplyInv, ChangesInv, TypeOK
    <2>5. ChangesInv' BY <2>1, <2>2, <2>4 DEF SupplyInv, ChangesInv
    <2> QED BY <2>1, <2>3, <2>5, SupplyUnchanged
  <1> QED BY <1>1, <1>2

\* commit drops an empty queue.
LEMMA SupplyCommit == ASSUME TypeOK, SupplyInv, Commit PROVE SupplyInv'
  <1>1. /\ phase = "ended" /\ phase' = "committed" /\ height' = height /\ pending' = NoChanges
        /\ UNCHANGED <<validator_list, changes, supply, circulating_delegation>>
    BY DEF Commit, validators, supplies, notes
  <1>2. pending' = pending BY <1>1 DEF SupplyInv, ChangesInv
  <1>3. Known' = Known /\ RateEpoch' = RateEpoch BY <1>1 DEF Known, RateEpoch, EpochOf
  <1>4. ChangesInv' BY <1>1, <1>2, <1>3 DEF SupplyInv, ChangesInv
  <1> QED BY <1>1, <1>2, <1>3, <1>4, SupplyUnchanged

\* What a transaction buys or redeems is what it queues.
LEMMA SupplyDeliverTx ==
  ASSUME TypeOK, SupplyInv, NEW tx \in Txs, DeliverTx(tx) PROVE SupplyInv'
  <1>1. validator_list' = ListAfter(tx) BY DEF DeliverTx
  <1>2. Known \subseteq Known' BY <1>1, ListAfterType
  <1>3. /\ phase = "block" /\ UNCHANGED <<phase, height, changes, supply>>
        /\ pending' = Queued(tx)
        /\ circulating_delegation' = [v \in IdentityKeys |-> DelegationAfter(tx, v)]
        /\ CheckTxStateful(tx)
    BY DEF DeliverTx, supplies
  <1> DEFINE B(v) == Bought(tx.delegate, v) + Bought(tx.undelegate, v)
  <1>4. ASSUME NEW v \in IdentityKeys
        PROVE  /\ B(v) \in Int
               /\ pending'[v].delegated - pending'[v].undelegated =
                    pending[v].delegated - pending[v].undelegated + B(v)
               /\ circulating_delegation'[v] = circulating_delegation[v] + B(v)
               /\ v \notin Known => pending'[v] = pending[v]
    <2>1. /\ tx.delegate \in Delegations \union {NoAction}
          /\ tx.undelegate \in Undelegations \union {NoAction}
      BY TxType
    <2>2. /\ tx.delegate # NoAction => /\ tx.delegate.kind = "delegate"
                                       /\ tx.delegate.delegation_amount \in Nat
                                       /\ tx.delegate.validator_identity \in Known
          /\ tx.undelegate # NoAction => /\ tx.undelegate.kind = "undelegate"
                                         /\ tx.undelegate.delegation_amount \in Nat
                                         /\ tx.undelegate.validator_identity \in Known
          /\ NoAction.kind = "none"
      BY <1>3, <2>1 DEF Delegations, Undelegations, NoAction, CheckTxStateful, CheckDelegate, CheckUndelegate,
         MayDelegate, IsForNextEpoch
    <2> DEFINE bought == IF tx.delegate # NoAction /\ tx.delegate.validator_identity = v
                         THEN tx.delegate.delegation_amount ELSE 0
               redeemed == IF tx.undelegate # NoAction /\ tx.undelegate.validator_identity = v
                           THEN tx.undelegate.delegation_amount ELSE 0
    <2>3. bought \in Nat /\ redeemed \in Nat BY <2>2
    <2>4. Bought(tx.delegate, v) = bought BY <2>2 DEF Bought
    <2>5. Bought(tx.undelegate, v) = -redeemed BY <2>2 DEF Bought
    <2>6. pending'[v] = [delegated |-> pending[v].delegated + bought,
                         undelegated |-> pending[v].undelegated + redeemed]
      BY <1>3 DEF Queued
    <2>7. circulating_delegation'[v] =
            circulating_delegation[v] + Bought(tx.delegate, v) + Bought(tx.undelegate, v)
      BY <1>3 DEF DelegationAfter
    <2>8. pending[v] \in [delegated : Nat, undelegated : Nat] /\ circulating_delegation[v] \in Int
      BY <1>3 DEF TypeOK, SupplyInv, ChangesInv
    <2>9. v \notin Known => bought = 0 /\ redeemed = 0 BY <2>2
    <2> HIDE DEF bought, redeemed
    <2>10. v \notin Known => pending'[v] = pending[v]
      BY <2>6, <2>8, <2>9
    <2> QED BY <2>3, <2>4, <2>5, <2>6, <2>7, <2>8, <2>10
  <1> HIDE DEF B
  <1>5. ChangesInv'
    <2>1. circulating_delegation' \in [IdentityKeys -> Int]
      <3>1. \A v \in IdentityKeys : circulating_delegation[v] \in Int BY <1>3 DEF SupplyInv, ChangesInv
      <3>2. \A v \in IdentityKeys : circulating_delegation'[v] \in Int BY <1>4, <3>1
      <3> QED BY <1>3, <3>2
    <2> QED BY <1>2, <1>3, <1>4, <2>1 DEF SupplyInv, ChangesInv
  <1>6. RateEpoch' = RateEpoch BY <1>3 DEF RateEpoch, EpochOf
  <1>7. Waiting' = Waiting BY <1>3, <1>6 DEF Waiting, EpochOf
  <1>8. ASSUME NEW v \in IdentityKeys PROVE circulating_delegation'[v] = supply'[v] + Unprocessed(v)'
    <2> DEFINE n == Net(changes, v, Waiting)
               p == pending[v].delegated - pending[v].undelegated
    <2>1. n \in Int
      <3>1. IsFiniteSet(Waiting) BY <1>3, WaitingFinite DEF SupplyInv
      <3> DEFINE x == [h \in Waiting |-> changes[h][v].delegated - changes[h][v].undelegated]
      <3>2. \A h \in Waiting : x[h] \in Int BY DEF Waiting, TypeOK
      <3>3. n = SumFunctionOnSet(x, Waiting) BY DEF Net, SumFunction
      <3> HIDE DEF x, n
      <3> QED BY <3>1, <3>2, <3>3, SumType
    <2>2. Unprocessed(v) = p + n BY UnprocessedIs
    <2>3. Unprocessed(v)' = pending'[v].delegated - pending'[v].undelegated + n
      BY <1>3, <1>7 DEF Unprocessed, Net, Waiting
    <2>4. circulating_delegation[v] = supply[v] + Unprocessed(v) BY <1>3 DEF SupplyInv, DelegationSupplyConserved
    <2>5. p \in Int /\ supply[v] \in Int BY DEF TypeOK
    <2>6. pending'[v].delegated - pending'[v].undelegated = p + B(v) BY <1>4
    <2>7. B(v) \in Int /\ circulating_delegation'[v] = circulating_delegation[v] + B(v) BY <1>4
    <2> HIDE DEF n, p
    <2> QED BY <1>3, <2>1, <2>2, <2>3, <2>4, <2>5, <2>6, <2>7
  <1> QED BY <1>3, <1>5, <1>8 DEF SupplyInv, DelegationSupplyConserved

\* The block's changes, recorded under its height, join those of its epoch.
LEMMA RecordedChanges ==
  ASSUME TypeOK, SupplyInv, phase = "block", NEW v \in IdentityKeys
  PROVE  /\ Unprocessed(v) \in Int
         /\ Unprocessed(v) = Net(ChangesAfter, v, {h \in DOMAIN ChangesAfter : EpochOf(h) = EpochOf(height)})
  <1>1. RateEpoch = EpochOf(height) BY DEF RateEpoch
  <1>2. height \notin DOMAIN changes BY TypeHeight DEF SupplyInv, ChangesInv
  <1>3. height \notin Waiting BY <1>2 DEF Waiting
  <1>4. IsFiniteSet(Waiting) BY WaitingFinite DEF SupplyInv
  <1> DEFINE H == {h \in DOMAIN ChangesAfter : EpochOf(h) = EpochOf(height)}
  <1>5. H = Waiting \union {height} BY <1>1 DEF ChangesAfter, Waiting
  <1>6. ChangesAfter[height] = pending /\ \A h \in Waiting : ChangesAfter[h] = changes[h]
    BY <1>3 DEF ChangesAfter, Waiting
  <1>7. \A h \in Waiting \union {height} : /\ ChangesAfter[h][v].delegated \in Nat
                                           /\ ChangesAfter[h][v].undelegated \in Nat
    BY <1>6 DEF TypeOK, Waiting
  <1>8. /\ Net(ChangesAfter, v, Waiting \union {height}) =
             Net(changes, v, Waiting) + (ChangesAfter[height][v].delegated - ChangesAfter[height][v].undelegated)
        /\ Net(changes, v, Waiting) \in Int
    BY <1>3, <1>4, <1>6, <1>7, NetAdd
  <1>9. pending[v].delegated \in Nat /\ pending[v].undelegated \in Nat BY DEF TypeOK
  <1> DEFINE n == Net(changes, v, Waiting)
             p == pending[v].delegated - pending[v].undelegated
  <1>10. Unprocessed(v) = p + n BY UnprocessedIs
  <1>11. Net(ChangesAfter, v, Waiting \union {height}) = n + p BY <1>6, <1>8
  <1>12. n \in Int /\ p \in Int BY <1>8, <1>9
  <1> HIDE DEF n, p, H
  <1>13. Unprocessed(v) \in Int /\ Unprocessed(v) = Net(ChangesAfter, v, H) BY <1>5, <1>10, <1>11, <1>12
  <1> QED BY <1>13 DEF H

\* After the block its changes are recorded, and nothing is pending.
LEMMA ChangesRecorded ==
  ASSUME TypeOK, SupplyInv, phase = "block", phase' = "ended", height' = height,
         changes' = ChangesAfter, pending' = NoChanges,
         UNCHANGED <<validator_list, circulating_delegation>>
  PROVE  ChangesInv'
  <1>1. Known' = Known BY DEF Known
  <1>2. \A h \in DOMAIN changes' : h <= height'
    BY TypeHeight DEF ChangesAfter, SupplyInv, ChangesInv
  <1>3. \A v \in IdentityKeys : v \notin Known => \A h \in DOMAIN changes' : changes'[h][v] = NoChange
    BY DEF ChangesAfter, SupplyInv, ChangesInv
  <1>4. circulating_delegation' \in [IdentityKeys -> Int] BY DEF SupplyInv, ChangesInv
  <1> QED BY <1>1, <1>2, <1>3, <1>4 DEF ChangesInv, NoChanges

\* Inside an epoch the changes move from memory to their height.
LEMMA SupplyEndOrdinaryBlock == ASSUME TypeOK, SupplyInv, EndOrdinaryBlock PROVE SupplyInv'
  <1>1. /\ phase = "block" /\ phase' = "ended" /\ ~IsEpochEnd(height) /\ height' = height
        /\ changes' = ChangesAfter /\ pending' = NoChanges
        /\ UNCHANGED <<validator_list, supply, circulating_delegation>>
    BY DEF EndOrdinaryBlock, validators, supplies, notes
  <1>2. ChangesInv' BY <1>1, ChangesRecorded
  <1>3. RateEpoch' = EpochOf(height)
    <2>1. RateEpoch' = EpochOf(height + 1) BY <1>1 DEF RateEpoch, EpochOf
    <2> QED BY <1>1, <2>1, TypeHeight, EpochStep
  <1>4. ASSUME NEW v \in IdentityKeys PROVE circulating_delegation'[v] = supply'[v] + Unprocessed(v)'
    <2> DEFINE H == {h \in DOMAIN ChangesAfter : EpochOf(h) = EpochOf(height)}
    <2>1. Unprocessed(v) = Net(ChangesAfter, v, H) /\ Unprocessed(v) \in Int BY <1>1, RecordedChanges
    <2>2. Waiting' = H BY <1>1, <1>3 DEF Waiting, EpochOf
    <2>3. Unprocessed(v)' = pending'[v].delegated - pending'[v].undelegated + Net(ChangesAfter, v, H)
      BY <1>1, <2>2 DEF Unprocessed, Net, Waiting
    <2>4. pending'[v].delegated = 0 /\ pending'[v].undelegated = 0 BY <1>1 DEF NoChanges, NoChange
    <2>5. circulating_delegation[v] = supply[v] + Unprocessed(v) BY <1>1 DEF SupplyInv, DelegationSupplyConserved
    <2> HIDE DEF H
    <2> QED BY <1>1, <2>1, <2>3, <2>4, <2>5
  <1> QED BY <1>1, <1>2, <1>4 DEF SupplyInv, DelegationSupplyConserved

\* What end_epoch adds up over the heights of the epoch is what was waiting.
LEMMA ProcessedChanges ==
  ASSUME TypeOK, SupplyInv, phase = "block", EpochHeights \subseteq DOMAIN ChangesAfter, NEW v \in IdentityKeys
  PROVE  Unprocessed(v) = DelegationDelta[v] /\ DelegationDelta[v] \in Int
  <1> DEFINE e == EpochOf(height)
             H == {h \in DOMAIN ChangesAfter : EpochOf(h) = e}
  <1>1. e \in Nat BY TypeHeight, EpochStep
  <1>2. DOMAIN ChangesAfter \subseteq Nat BY ChangesAfterType
  <1>3. EpochHeights = StartHeight(e) .. EndHeight(e) BY DEF EpochHeights
  <1>4. \A h \in DOMAIN ChangesAfter : EpochOf(h) = e <=> h \in EpochHeights
    BY <1>1, <1>2, <1>3, EpochInterval
  <1>5. EpochHeights = H BY <1>4
  <1>6. DelegationDelta[v] = Net(ChangesAfter, v, H) BY <1>5 DEF DelegationDelta, Net
  <1>7. Unprocessed(v) \in Int /\ Unprocessed(v) = Net(ChangesAfter, v, H) BY RecordedChanges
  <1> HIDE DEF H
  <1> QED BY <1>6, <1>7

\* After the last block of an epoch no recorded change is left to process.
LEMMA NothingUnprocessed ==
  ASSUME TypeOK, SupplyInv, phase = "block", phase' = "ended", IsEpochEnd(height), height' = height,
         changes' = ChangesAfter, pending' = NoChanges, NEW v \in IdentityKeys
  PROVE  Unprocessed(v)' = 0
  <1> DEFINE e == EpochOf(height)
  <1>1. height \in Nat /\ e \in Nat BY TypeHeight, EpochStep
  <1>2. RateEpoch' = e + 1
    <2>1. RateEpoch' = EpochOf(height + 1) BY DEF RateEpoch, EpochOf
    <2> QED BY <1>1, <2>1, EpochStep
  <1>3. ASSUME NEW h \in DOMAIN ChangesAfter, EpochOf(h) = e + 1 PROVE FALSE
    <2>1. h \in Nat /\ h <= height BY <1>1, ChangesAfterType DEF ChangesAfter, SupplyInv, ChangesInv
    <2> DEFINE f == e + 1
    <2>2. f \in Nat BY <1>1
    <2>3. EpochOf(h) = f BY <1>3
    <2>4. EndHeight(e) < StartHeight(f) BY <1>1, EpochInterval
    <2>5. height = EndHeight(e) BY DEF IsEpochEnd
    <2> HIDE DEF e, f
    <2>6. StartHeight(f) \in Nat /\ EndHeight(f) \in Int /\ h \in StartHeight(f) .. EndHeight(f)
      BY <2>1, <2>2, <2>3, EpochInterval
    <2> QED BY <1>1, <2>1, <2>4, <2>5, <2>6
  <1>4. Waiting' = {} BY <1>2, <1>3 DEF Waiting, EpochOf
  <1>5. Unprocessed(v)' = pending'[v].delegated - pending'[v].undelegated + Net(changes', v, Waiting')
    BY DEF Unprocessed, Net, Waiting
  <1>6. Net(changes', v, {}) = 0 BY NetZero, FS_EmptySet
  <1>7. pending'[v].delegated = 0 /\ pending'[v].undelegated = 0 BY DEF NoChanges, NoChange
  <1> QED BY <1>4, <1>5, <1>6, <1>7

\* end_epoch processes exactly what was waiting, and nothing is left of it.
LEMMA SupplyEndEpochBlock == ASSUME TypeOK, SupplyInv, EndEpochBlock PROVE SupplyInv'
  <1> DEFINE delta == DelegationDelta
             tokens == SupplyAfter(delta)
             pow == PowerAfter(tokens)
             top == TopValidators(pow)
  <1>1. CASE Halt BY <1>1, SupplyHalt DEF Halt
  <1>2. CASE ~Halt
    <2>1. /\ EndEpochSucceeds(delta, tokens, pow, top)
          /\ EndEpoch(delta, tokens, pow, top)
          /\ phase = "block" /\ phase' = "ended" /\ IsEpochEnd(height)
          /\ changes' = ChangesAfter /\ pending' = NoChanges
          /\ UNCHANGED <<height, validator_list, circulating_delegation>>
      BY <1>2 DEF EndEpochBlock
    <2>2. \A v \in IdentityKeys : tokens[v] = supply[v] + delta[v] BY DEF SupplyAfter
    <2>3. ChangesInv' BY <2>1, ChangesRecorded
    <2>4. EpochHeights \subseteq DOMAIN ChangesAfter BY <2>1 DEF EndEpochSucceeds
    <2> HIDE DEF tokens, pow, top
    <2>5. ASSUME NEW v \in IdentityKeys PROVE circulating_delegation'[v] = supply'[v] + Unprocessed(v)'
      <3>1. Unprocessed(v) = delta[v] /\ delta[v] \in Int BY <2>1, <2>4, ProcessedChanges
      <3>2. Unprocessed(v)' = 0 BY <2>1, NothingUnprocessed
      <3>3. supply'[v] = supply[v] + delta[v]
        <4>1. CASE v \in Known BY <2>1, <2>2, <4>1 DEF EndEpoch
        <4>2. CASE v \notin Known
          <5>1. pending[v] = NoChange /\ \A h \in DOMAIN changes : changes[h][v] = NoChange
            BY <2>1, <4>2 DEF SupplyInv, ChangesInv
          <5>2. IsFiniteSet(Waiting) BY <2>1, WaitingFinite DEF SupplyInv
          <5>3. Net(changes, v, Waiting) = 0 BY <5>1, <5>2, NetZero DEF Waiting
          <5>4. Unprocessed(v) = 0 BY <5>1, <5>3, UnprocessedIs DEF NoChange
          <5>5. supply'[v] = supply[v] BY <2>1, <4>2 DEF EndEpoch
          <5>6. supply[v] \in Nat BY DEF TypeOK
          <5> QED BY <3>1, <5>4, <5>5, <5>6
        <4> QED BY <4>1, <4>2
      <3>4. circulating_delegation[v] = supply[v] + Unprocessed(v) BY <2>1 DEF SupplyInv, DelegationSupplyConserved
      <3>5. supply[v] \in Nat BY DEF TypeOK
      <3> QED BY <2>1, <3>1, <3>2, <3>3, <3>4, <3>5
    <2> QED BY <2>1, <2>3, <2>5 DEF SupplyInv, DelegationSupplyConserved
  <1> QED BY <1>1, <1>2

\* Every step conserves the delegation tokens.
LEMMA SupplyNext == TypeOK /\ SupplyInv /\ [Next]_vars => SupplyInv'
  <1> SUFFICES ASSUME TypeOK, SupplyInv, [Next]_vars PROVE SupplyInv' OBVIOUS
  <1>1. ASSUME NEW signers, BeginBlock(signers) PROVE SupplyInv' BY <1>1, SupplyBeginBlock
  <1>2. CASE Fails BY <1>2, FailsHalts, SupplyHalt DEF Halt
  <1>3. ASSUME NEW tx \in Txs, DeliverTx(tx) PROVE SupplyInv' BY <1>3, SupplyDeliverTx
  <1>4. CASE EndOrdinaryBlock BY <1>4, SupplyEndOrdinaryBlock
  <1>5. CASE EndEpochBlock BY <1>5, SupplyEndEpochBlock
  <1>6. CASE Commit BY <1>6, SupplyCommit
  <1>7. CASE UNCHANGED vars
    <2>1. UNCHANGED <<phase, height, validator_list, changes, pending, supply, circulating_delegation>>
      BY <1>7 DEF vars, chain, validators, queue, supplies, notes
    <2>2. CASE phase = "halted" BY <2>1, <2>2, SupplyHalt
    <2>3. CASE phase # "halted"
      <3>1. Known' = Known /\ RateEpoch' = RateEpoch BY <2>1 DEF Known, RateEpoch, EpochOf
      <3>2. ChangesInv' BY <2>1, <3>1 DEF SupplyInv, ChangesInv
      <3> QED BY <2>1, <2>3, <3>1, <3>2, SupplyUnchanged
    <2> QED BY <2>2, <2>3
  <1> QED BY <1>1, <1>2, <1>3, <1>4, <1>5, <1>6, <1>7 DEF Next, Fails

\* The delegation tokens users hold are the recorded supply and the changes
\* that wait for the end of their epoch, in every state of every chain: no
\* block's changes are lost, processed twice or valued for an unknown pool.
THEOREM DelegationIsConserved == Spec => []DelegationSupplyConserved
  <1>1. Init => TypeOK /\ SupplyInv BY InitType, SupplyInit
  <1>2. TypeOK /\ SupplyInv /\ [Next]_vars => TypeOK' /\ SupplyInv' BY NextType, SupplyNext
  <1>3. SupplyInv => DelegationSupplyConserved BY DEF SupplyInv
  <1> QED BY <1>1, <1>2, <1>3, PTL DEF Spec

-----------------------------------------------------------------------------
(* The recorded staking-token supply covers the stake in circulation       *)

\* A validator is in the list once.
ListedOnce == \A i, j \in DOMAIN validator_list : validator_list[i] = validator_list[j] => i = j

\* add_validator adds to the list what is not in it.
LEMMA AppendNewOnce ==
  ASSUME NEW list \in Seq(IdentityKeys), NEW def \in Definitions,
         \A i, j \in DOMAIN list : list[i] = list[j] => i = j
  PROVE  \A i, j \in DOMAIN AppendNew(list, def) :
           AppendNew(list, def)[i] = AppendNew(list, def)[j] => i = j
  <1>1. CASE \E i \in DOMAIN list : list[i] = def.identity_key BY <1>1 DEF AppendNew
  <1>2. CASE ~ \E i \in DOMAIN list : list[i] = def.identity_key
    <2> DEFINE new == Append(list, def.identity_key)
    <2>1. AppendNew(list, def) = new BY <1>2 DEF AppendNew
    <2>2. def.identity_key \in IdentityKeys BY DEF Definitions
    <2>3. DOMAIN new = 1 .. (Len(list) + 1) /\ DOMAIN list = 1 .. Len(list) /\ Len(list) \in Nat
      BY <2>2
    <2>4. new[Len(list) + 1] = def.identity_key /\ \A i \in 1 .. Len(list) : new[i] = list[i]
      BY <2>2
    <2> HIDE DEF new
    <2>5. \A i, j \in DOMAIN new : new[i] = new[j] => i = j BY <1>2, <2>3, <2>4
    <2> QED BY <2>1, <2>5
  <1> QED BY <1>1, <1>2

\* A transaction lists no validator twice.
LEMMA ListedOnceDeliverTx ==
  ASSUME TypeOK, ListedOnce, NEW tx \in Txs, validator_list' = ListAfter(tx) PROVE ListedOnce'
  <1>1. validator_list \in Seq(IdentityKeys) BY DEF TypeOK
  <1> DEFINE ds == tx.definitions
             one == AppendNew(validator_list, ds[1])
  <1>2. CASE Len(ds) = 0
    <2>1. ds \in Seq(Definitions) /\ DOMAIN ds = {} BY <1>2, TxType
    <2>2. ds = << >>
      <3> HIDE DEF ds
      <3> QED BY <1>2, <2>1
    <2>3. validator_list' = validator_list BY <2>2 DEF ListAfter
    <2> QED BY <2>3 DEF ListedOnce
  <1>3. CASE Len(ds) = 1
    <2>1. ds # << >> /\ ds[1] \in Definitions BY <1>3, TxType
    <2>2. validator_list' = one BY <1>3, <2>1 DEF ListAfter
    <2>3. \A i, j \in DOMAIN one : one[i] = one[j] => i = j BY <1>1, <2>1, AppendNewOnce DEF ListedOnce
    <2> HIDE DEF one
    <2> QED BY <2>2, <2>3 DEF ListedOnce
  <1>4. CASE Len(ds) = 2
    <2>1. ds # << >> /\ ds[1] \in Definitions /\ ds[2] \in Definitions BY <1>4, TxType
    <2>2. validator_list' = AppendNew(one, ds[2]) BY <1>4, <2>1 DEF ListAfter
    <2>3. /\ one \in Seq(IdentityKeys)
          /\ \A i, j \in DOMAIN one : one[i] = one[j] => i = j
      BY <1>1, <2>1, AppendNewType, AppendNewOnce DEF ListedOnce
    <2> HIDE DEF one
    <2> DEFINE two == AppendNew(one, ds[2])
    <2>4. \A i, j \in DOMAIN two : two[i] = two[j] => i = j BY <2>1, <2>3, AppendNewOnce
    <2> HIDE DEF two
    <2>5. validator_list' = two BY <2>2 DEF two
    <2> QED BY <2>4, <2>5 DEF ListedOnce
  <1> QED BY <1>2, <1>3, <1>4, TxType

\* The loop of end_epoch over the validators adds up their staking deltas: the
\* supply after each iteration.
LEMMA StakeSupplyPrefix ==
  ASSUME TypeOK, ListedOnce, NEW delta, \A v \in Known : StakingDelta(v, delta) \in Int,
         NEW k \in 0 .. Len(validator_list)
  PROVE  StakeSupplyAfter(delta)[k] =
           stake_supply + SumFunctionOnSet([v \in Known |-> StakingDelta(v, delta)],
                                           {validator_list[i] : i \in 1 .. k})
  <1> DEFINE n == Len(validator_list)
             w == [i \in 1 .. n |-> StakingDelta(validator_list[i], delta)]
             sd == [v \in Known |-> StakingDelta(v, delta)]
             Fix(f) == f = [i \in 0 .. Len(validator_list) |->
                              IF i = 0 THEN stake_supply
                              ELSE f[i - 1] + StakingDelta(validator_list[i], delta)]
             g == CHOOSE f : Fix(f)
  <1>1. n \in Nat /\ DOMAIN validator_list = 1 .. n BY DEF TypeOK
  <1>2. \A i \in 1 .. n : validator_list[i] \in Known BY <1>1 DEF Known
  <1>3. \A i \in 1 .. n : w[i] \in Int /\ w[i] = sd[validator_list[i]] BY <1>2
  <1>4. stake_supply \in Int BY DEF TypeOK
  <1>5. StakeSupplyAfter(delta) = g BY DEF StakeSupplyAfter
  <1>6. \A f : RunningTotal(f, n, stake_supply, w) <=> Fix(f)
    <2> TAKE f
    <2>1. [i \in 0 .. n |-> IF i = 0 THEN stake_supply ELSE f[i - 1] + w[i]] =
          [i \in 0 .. n |-> IF i = 0 THEN stake_supply ELSE f[i - 1] + StakingDelta(validator_list[i], delta)]
      <3>1. \A i \in 0 .. n : i # 0 => w[i] = StakingDelta(validator_list[i], delta) BY <1>1
      <3> HIDE DEF w, n
      <3> QED BY <3>1
    <2> QED BY <2>1 DEF RunningTotal
  <1> HIDE DEF w, sd
  <1>7. \E f : Fix(f)
    <2>1. \E f : RunningTotal(f, n, stake_supply, w) BY <1>1, <1>3, <1>4, RunningTotalExists
    <2> HIDE DEF Fix
    <2> QED BY <1>6, <2>1
  <1>8. Fix(g)
    <2> HIDE DEF Fix
    <2> QED BY <1>7
  <1> HIDE DEF g
  <1>9. RunningTotal(g, n, stake_supply, w) BY <1>6, <1>8
  <1> HIDE DEF Fix
  <1>10. g[k] = stake_supply + SumFunctionOnSet(w, 1 .. k)
    <2>0. k \in 0 .. n OBVIOUS
    <2> HIDE DEF n
    <2>1. n \in Nat BY <1>1
    <2>2. \A i \in 1 .. n : w[i] \in Int BY <1>3
    <2> QED BY <1>4, <1>9, <2>0, <2>1, <2>2, RunningTotalIs
  <1>11. SumFunctionOnSet(w, 1 .. k) = SumFunctionOnSet(sd, {validator_list[i] : i \in 1 .. k})
    <2> DEFINE I == 1 .. k
    <2>1. IsFiniteSet(I) BY <1>1, FS_Interval
    <2>2. I \subseteq 1 .. n BY <1>1
    <2>3. \A x, y \in I : validator_list[x] = validator_list[y] => x = y BY <1>1, <2>2 DEF ListedOnce
    <2>4. \A x \in I : w[x] = sd[validator_list[x]] /\ w[x] \in Int BY <1>3, <2>2
    <2> HIDE DEF I
    <2>5. SumFunctionOnSet(w, I) = SumFunctionOnSet(sd, {validator_list[i] : i \in I})
      BY <2>1, <2>3, <2>4, SumRename
    <2> QED BY <2>5 DEF I
  <1> QED BY <1>5, <1>10, <1>11 DEF sd

\* And after the last one.
LEMMA StakeSupplySum ==
  ASSUME TypeOK, ListedOnce, NEW delta, \A v \in Known : StakingDelta(v, delta) \in Int
  PROVE  StakeSupplyAfter(delta)[Len(validator_list)] =
           stake_supply + SumFunctionOnSet([v \in Known |-> StakingDelta(v, delta)], Known)
  <1> DEFINE n == Len(validator_list)
  <1>1. n \in 0 .. n /\ DOMAIN validator_list = 1 .. n BY DEF TypeOK
  <1>2. {validator_list[i] : i \in 1 .. n} = Known BY <1>1 DEF Known
  <1> QED BY <1>1, <1>2, StakeSupplyPrefix

\* Delegation tokens of a pool that its recorded supply does not count yet.
Outstanding(v) == circulating_delegation[v] - supply[v]

\* flow[v] is the stake that went into the pool of v since the supply was
\* last computed, and is worth at least the tokens it bought.
Covered(flow) ==
  /\ \A v \in IdentityKeys :
       IF v \in Known THEN next_rate[v].validator_exchange_rate * Outstanding(v) <= Scale * flow[v]
                      ELSE flow[v] = 0 /\ Outstanding(v) = 0
  /\ circulating + SumFunctionOnSet(flow, Known) <= stake_supply

\* The strengthening: while nobody is slashed there are such flows.
CoverInv ==
  phase # "halted" =>
    /\ ListedOnce
    /\ circulating \in Int
    /\ (\A v \in Known : state[v] # Slashed) => \E flow \in [IdentityKeys -> Int] : Covered(flow)

\* At genesis all stake is recorded and nothing flows.
LEMMA CoverInit == Init => CoverInv
  <1> SUFFICES ASSUME Init PROVE CoverInv OBVIOUS
  <1>0. TypeOK BY InitType
  <1>1. ListedOnce BY StakingAssumption DEF ListedOnce, Init
  <1>2. circulating = stake_supply /\ stake_supply \in Nat BY StakingAssumption DEF Init
  <1> DEFINE flow == [v \in IdentityKeys |-> 0]
  <1>3. Covered(flow)
    <2>1. \A v \in IdentityKeys : Outstanding(v) = 0 BY StakingAssumption DEF Init, Outstanding
    <2>2. \A v \in IdentityKeys : next_rate[v].validator_exchange_rate \in Nat BY <1>0 DEF TypeOK, RateData
    <2>3. IsFiniteSet(Known) /\ Known \subseteq IdentityKeys BY <1>0, KnownFinite, KnownType
    <2>4. \A v \in Known : flow[v] = 0 BY <2>3
    <2>5. SumFunctionOnSet(flow, Known) = 0
      <3> HIDE DEF flow
      <3> QED BY <2>3, <2>4, SumZero
    <2> HIDE DEF flow
    <2>6. \A v \in IdentityKeys : flow[v] = 0 BY DEF flow
    <2> QED BY <1>2, <2>1, <2>2, <2>5, <2>6, ScaleType DEF Covered
  <1>4. flow \in [IdentityKeys -> Int] OBVIOUS
  <1> HIDE DEF flow
  <1> QED BY <1>1, <1>2, <1>3, <1>4 DEF CoverInv

\* Nothing is claimed of a halted chain.
LEMMA CoverHalt == ASSUME phase' = "halted" PROVE CoverInv'
  BY DEF CoverInv

\* A step that leaves list, tokens and stake alone, and the rates of a chain
\* where nobody is slashed after it.
LEMMA CoverUnchanged ==
  ASSUME TypeOK, CoverInv, phase # "halted", SlashedKept,
         UNCHANGED <<validator_list, supply, stake_supply, circulating, circulating_delegation>>,
         \A v \in Known : state'[v] # Slashed => next_rate'[v] = next_rate[v]
  PROVE  CoverInv'
  <1>1. Known' = Known /\ ListedOnce' BY DEF Known, ListedOnce, CoverInv
  <1>2. circulating' \in Int BY DEF CoverInv
  <1>3. ASSUME \A v \in Known' : state'[v] # Slashed
        PROVE  \E flow \in [IdentityKeys -> Int] : Covered(flow)'
    <2>1. \A v \in Known : state[v] # Slashed BY <1>1, <1>3 DEF SlashedKept
    <2>2. PICK flow \in [IdentityKeys -> Int] : Covered(flow) BY <2>1 DEF CoverInv
    <2>3. \A v \in Known : next_rate'[v] = next_rate[v] BY <1>1, <1>3
    <2>4. Covered(flow)' BY <1>1, <2>2, <2>3 DEF Covered, Outstanding
    <2> QED BY <2>4
  <1> QED BY <1>1, <1>2, <1>3 DEF CoverInv

\* begin_block changes the rates of slashed pools only.
LEMMA CoverBeginBlock ==
  ASSUME TypeOK, CoverInv, SlashedKept, NEW signers, BeginBlock(signers) PROVE CoverInv'
  <1> DEFINE down == Down(signers)
  <1>1. CASE Halt BY <1>1, CoverHalt DEF Halt
  <1>2. CASE ~Halt
    <2>1. /\ TrackUptime(signers, down) /\ phase = "committed"
          /\ UNCHANGED <<validator_list, supply, stake_supply, circulating, circulating_delegation>>
      BY <1>2 DEF BeginBlock, supplies, notes
    <2> HIDE DEF down
    <2>2. \A v \in Known : state'[v] # Slashed => next_rate'[v] = next_rate[v]
      BY <2>1, KnownType DEF TrackUptime
    <2> QED BY <2>1, <2>2, CoverUnchanged
  <1> QED BY <1>1, <1>2

\* The stake an action moves into the pool of v.
Paid(a, v) == IF a.kind = "none" \/ a.validator_identity # v THEN 0 ELSE Burned(a)

\* An action pays into one pool.
LEMMA PaidSum ==
  ASSUME NEW S, IsFiniteSet(S), NEW a, a.kind = "none" \/ a.validator_identity \in S, Burned(a) \in Int
  PROVE  SumFunctionOnSet([v \in S |-> Paid(a, v)], S) = Burned(a)
  <1> DEFINE w == [v \in S |-> Paid(a, v)]
  <1>1. CASE a.kind = "none"
    <2>1. \A v \in S : w[v] = 0 BY <1>1 DEF Paid
    <2>2. Burned(a) = 0 BY <1>1 DEF Burned
    <2> HIDE DEF w
    <2>3. SumFunctionOnSet(w, S) = 0 BY <2>1, SumZero
    <2> QED BY <2>2, <2>3 DEF w
  <1>2. CASE a.kind # "none"
    <2> DEFINE y == a.validator_identity
    <2>1. y \in S BY <1>2
    <2>2. w[y] = Burned(a) BY <1>2, <2>1 DEF Paid
    <2>3. \A v \in S \ {y} : w[v] = 0 BY DEF Paid
    <2> HIDE DEF w, y
    <2>4. SumFunctionOnSet(w, S) = SumFunctionOnSet(w, {y}) BY <2>1, <2>2, <2>3, SumSupport
    <2>5. SumFunctionOnSet(w, {y}) = w[y] BY <2>2, SumSingle
    <2>6. SumFunctionOnSet(w, S) = Burned(a) BY <2>2, <2>4, <2>5
    <2> QED BY <2>6 DEF w
  <1> QED BY <1>1, <1>2

\* A checked delegation pays at least what its tokens are worth, and a
\* checked undelegation is paid at most that: both round against the user.
LEMMA DelegateRounds ==
  ASSUME NEW r \in RateData, NEW U \in Nat, NEW D \in Nat, D = DelegationAmount(r, U)
  PROVE  r.validator_exchange_rate * D <= Scale * U
  <1> DEFINE x == r.validator_exchange_rate
             m == U * Scale
  <1>1. x \in Nat BY DEF RateData
  <1>2. m \in Nat /\ m = Scale * U BY ScaleType
  <1>3. D = m \div x BY DEF DelegationAmount
  <1> HIDE DEF x, m
  <1>4. x * D <= m
    <2>1. CASE x = 0 BY <1>2, <2>1
    <2>2. CASE x # 0 BY <1>1, <1>2, <1>3, <2>2, DivBounds
    <2> QED BY <2>1, <2>2
  <1> QED BY <1>2, <1>4 DEF x

\* The undelegation.
LEMMA UndelegateRounds ==
  ASSUME NEW r \in RateData, NEW U \in Nat, NEW D \in Nat, U = UnbondedAmount(r, D)
  PROVE  Scale * U <= r.validator_exchange_rate * D
  <1> DEFINE x == r.validator_exchange_rate
             m == D * x
  <1>1. x \in Nat BY DEF RateData
  <1>2. m \in Nat /\ m = x * D BY <1>1
  <1>3. U = m \div Scale BY DEF UnbondedAmount
  <1> HIDE DEF x, m
  <1>4. Scale * U <= m BY <1>2, <1>3, ScaleType, DivBounds
  <1> QED BY <1>2, <1>4 DEF x

\* What a transaction takes out of circulation flows into the pools it names.
LEMMA CoverDeliverTx ==
  ASSUME TypeOK, TypeOK', CoverInv, SupplyInv, SlashedKept, NEW tx \in Txs, DeliverTx(tx) PROVE CoverInv'
  <1>1. validator_list' = ListAfter(tx) BY DEF DeliverTx
  <1>2. Known' = Known \union {v \in IdentityKeys : Defined(tx, v) # {}} BY <1>1, ListAfterType
  <1>3. /\ phase = "block" /\ UNCHANGED <<supply, stake_supply>>
        /\ circulating' = StakeAfter(tx)
        /\ circulating_delegation' = [v \in IdentityKeys |-> DelegationAfter(tx, v)]
        /\ CheckTxStateful(tx)
        /\ \A v \in Known : next_rate'[v] = next_rate[v]
    BY KnownType DEF DeliverTx, supplies, IsNew
  <1>4. ListedOnce' BY <1>1, <1>3, ListedOnceDeliverTx DEF CoverInv
  <1> DEFINE d == tx.delegate
             u == tx.undelegate
  <1>5. /\ d \in Delegations \union {NoAction}
        /\ u \in Undelegations \union {NoAction}
    BY TxType
  <1>6. /\ d # NoAction => /\ d.kind = "delegate" /\ d.delegation_amount \in Nat /\ d.unbonded_amount \in Nat
                           /\ d.validator_identity \in Known
                           /\ d.delegation_amount = DelegationAmount(next_rate[d.validator_identity], d.unbonded_amount)
        /\ u # NoAction => /\ u.kind = "undelegate" /\ u.delegation_amount \in Nat /\ u.unbonded_amount \in Nat
                           /\ u.validator_identity \in Known
                           /\ u.unbonded_amount = UnbondedAmount(next_rate[u.validator_identity], u.delegation_amount)
        /\ NoAction.kind = "none"
    BY <1>3, <1>5 DEF Delegations, Undelegations, NoAction, CheckTxStateful, CheckDelegate, CheckUndelegate,
         MayDelegate, IsForNextEpoch
  <1>7. Burned(d) \in Int /\ Burned(u) \in Int BY <1>6 DEF Burned
  <1>8. circulating \in Int BY <1>3 DEF CoverInv
  <1>9. circulating' = circulating - Burned(d) - Burned(u) BY <1>3 DEF StakeAfter
  <1> HIDE DEF d, u
  <1>10. circulating' \in Int BY <1>7, <1>8, <1>9
  <1>11. ASSUME \A v \in Known' : state'[v] # Slashed
         PROVE  \E flow \in [IdentityKeys -> Int] : Covered(flow)'
    <2>1. \A v \in Known : state[v] # Slashed BY <1>2, <1>11 DEF SlashedKept
    <2>2. PICK flow \in [IdentityKeys -> Int] : Covered(flow) BY <1>3, <2>1 DEF CoverInv
    <2> DEFINE pd == [v \in Known |-> Paid(d, v)]
               pu == [v \in Known |-> Paid(u, v)]
               f1 == [v \in IdentityKeys |-> flow[v] + Paid(d, v)]
               f2 == [v \in IdentityKeys |-> f1[v] + Paid(u, v)]
    <2>3. \A v \in IdentityKeys : Paid(d, v) \in Int /\ Paid(u, v) \in Int BY <1>7 DEF Paid
    <2>4. f1 \in [IdentityKeys -> Int] /\ f2 \in [IdentityKeys -> Int] BY <2>3
    <2>5. IsFiniteSet(Known) /\ Known \subseteq IdentityKeys BY KnownFinite, KnownType
    <2>6. IsFiniteSet(Known') /\ Known' \subseteq IdentityKeys
      <3>1. Known' \subseteq IdentityKeys BY <1>2, <2>5
      <3>2. IsFiniteSet(Known)' BY KnownFinite, PTL
      <3> QED BY <3>1, <3>2
    <2>7. SumFunctionOnSet(pd, Known) = Burned(d) BY <1>6, <1>7, <2>5, PaidSum
    <2>8. SumFunctionOnSet(pu, Known) = Burned(u) BY <1>6, <1>7, <2>5, PaidSum
    <2>9. \A v \in Known : /\ flow[v] \in Int /\ f1[v] \in Int /\ f2[v] \in Int
                           /\ pd[v] \in Int /\ pu[v] \in Int
                           /\ f1[v] = flow[v] + pd[v] /\ f2[v] = f1[v] + pu[v]
      BY <2>3, <2>4, <2>5
    <2>10. \A v \in IdentityKeys : v \notin Known => Paid(d, v) = 0 /\ Paid(u, v) = 0 BY <1>6 DEF Paid
    <2>11. \A v \in IdentityKeys : f2[v] = flow[v] + (Paid(d, v) + Paid(u, v)) BY <2>3
    <2>12. \A v \in IdentityKeys : v \notin Known => f2[v] = 0 /\ Outstanding(v) = 0
      BY <2>2, <2>10, <2>11 DEF Covered
    <2> HIDE DEF pd, pu, f1, f2
    <2>13. SumFunctionOnSet(f1, Known) = SumFunctionOnSet(flow, Known) + Burned(d)
      BY <2>5, <2>7, <2>9, SumPlus
    <2>14. SumFunctionOnSet(f2, Known) = SumFunctionOnSet(f1, Known) + Burned(u)
      BY <2>5, <2>8, <2>9, SumPlus
    <2>15. SumFunctionOnSet(f2, Known') = SumFunctionOnSet(f2, Known)
      <3> DEFINE K == Known'
      <3>1. IsFiniteSet(K) /\ Known \in SUBSET K BY <1>2, <2>6
      <3>2. \A v \in K \ Known : f2[v] = 0 BY <2>6, <2>12
      <3> HIDE DEF K
      <3>3. SumFunctionOnSet(f2, K) = SumFunctionOnSet(f2, Known) BY <2>9, <3>1, <3>2, SumSupport
      <3> QED BY <3>3 DEF K
    <2>16. SumFunctionOnSet(flow, Known) \in Int BY <2>5, <2>9, SumType
    <2>17. circulating' + SumFunctionOnSet(f2, Known') <= stake_supply'
      <3>1. circulating + SumFunctionOnSet(flow, Known) <= stake_supply BY <2>2 DEF Covered
      <3>2. stake_supply \in Int BY DEF TypeOK
      <3> QED BY <1>3, <1>7, <1>8, <1>9, <2>13, <2>14, <2>15, <2>16, <3>1, <3>2
    <2>18. ASSUME NEW v \in IdentityKeys
           PROVE  IF v \in Known'
                  THEN next_rate'[v].validator_exchange_rate * Outstanding(v)' <= Scale * f2[v]
                  ELSE f2[v] = 0 /\ Outstanding(v)' = 0
      <3> DEFINE bd == Bought(d, v)
                 bu == Bought(u, v)
                 p == Paid(d, v)
                 q == Paid(u, v)
      <3>1. circulating_delegation[v] \in Int /\ supply[v] \in Int BY <1>3 DEF SupplyInv, ChangesInv, TypeOK
      <3>2. bd \in Int /\ bu \in Int /\ p \in Int /\ q \in Int
        <4>1. bd \in Int BY <1>6 DEF Bought
        <4>2. bu \in Int BY <1>6 DEF Bought
        <4> QED BY <2>3, <4>1, <4>2
      <3>3. circulating_delegation'[v] = circulating_delegation[v] + bd + bu
        BY <1>3 DEF DelegationAfter, d, u
      <3>4. Outstanding(v)' = Outstanding(v) + bd + bu /\ Outstanding(v) \in Int
        <4> HIDE DEF bd, bu
        <4> QED BY <1>3, <3>1, <3>2, <3>3 DEF Outstanding
      <3>5. CASE v \notin Known
        <4>1. bd = 0 /\ bu = 0 BY <1>6, <3>5 DEF Bought
        <4>2. f2[v] = 0 /\ Outstanding(v)' = 0 BY <2>12, <3>4, <3>5, <4>1
        <4>3. v \in Known' => next_rate'[v].validator_exchange_rate \in Nat BY DEF TypeOK, RateData
        <4> QED BY <4>2, <4>3, ScaleType
      <3>6. CASE v \in Known
        <4> DEFINE x == next_rate[v].validator_exchange_rate
                   o == Outstanding(v)
        <4>1. next_rate[v] \in RateData /\ x \in Nat BY DEF TypeOK, RateData
        <4>2. x * bd <= Scale * p
          <5>1. CASE d # NoAction /\ d.validator_identity = v
            <6>1. bd = d.delegation_amount /\ p = d.unbonded_amount BY <1>6, <5>1 DEF Bought, Paid, Burned
            <6> QED BY <1>6, <4>1, <5>1, <6>1, DelegateRounds
          <5>2. CASE d = NoAction \/ d.validator_identity # v
            <6>1. bd = 0 /\ p = 0 BY <1>6, <5>2 DEF Bought, Paid
            <6> QED BY <4>1, <6>1, ScaleType
          <5> QED BY <5>1, <5>2
        <4>3. x * bu <= Scale * q
          <5>1. CASE u # NoAction /\ u.validator_identity = v
            <6> DEFINE D == u.delegation_amount
                       U == u.unbonded_amount
            <6>1. bu = -D /\ q = -U /\ D \in Nat /\ U \in Nat BY <1>6, <5>1 DEF Bought, Paid, Burned
            <6>2. Scale * U <= x * D BY <1>6, <4>1, <5>1, UndelegateRounds
            <6> HIDE DEF D, U, x, bu, q
            <6>3. x * bu = -(x * D) /\ Scale * q = -(Scale * U) BY <4>1, <6>1, ScaleType
            <6>4. x * D \in Int /\ Scale * U \in Int BY <4>1, <6>1, ScaleType
            <6> QED BY <6>2, <6>3, <6>4
          <5>2. CASE u = NoAction \/ u.validator_identity # v
            <6>1. bu = 0 /\ q = 0 BY <1>6, <5>2 DEF Bought, Paid
            <6> QED BY <4>1, <6>1, ScaleType
          <5> QED BY <5>1, <5>2
        <4>4. x * o <= Scale * flow[v] BY <2>2, <3>6 DEF Covered
        <4>5. f2[v] = flow[v] + (p + q) /\ flow[v] \in Int BY <2>9, <2>11, <3>6
        <4>6. next_rate'[v].validator_exchange_rate = x /\ v \in Known' BY <1>2, <1>3, <3>6
        <4>7. Outstanding(v)' = o + bd + bu /\ o \in Int BY <3>4
        <4> HIDE DEF x, o, bd, bu, p, q
        <4>8. x * (o + bd + bu) = x * o + x * bd + x * bu BY <3>2, <4>1, <4>7
        <4>9. Scale * (flow[v] + (p + q)) = Scale * flow[v] + Scale * p + Scale * q BY <3>2, <4>5, ScaleType
        <4>10. /\ x * o \in Int /\ x * bd \in Int /\ x * bu \in Int
               /\ Scale * flow[v] \in Int /\ Scale * p \in Int /\ Scale * q \in Int
          BY <3>2, <4>1, <4>5, <4>7, ScaleType
        <4>11. x * (o + bd + bu) <= Scale * (flow[v] + (p + q)) BY <4>2, <4>3, <4>4, <4>8, <4>9, <4>10
        <4> QED BY <4>5, <4>6, <4>7, <4>11
      <3> QED BY <3>5, <3>6
    <2>19. Covered(f2)' BY <2>17, <2>18 DEF Covered
    <2> QED BY <2>4, <2>19
  <1> QED BY <1>4, <1>10, <1>11 DEF CoverInv

\* The commission minted at the end of an epoch is not negative.
LEMMA CommissionType ==
  ASSUME TypeOK, NEW tokens, \A v \in Known : tokens[v] \in Nat
  PROVE  TotalCommission(tokens) \in Nat
  <1> DEFINE w == [v \in Known |-> Commission(v, tokens)]
  <1>1. IsFiniteSet(Known) BY KnownFinite
  <1>2. BaseRateAfter \in BaseRateData /\ next_base_rate \in BaseRateData
    BY StakingAssumption, BaseRateNextType DEF BaseRateAfter, TypeOK
  <1>3. ASSUME NEW v \in Known PROVE Commission(v, tokens) \in Nat
    <2> DEFINE bps == definition[v].rate_bps
               k == tokens[v] * (bps * Bps)
               share == k \div Scale
               l == share * BaseRateAfter.base_reward_rate
               reward == l \div Scale
               m == reward * next_base_rate.base_exchange_rate
    <2>1. bps \in Nat /\ tokens[v] \in Nat BY DEF TypeOK, Definitions
    <2>2. BaseRateAfter.base_reward_rate \in Nat /\ next_base_rate.base_exchange_rate \in Nat
      BY <1>2 DEF BaseRateData
    <2>3. Commission(v, tokens) = IF state[v] = Active THEN m \div Scale ELSE 0 BY DEF Commission, RewardAmount
    <2> HIDE DEF m
    <2>4. k \in Nat BY <2>1, ScaleType
    <2> HIDE DEF k
    <2>5. share \in Nat BY <2>4, ScaleType, DivType
    <2> HIDE DEF share
    <2>6. l \in Nat BY <2>2, <2>5
    <2> HIDE DEF l
    <2>7. reward \in Nat BY <2>6, ScaleType, DivType
    <2> HIDE DEF reward
    <2>8. m \in Nat BY <2>2, <2>7 DEF m
    <2>9. m \div Scale \in Nat BY <2>8, ScaleType, DivType
    <2> QED BY <2>3, <2>9
  <1>4. \A v \in Known : w[v] \in Nat BY <1>3
  <1>5. TotalCommission(tokens) = SumFunctionOnSet(w, Known) BY DEF TotalCommission, SumFunction
  <1> HIDE DEF w
  <1> QED BY <1>1, <1>4, <1>5, SumType

\* Valuing the net change of a pool once releases no more stake, and takes no
\* less, than the pool's users were paid and paid.
LEMMA StakingDeltaCovered ==
  ASSUME TypeOK, NEW v \in IdentityKeys, NEW delta, delta[v] \in Int, NEW f \in Int,
         next_rate[v].validator_exchange_rate * delta[v] <= Scale * f
  PROVE  StakingDelta(v, delta) \in Int /\ f + StakingDelta(v, delta) \in Nat
  <1> DEFINE x == next_rate[v].validator_exchange_rate
             o == delta[v]
             a == IF o < 0 THEN -o ELSE o
             m == a * x
             s == m \div Scale
  <1>1. x \in Nat BY DEF TypeOK, RateData
  <1>2. o \in Int /\ x * o <= Scale * f OBVIOUS
  <1>3. StakingDelta(v, delta) = IF o >= 0 THEN -s ELSE s BY DEF StakingDelta, UnbondedAmount
  <1>4. a \in Nat BY <1>2
  <1>5. m \in Nat /\ (o >= 0 => m = x * o) /\ (o < 0 => m = -(x * o))
    <2> HIDE DEF x, o
    <2> QED BY <1>1, <1>2, <1>4
  <1>6. x * o \in Int /\ Scale * f \in Int
    <2> HIDE DEF x, o
    <2> QED BY <1>1, <1>2, ScaleType
  <1> HIDE DEF x, o, a, m
  <1>7. s \in Int /\ Scale * s <= m /\ m < Scale * s + Scale BY <1>5, ScaleType, DivBounds
  <1>8. Scale * s \in Int BY <1>7, ScaleType
  <1> HIDE DEF s
  <1>9. CASE o >= 0
    <2>1. Scale * s < Scale * f + Scale BY <1>2, <1>5, <1>6, <1>7, <1>8, <1>9, ScaleType
    <2>2. s <= f BY <1>7, <2>1, ScaleType, ScaleCancel
    <2> QED BY <1>3, <1>7, <1>9, <2>2
  <1>10. CASE o < 0
    <2> DEFINE g == -f
    <2>1. g \in Int /\ Scale * g = -(Scale * f) BY ScaleType
    <2> HIDE DEF g
    <2>2. Scale * g < Scale * s + Scale BY <1>2, <1>5, <1>6, <1>7, <1>8, <1>10, <2>1, ScaleType
    <2>3. g <= s BY <1>7, <2>1, <2>2, ScaleType, ScaleCancel
    <2>4. StakingDelta(v, delta) = s BY <1>2, <1>3, <1>10
    <2>5. f + s \in Nat
      <3>1. g = -f BY DEF g
      <3> QED BY <1>7, <2>1, <2>3, <3>1
    <2> QED BY <1>7, <2>4, <2>5
  <1> QED BY <1>2, <1>9, <1>10

\* What end_epoch adds up for a pool are its outstanding tokens.
LEMMA DeltaIsOutstanding ==
  ASSUME TypeOK, SupplyInv, phase = "block", EpochHeights \subseteq DOMAIN ChangesAfter, NEW v \in IdentityKeys
  PROVE  DelegationDelta[v] = Outstanding(v) /\ DelegationDelta[v] \in Int
  <1>1. DelegationDelta[v] = Unprocessed(v) /\ DelegationDelta[v] \in Int BY ProcessedChanges
  <1>2. circulating_delegation[v] = supply[v] + Unprocessed(v) BY DEF SupplyInv, DelegationSupplyConserved
  <1>3. supply[v] \in Nat BY DEF TypeOK
  <1> QED BY <1>1, <1>2, <1>3 DEF Outstanding

\* The supply that the loop of end_epoch arrives at covers the stake in
\* circulation before the commission, while nobody is slashed.
LEMMA EpochCovered ==
  ASSUME TypeOK, SupplyInv, CoverInv, phase = "block", EpochHeights \subseteq DOMAIN ChangesAfter,
         \A v \in Known : state[v] # Slashed
  PROVE  /\ \A v \in Known : StakingDelta(v, DelegationDelta) \in Int
         /\ SumFunctionOnSet([v \in Known |-> StakingDelta(v, DelegationDelta)], Known) \in Int
         /\ circulating <= stake_supply +
              SumFunctionOnSet([v \in Known |-> StakingDelta(v, DelegationDelta)], Known)
  <1> DEFINE delta == DelegationDelta
  <1>1. IsFiniteSet(Known) /\ Known \subseteq IdentityKeys BY KnownFinite, KnownType
  <1>2. PICK flow \in [IdentityKeys -> Int] : Covered(flow) BY DEF CoverInv
  <1>3. \A v \in Known : delta[v] = Outstanding(v) /\ delta[v] \in Int BY <1>1, DeltaIsOutstanding
  <1> HIDE DEF delta
  <1> DEFINE sd == [v \in Known |-> StakingDelta(v, delta)]
             total == [v \in Known |-> flow[v] + sd[v]]
             F == SumFunctionOnSet(flow, Known)
             D == SumFunctionOnSet(sd, Known)
  <1>4. \A v \in Known : StakingDelta(v, delta) \in Int /\ flow[v] + StakingDelta(v, delta) \in Nat
    <2> TAKE v \in Known
    <2>1. v \in IdentityKeys /\ flow[v] \in Int BY <1>1
    <2>2. next_rate[v].validator_exchange_rate * delta[v] <= Scale * flow[v] BY <1>2, <1>3, <2>1 DEF Covered
    <2> QED BY <1>3, <2>1, <2>2, StakingDeltaCovered
  <1>5. \A v \in Known : /\ flow[v] \in Int /\ sd[v] \in Int
                        /\ total[v] = flow[v] + sd[v] /\ total[v] \in Nat
    BY <1>1, <1>4
  <1> HIDE DEF sd, total
  <1>6. SumFunctionOnSet(total, Known) = F + D BY <1>1, <1>5, SumPlus
  <1>7. SumFunctionOnSet(total, Known) \in Nat /\ F \in Int /\ D \in Int BY <1>1, <1>5, SumType
  <1>8. circulating + F <= stake_supply BY <1>2 DEF Covered
  <1>9. stake_supply \in Nat /\ circulating \in Int BY DEF TypeOK, CoverInv
  <1> HIDE DEF F, D
  <1>10. circulating <= stake_supply + D BY <1>6, <1>7, <1>8, <1>9
  <1> QED BY <1>4, <1>7, <1>10 DEF D, sd, delta

\* end_epoch turns the flows of the epoch into recorded supply.
LEMMA CoverEndEpochBlock ==
  ASSUME TypeOK, TypeOK', CoverInv, SupplyInv, SupplyInv', SlashedKept, EndEpochBlock PROVE CoverInv'
  <1> DEFINE delta == DelegationDelta
             tokens == SupplyAfter(delta)
             pow == PowerAfter(tokens)
             top == TopValidators(pow)
  <1>1. CASE Halt BY <1>1, CoverHalt DEF Halt
  <1>2. CASE ~Halt
    <2>1. /\ EndEpochSucceeds(delta, tokens, pow, top)
          /\ EndEpoch(delta, tokens, pow, top)
          /\ phase = "block" /\ phase' = "ended" /\ IsEpochEnd(height)
          /\ changes' = ChangesAfter /\ pending' = NoChanges
          /\ UNCHANGED <<height, validator_list, circulating_delegation>>
      BY <1>2 DEF EndEpochBlock
    <2>2. pow = PowerAfter(tokens) /\ top = TopValidators(pow) OBVIOUS
    <2>3. \A v \in IdentityKeys : tokens[v] = supply[v] + delta[v] BY DEF SupplyAfter
    <2> HIDE DEF delta, tokens, pow, top
    <2>4. \A v \in Known : tokens[v] \in Nat BY <2>1, <2>2, EndEpochValues
    <2> DEFINE tc == TotalCommission(tokens)
    <2>5. tc \in Int BY <2>4, CommissionType
    <2>6. Known' = Known /\ ListedOnce' BY <2>1 DEF Known, ListedOnce, CoverInv
    <2>7. IsFiniteSet(Known) /\ Known \subseteq IdentityKeys BY KnownFinite, KnownType
    <2>8. circulating \in Int /\ circulating' = circulating + tc BY <2>1 DEF CoverInv, EndEpoch
    <2> HIDE DEF tc
    <2>9. circulating' \in Int BY <2>5, <2>8
    <2>10. \A v \in IdentityKeys : Outstanding(v)' = 0
      <3> TAKE v \in IdentityKeys
      <3>1. Unprocessed(v)' = 0 BY <2>1, NothingUnprocessed
      <3>2. circulating_delegation'[v] = supply'[v] + Unprocessed(v)'
        BY <2>1 DEF SupplyInv, DelegationSupplyConserved
      <3>3. supply'[v] \in Nat BY DEF TypeOK
      <3> QED BY <3>1, <3>2, <3>3 DEF Outstanding
    <2>11. ASSUME \A v \in Known' : state'[v] # Slashed
           PROVE  \E flow \in [IdentityKeys -> Int] : Covered(flow)'
      <3>1. \A v \in Known : state[v] # Slashed BY <2>6, <2>11 DEF SlashedKept
      <3> DEFINE sd == [v \in Known |-> StakingDelta(v, DelegationDelta)]
                 D == SumFunctionOnSet(sd, Known)
                 zero == [v \in IdentityKeys |-> 0]
      <3>2. EpochHeights \subseteq DOMAIN ChangesAfter BY <2>1 DEF EndEpochSucceeds
      <3>3. /\ \A v \in Known : StakingDelta(v, DelegationDelta) \in Int
            /\ D \in Int /\ circulating <= stake_supply + D
        BY <2>1, <3>1, <3>2, EpochCovered
      <3>4. StakeSupplyAfter(delta)[Len(validator_list)] = stake_supply + D
        BY <2>1, <3>3, StakeSupplySum DEF CoverInv, delta
      <3>5. \A v \in Known : zero[v] = 0 BY <2>7
      <3>6. zero \in [IdentityKeys -> Int] /\ \A v \in IdentityKeys : zero[v] = 0 OBVIOUS
      <3> HIDE DEF zero, sd
      <3>7. SumFunctionOnSet(zero, Known) = 0 BY <2>7, <3>5, SumZero
      <3>8. stake_supply' = (stake_supply + D) + tc BY <2>1, <3>4 DEF EndEpoch, tc
      <3>9. stake_supply \in Nat BY DEF TypeOK
      <3> HIDE DEF D
      <3>10. circulating' + 0 <= stake_supply' BY <2>5, <2>8, <3>3, <3>8, <3>9
      <3>11. \A v \in IdentityKeys : next_rate'[v].validator_exchange_rate \in Nat BY DEF TypeOK, RateData
      <3>12. Covered(zero)' BY <2>6, <2>10, <3>6, <3>7, <3>10, <3>11, ScaleType DEF Covered
      <3> QED BY <3>6, <3>12
    <2> QED BY <2>6, <2>9, <2>11 DEF CoverInv
  <1> QED BY <1>1, <1>2

\* The three invariants together, and the slashed rates that SlashedKept needs.
SupplyCovers == TypeOK /\ SlashedRateHeld /\ SupplyInv /\ CoverInv

\* Every step keeps the supply covered.
LEMMA CoverNext == SupplyCovers /\ [Next]_vars => SupplyCovers'
  <1> SUFFICES ASSUME SupplyCovers, [Next]_vars PROVE SupplyCovers' OBVIOUS
  <1>0. /\ TypeOK /\ SlashedRateHeld /\ SupplyInv /\ CoverInv
        /\ TypeOK' /\ SlashedRateHeld' /\ SlashedKept /\ SupplyInv'
    BY NextType, SlashedNext, SupplyNext DEF SupplyCovers
  <1> SUFFICES CoverInv' BY <1>0 DEF SupplyCovers
  <1>1. ASSUME NEW signers, BeginBlock(signers) PROVE CoverInv' BY <1>0, <1>1, CoverBeginBlock
  <1>2. CASE Fails BY <1>2, FailsHalts, CoverHalt DEF Halt
  <1>3. ASSUME NEW tx \in Txs, DeliverTx(tx) PROVE CoverInv' BY <1>0, <1>3, CoverDeliverTx
  <1>4. ASSUME UNCHANGED <<validators, supplies, notes>>, phase # "halted" PROVE CoverInv'
    <2>1. UNCHANGED <<validator_list, next_rate, supply, stake_supply, circulating, circulating_delegation>>
      BY <1>4 DEF validators, supplies, notes
    <2> QED BY <1>0, <1>4, <2>1, CoverUnchanged
  <1>5. CASE EndOrdinaryBlock BY <1>4, <1>5 DEF EndOrdinaryBlock
  <1>6. CASE EndEpochBlock BY <1>0, <1>6, CoverEndEpochBlock
  <1>7. CASE Commit BY <1>4, <1>7 DEF Commit
  <1>8. CASE UNCHANGED vars
    <2>1. UNCHANGED <<phase, validators, supplies, notes>> BY <1>8 DEF vars, chain
    <2>2. CASE phase = "halted" BY <2>1, <2>2, CoverHalt
    <2> QED BY <1>4, <2>1, <2>2
  <1> QED BY <1>1, <1>2, <1>3, <1>5, <1>6, <1>7, <1>8 DEF Next, Fails

\* With nothing queued every flow is worth at least nothing.
LEMMA CoverImplies == SupplyCovers => StakeSupplyCovers
  <1> SUFFICES ASSUME SupplyCovers, phase # "halted", NothingQueued, \A v \in Known : state[v] # Slashed
               PROVE  stake_supply >= circulating
    BY DEF StakeSupplyCovers
  <1>0. TypeOK /\ SupplyInv /\ CoverInv BY DEF SupplyCovers
  <1>1. PICK flow \in [IdentityKeys -> Int] : Covered(flow) BY <1>0 DEF CoverInv
  <1>2. IsFiniteSet(Known) /\ Known \subseteq IdentityKeys BY <1>0, KnownFinite, KnownType
  <1>3. ASSUME NEW v \in Known PROVE flow[v] \in Nat
    <2>1. v \in IdentityKeys /\ flow[v] \in Int BY <1>2
    <2>2. Unprocessed(v) = 0
      <3>1. IsFiniteSet(Waiting) BY <1>0, WaitingFinite DEF SupplyInv
      <3>2. \A h \in Waiting : changes[h][v] = NoChange BY <2>1 DEF NothingQueued, Waiting, NoChanges
      <3>3. Net(changes, v, Waiting) = 0 BY <3>1, <3>2, NetZero
      <3>4. pending[v] = NoChange BY <2>1 DEF NothingQueued, NoChanges
      <3> QED BY <3>3, <3>4, UnprocessedIs DEF NoChange
    <2>3. circulating_delegation[v] = supply[v] + Unprocessed(v)
      BY <1>0, <2>1 DEF SupplyInv, DelegationSupplyConserved
    <2>4. supply[v] \in Nat /\ next_rate[v].validator_exchange_rate \in Nat BY <1>0, <2>1 DEF TypeOK, RateData
    <2>5. Outstanding(v) = 0 BY <2>2, <2>3, <2>4 DEF Outstanding
    <2>6. 0 <= Scale * flow[v] BY <1>1, <2>1, <2>4, <2>5 DEF Covered
    <2>7. Scale * 0 < Scale * flow[v] + Scale BY <2>1, <2>6, ScaleType
    <2>8. 0 <= flow[v] BY <2>1, <2>7, ScaleType, ScaleCancel
    <2> QED BY <2>1, <2>8
  <1>4. SumFunctionOnSet(flow, Known) \in Nat BY <1>2, <1>3, SumType
  <1>5. circulating + SumFunctionOnSet(flow, Known) <= stake_supply BY <1>1 DEF Covered
  <1>6. circulating \in Int /\ stake_supply \in Int BY <1>0 DEF CoverInv, TypeOK
  <1> QED BY <1>4, <1>5, <1>6

\* While nobody is slashed, the staking-token supply that end_epoch records
\* covers the stake in circulation whenever no change waits: the roundings of
\* single delegations and of the net change of an epoch never add up to stake
\* that was not there, whatever the rates do (overflow of a rate included).
THEOREM StakeSupplyIsCovered == Spec => []StakeSupplyCovers
  <1>1. Init => SupplyCovers
    <2>1. Init => TypeOK BY InitType
    <2>2. Init => SlashedRateHeld BY <2>1, KnownType DEF Init, SlashedRateHeld, InitialRate
    <2> QED BY <2>1, <2>2, SupplyInit, CoverInit DEF SupplyCovers
  <1>2. SupplyCovers /\ [Next]_vars => SupplyCovers' BY CoverNext
  <1>3. SupplyCovers => StakeSupplyCovers BY CoverImplies
  <1> QED BY <1>1, <1>2, <1>3, PTL DEF Spec

-----------------------------------------------------------------------------
(* Tendermint's validator set follows the active set                       *)

\* The key under which Tendermint knows a validator.
Key(v) == definition[v].consensus_key

\* A key that two validators of the list have is on record.
KeysInv == \A v, w \in Known : v # w /\ Key(v) = Key(w) => Key(v) \in rekeyed

\* Genesis validators have different keys.
LEMMA GenesisKeysDiffer ==
  ASSUME TypeOK, Init
  PROVE  /\ Known = GenesisKeys /\ GenesisKeys \subseteq IdentityKeys
         /\ \A v \in GenesisKeys : Key(v) = GenesisDefinition(v).consensus_key /\ power[v] = GenesisPower(v)
         /\ \A v, w \in GenesisKeys : Key(v) = Key(w) => v = w
  <1>1. Known = GenesisKeys BY DEF Init, Known, GenesisKeys
  <1>2. GenesisKeys \subseteq IdentityKeys BY <1>1, KnownType
  <1>3. \A v \in GenesisKeys : Key(v) = GenesisDefinition(v).consensus_key /\ power[v] = GenesisPower(v)
    BY <1>2 DEF Key, Init
  <1>4. \A v, w \in GenesisKeys : Key(v) = Key(w) => v = w
    <2>1. ASSUME NEW v \in GenesisKeys
          PROVE  \E i \in DOMAIN GenesisValidators :
                   GenesisDefinition(v) = GenesisValidators[i] /\ GenesisValidators[i].identity_key = v
      BY DEF GenesisKeys, GenesisDefinition
    <2>2. \A i, j \in DOMAIN GenesisValidators : i # j =>
            GenesisValidators[i].consensus_key # GenesisValidators[j].consensus_key
      BY StakingAssumption
    <2> QED BY <1>3, <2>1, <2>2
  <1> QED BY <1>1, <1>2, <1>3, <1>4

\* What a transaction does to the keys: those it moves or shares are recorded.
LEMMA KeysDeliverTx ==
  ASSUME TypeOK, TypeOK', NEW tx \in Txs, DeliverTx(tx)
  PROVE  /\ rekeyed \subseteq rekeyed'
         /\ \A v \in Known : Key(v)' # Key(v) => Key(v) \in rekeyed' /\ Key(v)' \in rekeyed'
         /\ \A v, w \in Known' : v # w /\ Key(v)' = Key(w)' => Key(v)' \in rekeyed'
  <1>1. validator_list' = ListAfter(tx) BY DEF DeliverTx
  <1>2. Known' = KnownAfter(tx) BY <1>1, ListAfterType DEF KnownAfter
  <1>3. Known \subseteq Known' /\ Known' \subseteq IdentityKeys BY <1>2, KnownType DEF KnownAfter
  <1>4. \A v \in Known' : Key(v)' = KeyAfter(tx, v) BY <1>3 DEF DeliverTx, Key, KeyAfter
  <1>5. (\A v \in Known : Key(v) \in ConsensusKeys) /\ (\A v \in Known' : Key(v)' \in ConsensusKeys)
    BY DEF TypeOK, Definitions, Key
  <1>6. rekeyed' = rekeyed \union Rekeyed(tx) BY DEF DeliverTx
  <1>7. ASSUME NEW v \in Known, Key(v)' # Key(v) PROVE Key(v) \in Rekeyed(tx) /\ Key(v)' \in Rekeyed(tx)
    BY <1>3, <1>4, <1>5, <1>7 DEF Rekeyed, Key
  <1>8. ASSUME NEW v \in Known', NEW w \in Known', v # w, Key(v)' = Key(w)' PROVE Key(v)' \in Rekeyed(tx)
    BY <1>2, <1>4, <1>5, <1>8 DEF Rekeyed
  <1> QED BY <1>6, <1>7, <1>8

\* Every step keeps the record.
LEMMA KeysNext == TypeOK /\ TypeOK' /\ KeysInv /\ [Next]_vars => KeysInv'
  <1> SUFFICES ASSUME TypeOK, TypeOK', KeysInv, [Next]_vars PROVE KeysInv' OBVIOUS
  <1>1. ASSUME UNCHANGED <<validator_list, definition, rekeyed>> PROVE KeysInv'
    BY <1>1 DEF KeysInv, Known, Key
  <1>2. ASSUME NEW signers, BeginBlock(signers) PROVE KeysInv'
    BY <1>1, <1>2 DEF BeginBlock, Halt, validators, tendermint
  <1>3. CASE Fails BY <1>1, <1>3, FailsHalts DEF Halt, validators, tendermint
  <1>4. ASSUME NEW tx \in Txs, DeliverTx(tx) PROVE KeysInv' BY <1>4, KeysDeliverTx DEF KeysInv
  <1>5. CASE EndOrdinaryBlock BY <1>1, <1>5 DEF EndOrdinaryBlock, validators
  <1>6. CASE EndEpochBlock BY <1>1, <1>6 DEF EndEpochBlock, Halt, validators, tendermint
  <1>7. CASE Commit BY <1>1, <1>7 DEF Commit, validators
  <1>8. CASE UNCHANGED vars BY <1>1, <1>8 DEF vars, validators, tendermint
  <1> QED BY <1>2, <1>3, <1>4, <1>5, <1>6, <1>7, <1>8 DEF Next, Fails

\* Tendermint's set is that of the active validators, stated without CHOOSE;
\* what is in memory belongs to the block, and a block's end applies it.
TmFollows ==
  \A ck \in ConsensusKeys \ rekeyed :
    /\ \A v \in ActiveSet : Key(v) = ck => Applied(tm_updates)[ck] = power[v]
    /\ (\A v \in ActiveSet : Key(v) # ck) => Applied(tm_updates)[ck] = 0

UpdatesInv ==
  /\ phase = "committed" => tm_updates = NoUpdates
  /\ phase = "block" => \A ck \in ConsensusKeys : tm_updates[ck] \in {NoUpdate, 0}
  /\ phase = "ended" => tm = Applied(tm_updates)

TmInv == phase # "halted" => TmFollows /\ UpdatesInv

\* The invariant says what the property says.
LEMMA TmImplies == TmInv => TmTracksActive
  BY DEF TmInv, TmFollows, TmTracksActive, Key

\* At genesis Tendermint's set is that of the genesis validators.
LEMMA TmInit == TypeOK /\ Init => KeysInv /\ TmInv
  <1> SUFFICES ASSUME TypeOK, Init PROVE KeysInv /\ TmInv OBVIOUS
  <1>1. Known = GenesisKeys /\ GenesisKeys \subseteq IdentityKeys BY GenesisKeysDiffer
  <1>3. ActiveSet = GenesisKeys BY <1>1 DEF ActiveSet, Init
  <1>4. \A v \in GenesisKeys : Key(v) = GenesisDefinition(v).consensus_key /\ power[v] = GenesisPower(v)
    BY GenesisKeysDiffer
  <1>5. \A v, w \in GenesisKeys : Key(v) = Key(w) => v = w BY GenesisKeysDiffer
  <1>6. \A ck \in ConsensusKeys : Applied(tm_updates)[ck] = tm[ck] BY DEF Applied, Init, NoUpdates
  <1>7. \A ck \in ConsensusKeys : tm[ck] =
             IF \E v \in GenesisKeys : GenesisDefinition(v).consensus_key = ck
             THEN GenesisPower(CHOOSE v \in GenesisKeys : GenesisDefinition(v).consensus_key = ck)
             ELSE 0
    BY DEF Init
  <1>8. ASSUME NEW ck \in ConsensusKeys, NEW v \in GenesisKeys, Key(v) = ck PROVE tm[ck] = power[v]
    <2> DEFINE c == CHOOSE x \in GenesisKeys : GenesisDefinition(x).consensus_key = ck
    <2>1. GenesisDefinition(v).consensus_key = ck BY <1>4, <1>8
    <2>2. c \in GenesisKeys /\ GenesisDefinition(c).consensus_key = ck BY <2>1
    <2>3. tm[ck] = GenesisPower(c) BY <1>7, <2>1
    <2> HIDE DEF c
    <2>4. c = v BY <1>4, <1>5, <1>8, <2>2
    <2> QED BY <1>4, <2>3, <2>4
  <1>9. TmFollows BY <1>3, <1>4, <1>6, <1>7, <1>8 DEF TmFollows
  <1>10. KeysInv BY <1>1, <1>5 DEF KeysInv
  <1> QED BY <1>9, <1>10 DEF TmInv, UpdatesInv, Init

\* Nothing is claimed of a halted chain.
LEMMA TmHalt == ASSUME phase' = "halted" PROVE TmInv'
  BY DEF TmInv

\* A slashed validator leaves both sets.
LEMMA TmBeginBlock ==
  ASSUME TypeOK, KeysInv, TmInv, NEW signers, BeginBlock(signers) PROVE TmInv'
  <1> DEFINE down == Down(signers)
  <1>1. CASE Halt BY <1>1, TmHalt DEF Halt
  <1>2. CASE ~Halt
    <2>1. /\ TrackUptime(signers, down) /\ phase = "committed" /\ phase' = "block"
          /\ UNCHANGED <<validator_list, definition, power, tm, rekeyed>>
      BY <1>2 DEF BeginBlock
    <2>2. down \subseteq ActiveSet BY DEF Down
    <2> HIDE DEF down
    <2>3. Known' = Known BY <2>1 DEF Known
    <2>4. ActiveSet' = ActiveSet \ down
      BY <2>1, <2>2, <2>3, KnownType DEF ActiveSet, TrackUptime, Active, Slashed
    <2>5. TmFollows /\ tm_updates = NoUpdates BY <2>1 DEF TmInv, UpdatesInv
    <2>6. ActiveSet \subseteq Known BY DEF ActiveSet
    <2>7. ASSUME NEW ck \in ConsensusKeys
          PROVE  /\ tm_updates'[ck] = IF \E v \in down : Key(v) = ck THEN 0 ELSE NoUpdate
                 /\ Applied(tm_updates)'[ck] = IF \E v \in down : Key(v) = ck THEN 0 ELSE Applied(tm_updates)[ck]
      <3>1. tm_updates[ck] = NoUpdate BY <2>5 DEF NoUpdates
      <3>2. tm_updates'[ck] = IF \E v \in down : Key(v) = ck THEN 0 ELSE NoUpdate
        BY <2>1, <3>1 DEF TrackUptime, Key
      <3>3. Applied(tm_updates)[ck] = tm[ck] BY <3>1 DEF Applied
      <3>4. Applied(tm_updates)'[ck] = IF tm_updates'[ck] = NoUpdate THEN tm[ck] ELSE tm_updates'[ck]
        BY <2>1 DEF Applied
      <3> QED BY <3>2, <3>3, <3>4 DEF NoUpdate
    <2>8. \A v \in Known : Key(v)' = Key(v) BY <2>1 DEF Key
    <2>9. ASSUME NEW ck \in ConsensusKeys \ rekeyed, NEW v \in ActiveSet', Key(v)' = ck
          PROVE  Applied(tm_updates)'[ck] = power'[v]
      <3>1. v \in ActiveSet /\ v \notin down /\ v \in Known BY <2>4, <2>6
      <3>2. Key(v) = ck BY <2>8, <2>9, <3>1
      <3>3. ~ \E w \in down : Key(w) = ck BY <2>2, <2>6, <3>1, <3>2 DEF KeysInv
      <3> QED BY <2>1, <2>5, <2>7, <3>1, <3>2, <3>3 DEF TmFollows
    <2>10. ASSUME NEW ck \in ConsensusKeys \ rekeyed, \A v \in ActiveSet' : Key(v)' # ck
           PROVE  Applied(tm_updates)'[ck] = 0
      <3>1. CASE \E v \in down : Key(v) = ck BY <2>7, <3>1
      <3>2. CASE ~ \E v \in down : Key(v) = ck
        <4>1. \A v \in ActiveSet : Key(v) # ck BY <2>4, <2>6, <2>8, <2>10, <3>2
        <4> QED BY <2>5, <2>7, <3>2, <4>1 DEF TmFollows
      <3> QED BY <3>1, <3>2
    <2>11. TmFollows' BY <2>1, <2>9, <2>10 DEF TmFollows
    <2>12. UpdatesInv' BY <2>1, <2>7 DEF UpdatesInv
    <2> QED BY <2>11, <2>12 DEF TmInv
  <1> QED BY <1>1, <1>2

\* A transaction changes no power and no active set, and records the keys it changes.
LEMMA TmDeliverTx ==
  ASSUME TypeOK, TypeOK', TmInv, NEW tx \in Txs, DeliverTx(tx) PROVE TmInv'
  <1>1. validator_list' = ListAfter(tx) BY DEF DeliverTx
  <1>2. Known' = Known \union {v \in IdentityKeys : Defined(tx, v) # {}} BY <1>1, ListAfterType
  <1>3. \A v \in Known : state'[v] = state[v] /\ power'[v] = power[v]
    BY KnownType DEF DeliverTx, IsNew
  <1>4. \A v \in Known' : v \in Known \/ state'[v] = Inactive BY <1>2 DEF DeliverTx, IsNew
  <1>5. ActiveSet' = ActiveSet BY <1>2, <1>3, <1>4 DEF ActiveSet, Active, Inactive
  <1>6. phase = "block" /\ UNCHANGED <<phase, tm_updates, tm>> BY DEF DeliverTx
  <1>7. rekeyed \subseteq rekeyed' /\ \A v \in ActiveSet :
          Key(v)' # Key(v) => Key(v) \in rekeyed' /\ Key(v)' \in rekeyed'
    BY KeysDeliverTx DEF ActiveSet
  <1>8. Applied(tm_updates)' = Applied(tm_updates) BY <1>6 DEF Applied
  <1>9. TmFollows /\ UpdatesInv BY <1>6 DEF TmInv
  <1>10. ASSUME NEW ck \in ConsensusKeys \ rekeyed'
         PROVE  /\ \A v \in ActiveSet' : Key(v)' = ck => Applied(tm_updates)'[ck] = power'[v]
                /\ (\A v \in ActiveSet' : Key(v)' # ck) => Applied(tm_updates)'[ck] = 0
    <2>1. ck \in ConsensusKeys \ rekeyed BY <1>7
    <2>2. \A v \in ActiveSet : Key(v)' = ck <=> Key(v) = ck BY <1>7
    <2>3. \A v \in ActiveSet : power'[v] = power[v] BY <1>3 DEF ActiveSet
    <2> QED BY <1>5, <1>8, <1>9, <2>1, <2>2, <2>3 DEF TmFollows
  <1>11. TmFollows' BY <1>10 DEF TmFollows
  <1>12. UpdatesInv' BY <1>6, <1>9 DEF UpdatesInv
  <1> QED BY <1>11, <1>12 DEF TmInv

\* Steps that change Tendermint's set and the updates only, and not what the
\* set is once the updates are applied.
LEMMA TmUnchanged ==
  ASSUME TmInv, phase # "halted", UNCHANGED <<validators, rekeyed>>, UpdatesInv',
         Applied(tm_updates)' = Applied(tm_updates)
  PROVE  TmInv'
  BY DEF TmInv, TmFollows, ActiveSet, Known, Key, validators

\* Applying updates twice is applying them once.
LEMMA AppliedTwice ==
  ASSUME NEW updates, tm' = Applied(updates), tm_updates' = updates
  PROVE  Applied(tm_updates)' = Applied(updates)
  BY DEF Applied

\* The end of a block hands over the block's updates.
LEMMA TmEndOrdinaryBlock == ASSUME TypeOK, TmInv, EndOrdinaryBlock PROVE TmInv'
  <1>1. /\ phase = "block" /\ phase' = "ended" /\ tm' = Applied(tm_updates)
        /\ tm_updates' = tm_updates /\ UNCHANGED <<validators, rekeyed>>
    BY DEF EndOrdinaryBlock
  <1>2. Applied(tm_updates)' = Applied(tm_updates) BY <1>1, AppliedTwice
  <1>3. UpdatesInv' BY <1>1, <1>2 DEF UpdatesInv
  <1> QED BY <1>1, <1>2, <1>3, TmUnchanged

\* commit forgets updates that Tendermint has applied.
LEMMA TmCommit == ASSUME TypeOK, TmInv, Commit PROVE TmInv'
  <1>1. /\ phase = "ended" /\ phase' = "committed" /\ tm_updates' = NoUpdates
        /\ UNCHANGED <<validators, tm, rekeyed>>
    BY DEF Commit
  <1>2. tm = Applied(tm_updates) BY <1>1 DEF TmInv, UpdatesInv
  <1>3. Applied(tm_updates)' = tm
    <2>1. Applied(tm_updates)' = [ck \in ConsensusKeys |-> tm[ck]] BY <1>1 DEF Applied, NoUpdates
    <2> QED BY <2>1 DEF TypeOK
  <1>4. UpdatesInv' BY <1>1 DEF UpdatesInv
  <1> QED BY <1>1, <1>2, <1>3, <1>4, TmUnchanged

\* What process_epoch_transitions reports for a key: at most one validator
\* has it, and reports its power when it is in the top, 0 when it leaves.
LEMMA EpochReports ==
  ASSUME TypeOK, KeysInv, NEW pow, NEW top, top \subseteq Known, NEW ck \in ConsensusKeys \ rekeyed
  PROVE  /\ Reporting(ck, top) = {} => EpochUpdates(pow, top)[ck] = tm_updates[ck]
         /\ \A v \in ActiveSet \union Promoted(top) : Key(v) = ck =>
              EpochUpdates(pow, top)[ck] = IF v \in top THEN pow[v] ELSE 0
  <1>1. Reporting(ck, top) = {} => EpochUpdates(pow, top)[ck] = tm_updates[ck] BY DEF EpochUpdates
  <1>2. ASSUME NEW v \in ActiveSet \union Promoted(top), Key(v) = ck
        PROVE  EpochUpdates(pow, top)[ck] = IF v \in top THEN pow[v] ELSE 0
    <2>1. ActiveSet \union Promoted(top) \subseteq Known BY DEF ActiveSet, Promoted
    <2>2. v \in Reporting(ck, top) BY <1>2 DEF Reporting, Key
    <2>3. \A w \in Reporting(ck, top) : w = v BY <1>2, <2>1 DEF KeysInv, Reporting, Key
    <2>4. LastReporting(ck, pow, top) = v BY <2>2, <2>3 DEF LastReporting
    <2> QED BY <2>2, <2>4 DEF EpochUpdates
  <1> QED BY <1>1, <1>2

\* end_epoch reports every validator that is, becomes or stops being Active.
LEMMA TmEndEpochBlock ==
  ASSUME TypeOK, KeysInv, TmInv, EndEpochBlock PROVE TmInv'
  <1> DEFINE delta == DelegationDelta
             tokens == SupplyAfter(delta)
             pow == PowerAfter(tokens)
             top == TopValidators(pow)
             U == EpochUpdates(pow, top)
  <1>1. CASE Halt BY <1>1, TmHalt DEF Halt
  <1>2. CASE ~Halt
    <2>1. /\ EndEpochSucceeds(delta, tokens, pow, top)
          /\ EndEpoch(delta, tokens, pow, top)
          /\ phase = "block" /\ phase' = "ended"
          /\ UNCHANGED <<validator_list, definition, rekeyed>>
      BY <1>2 DEF EndEpochBlock
    <2>2. pow = PowerAfter(tokens) /\ top = TopValidators(pow) OBVIOUS
    <2> HIDE DEF delta, tokens, pow, top
    <2>3. top \subseteq Known /\ \A v \in Known : pow[v] \in Nat BY <2>1, <2>2, EndEpochValues
    <2>4. tm_updates' = U /\ tm' = Applied(U) BY <2>1 DEF EndEpoch
    <2>5. \A ck \in ConsensusKeys \ rekeyed :
            /\ Reporting(ck, top) = {} => U[ck] = tm_updates[ck]
            /\ \A v \in ActiveSet \union Promoted(top) : Key(v) = ck => U[ck] = IF v \in top THEN pow[v] ELSE 0
      BY <2>3, EpochReports
    <2> HIDE DEF U
    <2>6. Applied(tm_updates)' = Applied(U) /\ UpdatesInv'
      BY <2>1, <2>4, AppliedTwice DEF UpdatesInv
    <2>7. Known' = Known BY <2>1 DEF Known
    <2>8. \A v \in Known : /\ state'[v] = StateAfter(v, top)
                           /\ power'[v] = IF v \in Displaced(top) THEN 0 ELSE pow[v]
                           /\ Key(v)' = Key(v)
      BY <2>1, KnownType DEF EndEpoch, Key
    <2>9. ActiveSet \subseteq Known /\ Promoted(top) \subseteq top BY DEF ActiveSet, Promoted
    <2>10. ActiveSet' = (ActiveSet \union Promoted(top)) \intersect top
      <3>1. ASSUME NEW v \in Known
            PROVE  StateAfter(v, top) = Active <=> v \in (ActiveSet \union Promoted(top)) \intersect top
        BY <2>9 DEF StateAfter, Displaced, Expired, ActiveSet, IsUnbonding, Unbonding, Active, Inactive
      <3> QED BY <2>3, <2>7, <2>8, <3>1 DEF ActiveSet
    <2>11. ASSUME NEW ck \in ConsensusKeys \ rekeyed, NEW v \in ActiveSet', Key(v)' = ck
           PROVE  Applied(U)[ck] = power'[v]
      <3>1. v \in ActiveSet \union Promoted(top) /\ v \in top /\ v \in Known BY <2>3, <2>10
      <3>2. Key(v) = ck /\ power'[v] = pow[v] BY <2>8, <2>11, <3>1 DEF Displaced
      <3>3. U[ck] = pow[v] /\ pow[v] \in Nat BY <2>3, <2>5, <3>1, <3>2
      <3>4. U[ck] # NoUpdate BY <3>3 DEF NoUpdate
      <3> QED BY <3>2, <3>3, <3>4 DEF Applied
    <2>12. ASSUME NEW ck \in ConsensusKeys \ rekeyed, \A v \in ActiveSet' : Key(v)' # ck PROVE Applied(U)[ck] = 0
      <3>1. CASE Reporting(ck, top) = {}
        <4>1. \A v \in ActiveSet : Key(v) # ck BY <3>1 DEF Reporting, Key
        <4>2. Applied(tm_updates)[ck] = 0 BY <2>1, <4>1 DEF TmInv, TmFollows
        <4> QED BY <2>5, <3>1, <4>2 DEF Applied
      <3>2. CASE Reporting(ck, top) # {}
        <4>1. PICK v \in ActiveSet \union Promoted(top) : Key(v) = ck BY <3>2 DEF Reporting, Key
        <4>2. v \in Known BY <2>3, <2>9, <4>1
        <4>3. v \notin top BY <2>8, <2>10, <2>12, <4>1, <4>2
        <4>4. U[ck] = 0 BY <2>5, <4>1, <4>3
        <4> QED BY <4>4 DEF Applied, NoUpdate
      <3> QED BY <3>1, <3>2
    <2>13. TmFollows' BY <2>1, <2>6, <2>11, <2>12 DEF TmFollows
    <2> QED BY <2>6, <2>13 DEF TmInv
  <1> QED BY <1>1, <1>2

\* Every step keeps Tendermint's set in step.
LEMMA TmNext == TypeOK /\ TypeOK' /\ KeysInv /\ TmInv /\ [Next]_vars => TmInv'
  <1> SUFFICES ASSUME TypeOK, TypeOK', KeysInv, TmInv, [Next]_vars PROVE TmInv' OBVIOUS
  <1>1. ASSUME NEW signers, BeginBlock(signers) PROVE TmInv' BY <1>1, TmBeginBlock
  <1>2. CASE Fails BY <1>2, FailsHalts, TmHalt DEF Halt
  <1>3. ASSUME NEW tx \in Txs, DeliverTx(tx) PROVE TmInv' BY <1>3, TmDeliverTx
  <1>4. CASE EndOrdinaryBlock BY <1>4, TmEndOrdinaryBlock
  <1>5. CASE EndEpochBlock BY <1>5, TmEndEpochBlock
  <1>6. CASE Commit BY <1>6, TmCommit
  <1>7. CASE UNCHANGED vars
    <2>1. UNCHANGED <<phase, validators, tm_updates, tm, rekeyed>> BY <1>7 DEF vars, chain, tendermint
    <2>2. CASE phase = "halted" BY <2>1, <2>2, TmHalt
    <2>3. CASE phase # "halted"
      <3>1. UpdatesInv' /\ Applied(tm_updates)' = Applied(tm_updates) BY <2>1, <2>3 DEF TmInv, UpdatesInv, Applied
      <3> QED BY <2>1, <2>3, <3>1, TmUnchanged
    <2> QED BY <2>2, <2>3
  <1> QED BY <1>1, <1>2, <1>3, <1>4, <1>5, <1>6, <1>7 DEF Next, Fails

\* Tendermint's set is that of the Active validators with their power, through
\* slashing, displacement, return and epochs, for any validators, definitions
\* and other transactions: except under the keys that definitions have moved
\* from one validator to another or given to two.  A validator that changes its
\* key does not disturb the others.
THEOREM TmFollowsActive == Spec => []TmTracksActive
  <1>1. Init => TypeOK /\ KeysInv /\ TmInv BY InitType, TmInit
  <1>2. TypeOK /\ KeysInv /\ TmInv /\ [Next]_vars => TypeOK' /\ KeysInv' /\ TmInv'
    BY NextType, KeysNext, TmNext
  <1>3. TmInv => TmTracksActive BY TmImplies
  <1> QED BY <1>1, <1>2, <1>3, PTL DEF Spec

\* The strengthening: an Active validator has power, and a key that the block
\* has removed so far was a member.
Settled == ConsensusKeys \ (rekeyed \union UnstakedKeys)
PowerInv ==
  phase # "halted" =>
    /\ \A v \in ActiveSet : Key(v) \in Settled => power[v] > 0
    /\ phase = "block" => \A ck \in Settled : tm_updates[ck] = 0 => tm[ck] > 0

\* What a step that ends a block may remove.
RemovesMembers == phase' = "ended" => \A ck \in Settled : tm_updates'[ck] = 0 => tm[ck] > 0

\* Genesis validators have power, or their keys are left out.
LEMMA PowerInit == TypeOK /\ Init => PowerInv
  <1> SUFFICES ASSUME TypeOK, Init PROVE PowerInv OBVIOUS
  <1>1. ASSUME NEW v \in ActiveSet, Key(v) \in Settled PROVE power[v] > 0
    <2>1. v \in GenesisKeys /\ v \in IdentityKeys BY GenesisKeysDiffer DEF ActiveSet
    <2>2. Key(v) = GenesisDefinition(v).consensus_key /\ power[v] = GenesisPower(v) BY <2>1, GenesisKeysDiffer
    <2>3. GenesisPower(v) # 0 BY <1>1, <2>1, <2>2 DEF Settled, UnstakedKeys
    <2>4. power[v] \in Nat BY <2>1 DEF TypeOK
    <2> QED BY <2>2, <2>3, <2>4
  <1> QED BY <1>1 DEF PowerInv, Init

\* A validator slashed in this block was a member with power.
LEMMA PowerBeginBlock ==
  ASSUME TypeOK, TmInv, PowerInv, NEW signers, BeginBlock(signers)
  PROVE  PowerInv' /\ RemovesMembers
  <1> DEFINE down == Down(signers)
  <1>1. CASE Halt BY <1>1 DEF Halt, PowerInv, RemovesMembers
  <1>2. CASE ~Halt
    <2>1. /\ TrackUptime(signers, down) /\ phase = "committed" /\ phase' = "block"
          /\ UNCHANGED <<validator_list, definition, power, tm, rekeyed>>
      BY <1>2 DEF BeginBlock
    <2>2. down \subseteq ActiveSet BY DEF Down
    <2> HIDE DEF down
    <2>3. Known' = Known BY <2>1 DEF Known
    <2>4. ActiveSet' \subseteq ActiveSet
      BY <2>1, <2>3, KnownType DEF ActiveSet, TrackUptime, Active, Slashed
    <2>5. TmFollows /\ tm_updates = NoUpdates BY <2>1 DEF TmInv, UpdatesInv
    <2>6. ASSUME NEW ck \in Settled, tm_updates'[ck] = 0 PROVE tm[ck] > 0
      <3>0. ck \in ConsensusKeys \ rekeyed BY DEF Settled
      <3>1. tm_updates[ck] = NoUpdate BY <2>5, <3>0 DEF NoUpdates
      <3>2. PICK v \in down : Key(v) = ck BY <2>1, <2>6, <3>0, <3>1 DEF TrackUptime, Key, NoUpdate
      <3>3. Applied(tm_updates)[ck] = power[v] BY <2>2, <2>5, <3>0, <3>2 DEF TmFollows
      <3>4. Applied(tm_updates)[ck] = tm[ck] BY <3>0, <3>1 DEF Applied
      <3>5. power[v] > 0 BY <2>1, <2>2, <3>2 DEF PowerInv
      <3> QED BY <3>3, <3>4, <3>5
    <2>7. Settled' = Settled /\ \A v \in ActiveSet : Key(v)' = Key(v) BY <2>1 DEF Settled, Key
    <2> QED BY <2>1, <2>4, <2>6, <2>7 DEF PowerInv, RemovesMembers
  <1> QED BY <1>1, <1>2

\* A transaction removes nothing.
LEMMA PowerDeliverTx ==
  ASSUME TypeOK, TypeOK', PowerInv, NEW tx \in Txs, DeliverTx(tx) PROVE PowerInv' /\ RemovesMembers
  <1>1. validator_list' = ListAfter(tx) BY DEF DeliverTx
  <1>2. Known' = Known \union {v \in IdentityKeys : Defined(tx, v) # {}} BY <1>1, ListAfterType
  <1>3. \A v \in Known : state'[v] = state[v] /\ power'[v] = power[v]
    BY KnownType DEF DeliverTx, IsNew
  <1>4. \A v \in Known' : v \in Known \/ state'[v] = Inactive BY <1>2 DEF DeliverTx, IsNew
  <1>5. \A v \in ActiveSet' : v \in ActiveSet /\ v \in Known BY <1>3, <1>4 DEF ActiveSet, Active, Inactive
  <1>6. phase = "block" /\ UNCHANGED <<phase, tm_updates, tm>> BY DEF DeliverTx
  <1>7. /\ Settled' \subseteq Settled
        /\ \A v \in ActiveSet : Key(v)' \in Settled' => Key(v) \in Settled
    <2>1. rekeyed \subseteq rekeyed' BY KeysDeliverTx
    <2>2. \A v \in ActiveSet : Key(v)' # Key(v) => Key(v)' \in rekeyed' BY KeysDeliverTx DEF ActiveSet
    <2> QED BY <2>1, <2>2 DEF Settled
  <1> QED BY <1>3, <1>5, <1>6, <1>7 DEF PowerInv, RemovesMembers

\* A displaced validator was a member, and nobody in the top has power 0.
LEMMA PowerEndEpochBlock ==
  ASSUME TypeOK, KeysInv, TmInv, PowerInv, EndEpochBlock PROVE PowerInv' /\ RemovesMembers
  <1> DEFINE delta == DelegationDelta
             tokens == SupplyAfter(delta)
             pow == PowerAfter(tokens)
             top == TopValidators(pow)
             U == EpochUpdates(pow, top)
  <1>1. CASE Halt BY <1>1 DEF Halt, PowerInv, RemovesMembers
  <1>2. CASE ~Halt
    <2>1. /\ EndEpochSucceeds(delta, tokens, pow, top)
          /\ EndEpoch(delta, tokens, pow, top)
          /\ phase = "block" /\ phase' = "ended"
          /\ UNCHANGED <<validator_list, definition, rekeyed>>
      BY <1>2 DEF EndEpochBlock
    <2>2. pow = PowerAfter(tokens) /\ top = TopValidators(pow) OBVIOUS
    <2> HIDE DEF delta, tokens, pow, top
    <2>3. top \subseteq Known /\ \A v \in top : pow[v] > 0 BY <2>2 DEF TopValidators
    <2>4. tm_updates' = U BY <2>1 DEF EndEpoch
    <2>5. \A ck \in ConsensusKeys \ rekeyed :
            /\ Reporting(ck, top) = {} => U[ck] = tm_updates[ck]
            /\ \A v \in ActiveSet \union Promoted(top) : Key(v) = ck => U[ck] = IF v \in top THEN pow[v] ELSE 0
      BY <2>3, EpochReports
    <2> HIDE DEF U
    <2>6. Known' = Known BY <2>1 DEF Known
    <2>7. ASSUME NEW v \in ActiveSet' PROVE power'[v] > 0
      <3>1. v \in Known /\ v \in IdentityKeys BY <2>6, KnownType DEF ActiveSet
      <3>2. StateAfter(v, top) = Active BY <2>1, <3>1 DEF ActiveSet, EndEpoch
      <3>3. v \in top /\ v \notin Displaced(top)
        BY <3>1, <3>2 DEF StateAfter, Promoted, Displaced, Expired, ActiveSet, IsUnbonding, Unbonding, Active, Inactive
      <3>4. power'[v] = pow[v] BY <2>1, <3>1, <3>3 DEF EndEpoch
      <3> QED BY <2>3, <3>3, <3>4
    <2>8. ASSUME NEW ck \in Settled, U[ck] = 0 PROVE tm[ck] > 0
      <3>0. ck \in ConsensusKeys \ rekeyed BY DEF Settled
      <3>1. CASE Reporting(ck, top) = {}
        BY <2>1, <2>5, <2>8, <3>0, <3>1 DEF PowerInv
      <3>2. CASE Reporting(ck, top) # {}
        <4>1. PICK v \in ActiveSet \union Promoted(top) : Key(v) = ck BY <3>2 DEF Reporting, Key
        <4>2. v \notin top BY <2>3, <2>5, <2>8, <3>0, <4>1
        <4>3. v \in ActiveSet BY <4>1, <4>2 DEF Promoted
        <4>4. Applied(tm_updates)[ck] = power[v] /\ power[v] > 0
          BY <2>1, <3>0, <4>1, <4>3 DEF TmInv, TmFollows, PowerInv
        <4>5. tm_updates[ck] \in {NoUpdate, 0} BY <2>1, <3>0 DEF TmInv, UpdatesInv
        <4>6. tm_updates[ck] # 0 BY <3>0, <4>4 DEF Applied, NoUpdate
        <4> QED BY <3>0, <4>4, <4>5, <4>6 DEF Applied
      <3> QED BY <3>1, <3>2
    <2>9. Settled' = Settled BY <2>1 DEF Settled
    <2> QED BY <2>1, <2>4, <2>7, <2>8, <2>9 DEF PowerInv, RemovesMembers
  <1> QED BY <1>1, <1>2

\* Every step removes members only.
LEMMA PowerNext ==
  TypeOK /\ TypeOK' /\ KeysInv /\ TmInv /\ PowerInv /\ [Next]_vars => PowerInv' /\ [RemovesMembers]_vars
  <1> SUFFICES ASSUME TypeOK, TypeOK', KeysInv, TmInv, PowerInv, [Next]_vars
               PROVE  PowerInv' /\ [RemovesMembers]_vars
    OBVIOUS
  <1>1. ASSUME NEW signers, BeginBlock(signers) PROVE PowerInv' /\ RemovesMembers BY <1>1, PowerBeginBlock
  <1>2. CASE Fails BY <1>2, FailsHalts DEF Halt, PowerInv, RemovesMembers
  <1>3. ASSUME NEW tx \in Txs, DeliverTx(tx) PROVE PowerInv' /\ RemovesMembers BY <1>3, PowerDeliverTx
  <1>4. CASE EndOrdinaryBlock
    <2>1. phase = "block" /\ phase' = "ended" /\ UNCHANGED <<validators, tm_updates, rekeyed>>
      BY <1>4 DEF EndOrdinaryBlock
    <2>2. PowerInv' BY <2>1 DEF PowerInv, Settled, Key, ActiveSet, Known, validators
    <2>3. RemovesMembers BY <2>1 DEF PowerInv, RemovesMembers
    <2> QED BY <2>2, <2>3
  <1>5. CASE EndEpochBlock BY <1>5, PowerEndEpochBlock
  <1>6. CASE Commit
    <2>1. phase = "ended" /\ phase' = "committed" /\ UNCHANGED <<validators, rekeyed>> BY <1>6 DEF Commit
    <2> QED BY <2>1 DEF PowerInv, Settled, Key, ActiveSet, Known, validators, RemovesMembers
  <1>7. CASE UNCHANGED vars
    <2>1. UNCHANGED <<phase, validators, tm_updates, tm, rekeyed>> BY <1>7 DEF vars, chain, tendermint
    <2>2. PowerInv' BY <2>1 DEF PowerInv, Settled, Key, ActiveSet, Known, validators
    <2> QED BY <1>7, <2>2
  <1> QED BY <1>1, <1>2, <1>3, <1>4, <1>5, <1>6, <1>7 DEF Next, Fails

\* An update that removes a key from Tendermint's set names a member of it, for
\* any validators, definitions and other transactions: Tendermint has to reject
\* a block's updates only because of keys that definitions have moved or shared,
\* or of genesis validators without stake.
THEOREM RemovalsAreOfMembers == Spec => RemovalsNameMembers
  <1> DEFINE Inv == TypeOK /\ KeysInv /\ TmInv /\ PowerInv
  <1>1. Init => Inv BY InitType, TmInit, PowerInit
  <1>2. Inv /\ [Next]_vars => Inv' /\ [RemovesMembers]_vars
    BY NextType, KeysNext, TmNext, PowerNext
  <1>3. [RemovesMembers]_vars =>
          [phase' = "ended" => \A ck \in ConsensusKeys \ (rekeyed \union UnstakedKeys) :
                                 tm_updates'[ck] = 0 => tm[ck] > 0]_vars
    BY DEF RemovesMembers, Settled
  <1> QED BY <1>1, <1>2, <1>3, PTL DEF Spec, RemovalsNameMembers

-----------------------------------------------------------------------------
(* When the chain halts                                                    *)

\* Every block up to the last one that ended has its changes recorded, so that
\* end_epoch finds the changes of each height of the epoch.
HeightsInv ==
  phase # "halted" => \A h \in Nat : h < height \/ (h = height /\ phase # "block") => h \in DOMAIN changes

\* No notes are spent that are not there.
NotesInv ==
  phase # "halted" => circulating \in Nat /\ circulating_delegation \in [IdentityKeys -> Nat]

\* No validator takes more than the whole reward.
LawfulInv == \A v \in Known : definition[v].rate_bps <= Bps

\* Recording is never skipped: a height is begun after the one before it ended.
LEMMA HeightsNext == TypeOK /\ HeightsInv /\ [Next]_vars => HeightsInv'
  <1> SUFFICES ASSUME TypeOK, HeightsInv, [Next]_vars PROVE HeightsInv' OBVIOUS
  <1>0. height \in Nat BY TypeHeight
  <1>1. ASSUME NEW signers, BeginBlock(signers) PROVE HeightsInv'
    <2>1. CASE Halt BY <2>1 DEF Halt, HeightsInv
    <2>2. CASE ~Halt
      <3>1. phase = "committed" /\ phase' = "block" /\ height' = height + 1 /\ UNCHANGED changes
        BY <1>1, <2>2 DEF BeginBlock, queue
      <3>2. \A h \in Nat : h <= height => h \in DOMAIN changes BY <1>0, <3>1 DEF HeightsInv
      <3> QED BY <1>0, <3>1, <3>2 DEF HeightsInv
    <2> QED BY <2>1, <2>2
  <1>2. CASE Fails BY <1>2, FailsHalts DEF Halt, HeightsInv
  <1>3. ASSUME NEW tx \in Txs, DeliverTx(tx) PROVE HeightsInv'
    BY <1>3 DEF DeliverTx, HeightsInv
  <1>4. ASSUME phase = "block", phase' = "ended", height' = height, changes' = ChangesAfter PROVE HeightsInv'
    BY <1>0, <1>4 DEF ChangesAfter, HeightsInv
  <1>5. CASE EndOrdinaryBlock BY <1>4, <1>5 DEF EndOrdinaryBlock
  <1>6. CASE EndEpochBlock
    <2>1. CASE Halt BY <2>1 DEF Halt, HeightsInv
    <2>2. CASE ~Halt BY <1>4, <1>6, <2>2 DEF EndEpochBlock
    <2> QED BY <2>1, <2>2
  <1>7. CASE Commit BY <1>7 DEF Commit, HeightsInv
  <1>8. CASE UNCHANGED vars BY <1>8 DEF vars, chain, queue, HeightsInv
  <1> QED BY <1>1, <1>2, <1>3, <1>5, <1>6, <1>7, <1>8 DEF Next, Fails

\* Hence the changes of every height of the epoch are there when it ends.
LEMMA EpochRecorded ==
  ASSUME TypeOK, HeightsInv, phase = "block", IsEpochEnd(height)
  PROVE  EpochHeights \subseteq DOMAIN ChangesAfter
  <1> DEFINE e == EpochOf(height)
  <1>1. height \in Nat /\ e \in Nat BY TypeHeight, EpochStep
  <1>2. StartHeight(e) \in Nat BY <1>1, EpochInterval
  <1>3. EndHeight(e) = height BY DEF IsEpochEnd
  <1>4. EpochHeights = StartHeight(e) .. height BY <1>3 DEF EpochHeights
  <1> HIDE DEF e
  <1>5. ASSUME NEW h \in EpochHeights PROVE h \in DOMAIN ChangesAfter
    <2>1. h \in Nat /\ h <= height BY <1>1, <1>2, <1>4
    <2>2. h = height \/ h < height BY <1>1, <2>1
    <2> QED BY <2>1, <2>2 DEF HeightsInv, ChangesAfter
  <1> QED BY <1>5

\* Definitions above the whole reward are refused (check_tx_stateless).
LEMMA LawfulNext == TypeOK /\ LawfulInv /\ [Next]_vars => LawfulInv'
  <1> SUFFICES ASSUME TypeOK, LawfulInv, [Next]_vars PROVE LawfulInv' OBVIOUS
  <1>1. ASSUME UNCHANGED <<validator_list, definition>> PROVE LawfulInv'
    BY <1>1 DEF LawfulInv, Known
  <1>2. ASSUME NEW signers, BeginBlock(signers) PROVE LawfulInv'
    BY <1>1, <1>2 DEF BeginBlock, Halt, validators
  <1>3. CASE Fails BY <1>1, <1>3, FailsHalts DEF Halt, validators
  <1>4. ASSUME NEW tx \in Txs, DeliverTx(tx) PROVE LawfulInv'
    <2>1. validator_list' = ListAfter(tx) BY <1>4 DEF DeliverTx
    <2>2. Known' = Known \union {v \in IdentityKeys : Defined(tx, v) # {}} BY <2>1, ListAfterType
    <2>3. ASSUME NEW v \in Known' PROVE definition'[v].rate_bps <= Bps
      <3>1. v \in IdentityKeys BY <2>2, KnownType
      <3>2. definition'[v] = IF Defined(tx, v) # {} THEN Latest(tx, v) ELSE definition[v]
        BY <1>4, <3>1 DEF DeliverTx
      <3>3. CASE Defined(tx, v) # {}
        <4>1. PICK i \in DOMAIN tx.definitions : Latest(tx, v) = tx.definitions[i] BY <3>1, <3>3, LatestIs
        <4> QED BY <1>4, <3>2, <3>3, <4>1 DEF DeliverTx, CheckTxStateless
      <3>4. CASE Defined(tx, v) = {} BY <2>2, <3>2, <3>4 DEF LawfulInv
      <3> QED BY <3>3, <3>4
    <2> QED BY <2>3 DEF LawfulInv
  <1>5. CASE EndOrdinaryBlock BY <1>1, <1>5 DEF EndOrdinaryBlock, validators
  <1>6. CASE EndEpochBlock BY <1>1, <1>6 DEF EndEpochBlock, Halt, validators
  <1>7. CASE Commit BY <1>1, <1>7 DEF Commit, validators
  <1>8. CASE UNCHANGED vars BY <1>1, <1>8 DEF vars, validators
  <1> QED BY <1>2, <1>3, <1>4, <1>5, <1>6, <1>7, <1>8 DEF Next, Fails

\* Genesis: what the hypothesis on it gives.
LEMMA LawfulInit == ASSUME GenesisLawful PROVE Init => LawfulInv
  <1> SUFFICES ASSUME Init, NEW v \in Known PROVE definition[v].rate_bps <= Bps BY DEF LawfulInv
  <1>1. v \in GenesisKeys /\ v \in IdentityKeys BY InitType, KnownType DEF Init, Known, GenesisKeys
  <1>2. definition[v] = GenesisDefinition(v) BY <1>1 DEF Init
  <1>3. PICK i \in DOMAIN GenesisValidators : GenesisDefinition(v) = GenesisValidators[i]
    BY <1>1 DEF GenesisKeys, GenesisDefinition
  <1> QED BY <1>2, <1>3 DEF GenesisLawful

\* Transactions balance and commission is not negative.
LEMMA NotesNext == TypeOK /\ NotesInv /\ ChangesInv' /\ CoverInv' /\ [Next]_vars => NotesInv'
  <1> SUFFICES ASSUME TypeOK, NotesInv, ChangesInv', CoverInv', [Next]_vars PROVE NotesInv' OBVIOUS
  <1>1. ASSUME phase # "halted", UNCHANGED notes PROVE NotesInv'
    BY <1>1 DEF NotesInv, notes
  <1>2. ASSUME phase' = "halted" PROVE NotesInv' BY <1>2 DEF NotesInv
  <1>3. ASSUME NEW signers, BeginBlock(signers) PROVE NotesInv'
    BY <1>1, <1>2, <1>3 DEF BeginBlock, Halt
  <1>4. CASE Fails BY <1>2, <1>4, FailsHalts DEF Halt
  <1>5. ASSUME NEW tx \in Txs, DeliverTx(tx) PROVE NotesInv'
    <2>1. /\ phase' = "block" /\ Balanced(tx)
          /\ circulating' = StakeAfter(tx)
          /\ circulating_delegation' = [v \in IdentityKeys |-> DelegationAfter(tx, v)]
      BY <1>5 DEF DeliverTx
    <2>2. circulating' \in Int /\ circulating_delegation' \in [IdentityKeys -> Int]
      BY <2>1 DEF ChangesInv, CoverInv
    <2>3. circulating' >= 0 /\ \A v \in IdentityKeys : circulating_delegation'[v] >= 0 BY <2>1 DEF Balanced
    <2>4. \A v \in IdentityKeys : circulating_delegation'[v] \in Nat BY <2>2, <2>3
    <2> QED BY <2>2, <2>3, <2>4 DEF NotesInv
  <1>6. CASE EndOrdinaryBlock BY <1>1, <1>6 DEF EndOrdinaryBlock
  <1>7. CASE EndEpochBlock
    <2> DEFINE delta == DelegationDelta
               tokens == SupplyAfter(delta)
               pow == PowerAfter(tokens)
               top == TopValidators(pow)
    <2>1. CASE Halt BY <1>2, <2>1 DEF Halt
    <2>2. CASE ~Halt
      <3>1. /\ EndEpochSucceeds(delta, tokens, pow, top)
            /\ EndEpoch(delta, tokens, pow, top)
            /\ phase = "block" /\ UNCHANGED circulating_delegation
        BY <1>7, <2>2 DEF EndEpochBlock
      <3>2. pow = PowerAfter(tokens) /\ top = TopValidators(pow) OBVIOUS
      <3> HIDE DEF delta, tokens, pow, top
      <3>3. \A v \in Known : tokens[v] \in Nat BY <3>1, ScaleType DEF EndEpochSucceeds
      <3>4. TotalCommission(tokens) \in Nat BY <3>3, CommissionType
      <3>5. circulating' = circulating + TotalCommission(tokens) BY <3>1 DEF EndEpoch
      <3> QED BY <3>1, <3>4, <3>5 DEF NotesInv
    <2> QED BY <2>1, <2>2
  <1>8. CASE Commit BY <1>1, <1>8 DEF Commit
  <1>9. CASE UNCHANGED vars
    <2>1. UNCHANGED <<phase, notes>> BY <1>9 DEF vars, chain
    <2> QED BY <1>1, <1>2, <2>1
  <1> QED BY <1>3, <1>4, <1>5, <1>6, <1>7, <1>8, <1>9 DEF Next, Fails

\* What end_epoch computes at the end of an epoch: the tokens of each pool, the
\* validators that go on, and the stake released by the pools that shrink.
EpochTokens == SupplyAfter(DelegationDelta)
EpochTop == TopValidators(PowerAfter(EpochTokens))
Redeemed ==
  SumFunction([v \in Known |-> IF DelegationDelta[v] < 0 THEN StakingDelta(v, DelegationDelta) ELSE 0])

\* No amount of end_epoch outgrows its integer type.
NumbersFit ==
  /\ \A v \in Known : EpochTokens[v] < U64 /\ PowerAfter(EpochTokens)[v] <= MaxVotingPower
  /\ \A i \in DOMAIN validator_list : StakeSupplyAfter(DelegationDelta)[i] < U64
  /\ StakeSupplyAfter(DelegationDelta)[Len(validator_list)] + TotalCommission(EpochTokens) < U64

\* The loop of end_epoch takes more from the staking-token supply than it has
\* reached so far.
SupplyUnderflows == \E i \in DOMAIN validator_list : StakeSupplyAfter(DelegationDelta)[i] < 0

\* Nobody is slashed, and users hold what the pools that shrink have released.
SupplySafe == (\A v \in Known : state[v] # Slashed) /\ Redeemed <= circulating

\* Why a block can fail: evidence of misbehaviour; a delegation or undelegation
\* whose check panics; or, at the end of an epoch, a base rate of 0, a number that is too
\* large, a supply that goes below 0 although the total need not, or a validator
\* that is made Active when its unbonding ends.
HaltCause ==
  \/ phase = "committed" /\ EvidenceArrives
  \/ phase = "block" /\ \E tx \in Txs : CheckTxStateless(tx) /\ CheckTxPanics(tx)
  \/ /\ phase = "block" /\ IsEpochEnd(height)
     /\ \/ next_base_rate.base_exchange_rate = 0
        \/ ~NumbersFit
        \/ SupplyUnderflows /\ ~SupplySafe
        \/ TransitionFails(EpochTop)

\* A pool that grows takes from the supply, one that shrinks gives.
LEMMA StakingDeltaType ==
  ASSUME TypeOK, NEW v \in IdentityKeys, NEW delta, delta[v] \in Int
  PROVE  /\ StakingDelta(v, delta) \in Int
         /\ IF delta[v] < 0 THEN StakingDelta(v, delta) \in Nat ELSE StakingDelta(v, delta) <= 0
  <1> DEFINE x == next_rate[v].validator_exchange_rate
             o == delta[v]
             a == IF o < 0 THEN -o ELSE o
             m == a * x
             s == m \div Scale
  <1>1. x \in Nat BY DEF TypeOK, RateData
  <1>2. StakingDelta(v, delta) = IF o >= 0 THEN -s ELSE s BY DEF StakingDelta, UnbondedAmount
  <1>3. o \in Int /\ a \in Nat OBVIOUS
  <1> HIDE DEF x, o, a
  <1>4. m \in Nat BY <1>1, <1>3
  <1> HIDE DEF m
  <1>5. s \in Nat BY <1>4, ScaleType, DivType
  <1> HIDE DEF s
  <1>6. /\ StakingDelta(v, delta) \in Int
        /\ IF o < 0 THEN StakingDelta(v, delta) \in Nat ELSE StakingDelta(v, delta) <= 0
    BY <1>2, <1>3, <1>5
  <1> QED BY <1>6 DEF o

\* The supply after each iteration is an integer.
LEMMA PrefixType ==
  ASSUME TypeOK, ListedOnce, NEW delta, \A v \in Known : delta[v] \in Int, NEW k \in 0 .. Len(validator_list)
  PROVE  StakeSupplyAfter(delta)[k] \in Int
  <1> DEFINE sd == [v \in Known |-> StakingDelta(v, delta)]
             P == {validator_list[i] : i \in 1 .. k}
  <1>1. IsFiniteSet(Known) /\ Known \subseteq IdentityKeys BY KnownFinite, KnownType
  <1>2. \A v \in Known : StakingDelta(v, delta) \in Int BY <1>1, StakingDeltaType
  <1>3. DOMAIN validator_list = 1 .. Len(validator_list) /\ Len(validator_list) \in Nat BY DEF TypeOK
  <1>4. 1 .. k \subseteq 1 .. Len(validator_list) BY <1>3
  <1>5. P \subseteq Known BY <1>3, <1>4 DEF Known
  <1>6. StakeSupplyAfter(delta)[k] = stake_supply + SumFunctionOnSet(sd, P) BY <1>2, StakeSupplyPrefix
  <1>7. \A v \in P : sd[v] \in Int BY <1>2, <1>5
  <1>8. IsFiniteSet(P) BY <1>1, <1>5, FS_Subset
  <1> HIDE DEF sd, P
  <1>9. SumFunctionOnSet(sd, P) \in Int BY <1>7, <1>8, SumType
  <1>10. stake_supply \in Nat BY DEF TypeOK
  <1> QED BY <1>6, <1>9, <1>10

\* The supply that is left after each iteration: what the rest of the list
\* gives is at most what the pools that shrink release, and users hold that.
LEMMA NoUnderflow ==
  ASSUME TypeOK, SupplyInv, CoverInv, phase = "block", EpochHeights \subseteq DOMAIN ChangesAfter,
         SupplySafe, NEW k \in 0 .. Len(validator_list)
  PROVE  StakeSupplyAfter(DelegationDelta)[k] >= 0
  <1> DEFINE delta == DelegationDelta
             n == Len(validator_list)
             sd == [v \in Known |-> StakingDelta(v, delta)]
             red == [v \in Known |-> IF delta[v] < 0 THEN StakingDelta(v, delta) ELSE 0]
             P == {validator_list[i] : i \in 1 .. k}
             R == Known \ P
  <1>1. IsFiniteSet(Known) /\ Known \subseteq IdentityKeys BY KnownFinite, KnownType
  <1>2. \A v \in Known : delta[v] \in Int BY <1>1, DeltaIsOutstanding
  <1>3. /\ SumFunctionOnSet(sd, Known) \in Int
        /\ circulating <= stake_supply + SumFunctionOnSet(sd, Known)
    BY EpochCovered DEF SupplySafe
  <1>4. Redeemed = SumFunctionOnSet(red, Known) BY DEF Redeemed, SumFunction
  <1> HIDE DEF delta
  <1>5. \A v \in Known : /\ StakingDelta(v, delta) \in Int
                        /\ IF delta[v] < 0 THEN StakingDelta(v, delta) \in Nat ELSE StakingDelta(v, delta) <= 0
    BY <1>1, <1>2, StakingDeltaType
  <1>6. StakeSupplyAfter(delta)[k] = stake_supply + SumFunctionOnSet(sd, P)
    BY <1>5, StakeSupplyPrefix DEF CoverInv
  <1>7. DOMAIN validator_list = 1 .. n /\ n \in Nat BY DEF TypeOK
  <1>8. 1 .. k \subseteq 1 .. n BY <1>7
  <1>9. P \subseteq Known BY <1>7, <1>8 DEF Known
  <1>10. R \subseteq Known /\ P \intersect R = {} /\ P \union R = Known BY <1>9
  <1>11. IsFiniteSet(P) /\ IsFiniteSet(R) BY <1>1, <1>9, <1>10, FS_Subset
  <1>12. \A v \in Known : sd[v] \in Int /\ red[v] \in Nat /\ sd[v] <= red[v]
    <2> SUFFICES ASSUME NEW v \in Known PROVE sd[v] \in Int /\ red[v] \in Nat /\ sd[v] <= red[v] OBVIOUS
    <2>1. sd[v] = StakingDelta(v, delta) /\ red[v] = IF delta[v] < 0 THEN StakingDelta(v, delta) ELSE 0 OBVIOUS
    <2> HIDE DEF sd, red
    <2> QED BY <1>5, <2>1
  <1> HIDE DEF sd, red, P, R
  <1>13. SumFunctionOnSet(sd, P \union R) = SumFunctionOnSet(sd, P) + SumFunctionOnSet(sd, R)
    <2>1. \A v \in P \union R : sd[v] \in Int BY <1>10, <1>12
    <2> QED BY <1>10, <1>11, <2>1, SumUnion
  <1>14. SumFunctionOnSet(sd, Known) = SumFunctionOnSet(sd, P) + SumFunctionOnSet(sd, R) BY <1>10, <1>13
  <1>15. SumFunctionOnSet(sd, R) <= SumFunctionOnSet(red, Known) BY <1>1, <1>10, <1>12, SumBound
  <1>16. SumFunctionOnSet(sd, P) \in Int /\ SumFunctionOnSet(sd, R) \in Int
    <2>1. (\A v \in P : sd[v] \in Int) /\ (\A v \in R : sd[v] \in Int) BY <1>9, <1>10, <1>12
    <2> QED BY <1>11, <2>1, SumType
  <1>17. SumFunctionOnSet(red, Known) \in Nat
    <2>1. \A v \in Known : red[v] \in Nat BY <1>12
    <2> QED BY <1>1, <2>1, SumType
  <1>18. SumFunctionOnSet(red, Known) <= circulating BY <1>4 DEF SupplySafe
  <1>19. circulating \in Int /\ stake_supply \in Nat BY DEF CoverInv, TypeOK
  <1>20. stake_supply + SumFunctionOnSet(sd, P) >= 0 BY <1>3, <1>14, <1>15, <1>16, <1>17, <1>18, <1>19
  <1> QED BY <1>6, <1>20 DEF delta

\* The invariants that decide the checks of a block.
HaltInv == SupplyCovers /\ RatesInSync /\ UptimeInSync /\ HeightsInv /\ NotesInv /\ LawfulInv

\* Where none of the causes is there, every check of end_epoch succeeds.
LEMMA EndEpochHolds ==
  ASSUME HaltInv, phase = "block", IsEpochEnd(height), ~HaltCause
  PROVE  EndEpochSucceeds(DelegationDelta, EpochTokens, PowerAfter(EpochTokens), EpochTop)
  <1> DEFINE delta == DelegationDelta
             n == Len(validator_list)
             after == StakeSupplyAfter(delta)
             tc == TotalCommission(EpochTokens)
  <1>1. /\ TypeOK /\ SupplyInv /\ CoverInv /\ RatesInSync /\ HeightsInv /\ NotesInv /\ LawfulInv
    BY DEF HaltInv, SupplyCovers
  <1>2. /\ next_base_rate.base_exchange_rate # 0 /\ NumbersFit /\ (SupplyUnderflows => SupplySafe)
        /\ ~TransitionFails(EpochTop)
    BY DEF HaltCause
  <1>3. EpochHeights \subseteq DOMAIN ChangesAfter BY <1>1, EpochRecorded
  <1>4. Known \subseteq IdentityKeys BY <1>1, KnownType
  <1>5. ASSUME NEW v \in Known PROVE delta[v] \in Int /\ EpochTokens[v] \in 0 .. U64 - 1
    <2>1. v \in IdentityKeys BY <1>4
    <2>2. delta[v] = Outstanding(v) /\ delta[v] \in Int BY <1>1, <1>3, <2>1, DeltaIsOutstanding
    <2>3. EpochTokens[v] = supply[v] + delta[v] BY <2>1 DEF EpochTokens, SupplyAfter
    <2>4. circulating_delegation[v] \in Nat /\ supply[v] \in Nat BY <1>1, <2>1 DEF NotesInv, TypeOK
    <2>5. EpochTokens[v] = circulating_delegation[v] BY <2>2, <2>3, <2>4 DEF Outstanding
    <2>6. EpochTokens[v] < U64 BY <1>2 DEF NumbersFit
    <2> QED BY <2>2, <2>4, <2>5, <2>6, ScaleType
  <1>6. ASSUME NEW v \in Known
        PROVE  /\ ~(state[v] = Active /\ CommissionTooHigh(definition[v].rate_bps))
               /\ RateAfter(v).epoch_index = EpochOf(height) + 2
               /\ PowerAfter(EpochTokens)[v] <= MaxVotingPower
    <2>1. definition[v].rate_bps <= Bps BY <1>1 DEF LawfulInv
    <2>2. definition[v].rate_bps \in Nat BY <1>1 DEF TypeOK, Definitions
    <2>3. ~CommissionTooHigh(definition[v].rate_bps) BY <2>1, <2>2, ScaleType DEF CommissionTooHigh
    <2>4. EpochOf(height) \in Nat BY <1>1, TypeHeight, EpochStep
    <2>5. next_rate[v].epoch_index = EpochOf(height) + 1 BY <1>1 DEF RatesInSync, RateEpoch
    <2>6. RateAfter(v).epoch_index = EpochOf(height) + 2 BY <1>1, <2>4, <2>5, RateAfterEpoch
    <2>7. PowerAfter(EpochTokens)[v] <= MaxVotingPower BY <1>2 DEF NumbersFit
    <2> QED BY <2>3, <2>6, <2>7
  <1>7. n \in Nat /\ DOMAIN validator_list = 1 .. n BY <1>1 DEF TypeOK
  <1>8. ListedOnce BY <1>1 DEF CoverInv
  <1>9. \A k \in 0 .. n : after[k] \in Int BY <1>1, <1>5, <1>8, PrefixType
  <1>10. \A k \in 1 .. n : after[k] >= 0
    <2>1. CASE SupplyUnderflows
      <3>1. SupplySafe BY <1>2, <2>1
      <3>2. \A k \in 0 .. n : after[k] >= 0 BY <1>1, <1>3, <3>1, NoUnderflow
      <3> QED BY <1>7, <3>2
    <2>2. CASE ~SupplyUnderflows BY <1>7, <1>9, <2>2 DEF SupplyUnderflows
    <2> QED BY <2>1, <2>2
  <1>11. after[n] >= 0
    <2>1. CASE n = 0
      <3>1. \A v \in Known : StakingDelta(v, delta) \in Int BY <1>1, <1>4, <1>5, StakingDeltaType
      <3>2. Known = {} BY <1>7, <2>1 DEF Known
      <3>3. after[n] = stake_supply + SumFunctionOnSet([v \in Known |-> StakingDelta(v, delta)], Known)
        BY <1>1, <1>8, <3>1, StakeSupplySum
      <3>4. SumFunctionOnSet([v \in Known |-> StakingDelta(v, delta)], Known) = 0 BY <3>2, SumEmpty
      <3>5. stake_supply \in Nat BY <1>1 DEF TypeOK
      <3> QED BY <3>3, <3>4, <3>5
    <2>2. CASE n # 0 BY <1>7, <1>10, <2>2
    <2> QED BY <2>1, <2>2
  <1>12. tc \in Nat
    <2>1. \A v \in Known : EpochTokens[v] \in Nat BY <1>5
    <2> QED BY <1>1, <2>1, CommissionType
  <1>13. /\ \A k \in 1 .. n : after[k] < U64
         /\ after[n] + tc < U64
    BY <1>2, <1>7 DEF NumbersFit
  <1> HIDE DEF n, after, tc
  <1>14. \A k \in 1 .. n : after[k] \in 0 .. U64 - 1 BY <1>7, <1>9, <1>10, <1>13, ScaleType
  <1>15. after[n] + tc \in 0 .. U64 - 1
    <2>1. after[n] \in Int BY <1>7, <1>9
    <2> QED BY <1>11, <1>12, <1>13, <2>1, ScaleType
  <1>16. \A v \in Known :
           /\ ~(state[v] = Active /\ CommissionTooHigh(definition[v].rate_bps))
           /\ RateAfter(v).epoch_index = EpochOf(height) + 2
           /\ EpochTokens[v] \in 0 .. U64 - 1
           /\ PowerAfter(EpochTokens)[v] <= MaxVotingPower
    BY <1>5, <1>6
  <1>17. \A i \in DOMAIN validator_list : StakeSupplyAfter(DelegationDelta)[i] \in 0 .. U64 - 1
    BY <1>7, <1>14 DEF after
  <1>18. StakeSupplyAfter(DelegationDelta)[Len(validator_list)] + TotalCommission(EpochTokens) \in 0 .. U64 - 1
    BY <1>15 DEF after, n, tc
  <1> QED BY <1>2, <1>3, <1>16, <1>17, <1>18 DEF EndEpochSucceeds

\* Genesis satisfies the invariants.
LEMMA HaltInvInit == ASSUME EpochDuration > 1, GenesisLawful PROVE Init => HaltInv
  <1> SUFFICES ASSUME Init PROVE HaltInv OBVIOUS
  <1>1. TypeOK BY InitType
  <1>2. SlashedRateHeld BY <1>1, KnownType DEF Init, SlashedRateHeld, InitialRate
  <1>3. SupplyCovers BY <1>1, <1>2, SupplyInit, CoverInit DEF SupplyCovers
  <1>4. UptimeInSync BY <1>1, KnownType DEF Init, UptimeInSync, ActiveSet, NewUptime
  <1>5. HeightsInv BY DEF Init, HeightsInv
  <1>6. NotesInv BY StakingAssumption DEF Init, NotesInv
  <1> QED BY <1>3, <1>4, <1>5, <1>6, RatesInit, LawfulInit DEF HaltInv

\* Every step keeps them.
LEMMA HaltInvNext == HaltInv /\ [Next]_vars => HaltInv'
  <1> SUFFICES ASSUME HaltInv, [Next]_vars PROVE HaltInv' OBVIOUS
  <1>1. SupplyCovers /\ RatesInSync /\ UptimeInSync /\ HeightsInv /\ NotesInv /\ LawfulInv BY DEF HaltInv
  <1>2. TypeOK BY <1>1 DEF SupplyCovers
  <1>3. SupplyCovers' BY <1>1, CoverNext
  <1>4. ChangesInv' /\ CoverInv' BY <1>3 DEF SupplyCovers, SupplyInv
  <1>5. RatesInSync' /\ UptimeInSync' BY <1>1, <1>2, RatesNext, UptimeNext
  <1>6. HeightsInv' /\ LawfulInv' BY <1>1, <1>2, HeightsNext, LawfulNext
  <1>7. NotesInv' BY <1>1, <1>2, <1>4, NotesNext
  <1> QED BY <1>3, <1>5, <1>6, <1>7 DEF HaltInv

\* What a step that halts the chain must have met.
HaltHasCause == phase # "halted" /\ phase' = "halted" => HaltCause

\* begin_block fails on evidence only, deliver_tx on an amount that does not fit,
\* and end_block only at the end of an epoch.
LEMMA HaltCaused == HaltInv /\ [Next]_vars => HaltHasCause
  <1> SUFFICES ASSUME HaltInv, [Next]_vars, phase # "halted", phase' = "halted" PROVE HaltCause
    BY DEF HaltHasCause
  <1>1. ASSUME NEW signers, BeginBlock(signers) PROVE FALSE
    <2>1. \A v \in ActiveSet : uptime[v].as_of_block_height = height BY DEF HaltInv, UptimeInSync
    <2>2. \A v \in ActiveSet : IsNextHeight(uptime[v], height + 1) BY <2>1 DEF IsNextHeight
    <2> QED BY <1>1, <2>2 DEF BeginBlock
  <1>2. CASE Fails BY <1>2 DEF Fails, BeginBlockEvidence, DeliverTxPanics, HaltCause
  <1>3. ASSUME NEW tx \in Txs, DeliverTx(tx) PROVE FALSE BY <1>3 DEF DeliverTx
  <1>4. CASE EndOrdinaryBlock BY <1>4 DEF EndOrdinaryBlock
  <1>5. CASE EndEpochBlock
    <2> SUFFICES ASSUME ~HaltCause PROVE FALSE OBVIOUS
    <2>1. phase = "block" /\ IsEpochEnd(height) BY <1>5 DEF EndEpochBlock
    <2>2. EndEpochSucceeds(DelegationDelta, EpochTokens, PowerAfter(EpochTokens), EpochTop)
      BY <2>1, EndEpochHolds
    <2> QED BY <1>5, <2>2 DEF EndEpochBlock, EpochTokens, EpochTop
  <1>6. CASE Commit BY <1>6 DEF Commit
  <1>7. CASE UNCHANGED vars BY <1>7 DEF vars, chain
  <1> QED BY <1>1, <1>2, <1>3, <1>4, <1>5, <1>6, <1>7 DEF Next, Fails

\* A chain halts for one of six reasons and for no other, whatever
\* transactions users submit and however long it runs: not because
\* the rates, the trackers or the recorded changes are out of step, not because
\* of a commission, and not because a pool redeems more than it has.  The
\* staking-token supply can underflow only where somebody is slashed or users
\* moved on what the pools that shrink have released to them.
THEOREM HaltsAreKnown ==
  ASSUME EpochDuration > 1, GenesisLawful PROVE Spec => [][HaltHasCause]_vars
  <1>1. Init => HaltInv BY HaltInvInit
  <1>2. HaltInv /\ [Next]_vars => HaltInv' BY HaltInvNext
  <1>3. HaltInv /\ [Next]_vars => HaltHasCause BY HaltCaused
  <1> QED BY <1>1, <1>2, <1>3, PTL DEF Spec

\* The environment in which no cause arises: no evidence, no transaction whose
\* check panics; and at the end of an epoch the next base rate and the
\* other amounts fit their types, nobody is slashed, users hold what the pools
\* that shrink released, and nobody is made Active as its unbonding ends.
Calm ==
  /\ phase = "committed" => ~EvidenceArrives
  /\ phase = "block" => \A tx \in Txs : CheckTxStateless(tx) => ~CheckTxPanics(tx)
  /\ phase = "block" /\ IsEpochEnd(height) =>
       /\ next_base_rate.base_exchange_rate * (BaseRewardRate + Scale) < U64
       /\ NumbersFit
       /\ SupplySafe
       /\ ~TransitionFails(EpochTop)

\* The strengthening: a base rate that does not overflow does not fall.
CalmInv == HaltInv /\ phase # "halted" /\ next_base_rate.base_exchange_rate >= Scale

\* BaseRateData::next does not lower a rate whose product fits.
LEMMA BaseRateGrows ==
  ASSUME NEW base \in BaseRateData, NEW r \in Nat, base.base_exchange_rate * (r + Scale) < U64
  PROVE  BaseRateNext(base, r).base_exchange_rate >= base.base_exchange_rate
  <1> DEFINE x == base.base_exchange_rate
             m == x * (r + Scale)
             q == m \div Scale
  <1>1. x \in Nat BY DEF BaseRateData
  <1>2. m < U64 OBVIOUS
  <1>3. BaseRateNext(base, r).base_exchange_rate = Wrap(m) \div Scale BY DEF BaseRateNext
  <1> HIDE DEF x
  <1>4. m \in Nat /\ Scale * x <= m
    <2>1. m = x * r + Scale * x BY <1>1, ScaleType
    <2>2. x * r \in Nat /\ Scale * x \in Nat BY <1>1, ScaleType
    <2> QED BY <2>1, <2>2
  <1> HIDE DEF m
  <1>5. Wrap(m) = m BY <1>2, <1>4, ScaleType DEF Wrap
  <1>6. q \in Nat /\ m < Scale * q + Scale BY <1>4, ScaleType, DivType, DivBounds
  <1> HIDE DEF q
  <1>7. Scale * x < Scale * q + Scale
    <2>1. Scale * x \in Nat /\ Scale * q \in Nat BY <1>1, <1>6, ScaleType
    <2> QED BY <1>4, <1>6, <2>1, ScaleType
  <1>8. x <= q BY <1>1, <1>6, <1>7, ScaleType, ScaleCancel
  <1>9. BaseRateNext(base, r).base_exchange_rate = q BY <1>3, <1>5 DEF q
  <1> QED BY <1>1, <1>6, <1>8, <1>9 DEF x

\* The base rate changes at the end of an epoch only.
LEMMA CalmNext == CalmInv /\ Calm /\ [Next]_vars => CalmInv'
  <1> SUFFICES ASSUME CalmInv, Calm, [Next]_vars PROVE CalmInv' OBVIOUS
  <1>0. HaltInv /\ phase # "halted" BY DEF CalmInv
  <1>1. TypeOK BY <1>0 DEF HaltInv, SupplyCovers
  <1> DEFINE x == next_base_rate.base_exchange_rate
  <1>2. x \in Nat /\ x >= Scale BY <1>1 DEF CalmInv, TypeOK, BaseRateData
  <1>3. ~HaltCause
    <2>1. x # 0 BY <1>2, ScaleType
    <2> QED BY <2>1 DEF Calm, HaltCause
  <1>4. phase' # "halted" BY <1>0, <1>3, HaltCaused DEF HaltHasCause
  <1>5. HaltInv' BY <1>0, HaltInvNext
  <1> SUFFICES next_base_rate'.base_exchange_rate >= Scale BY <1>4, <1>5 DEF CalmInv
  <1>6. CASE UNCHANGED next_base_rate BY <1>2, <1>6
  <1>7. CASE EndEpochBlock
    <2>1. /\ phase = "block" /\ IsEpochEnd(height)
          /\ next_base_rate' = BaseRateNext(next_base_rate, BaseRewardRate)
      BY <1>4, <1>7 DEF EndEpochBlock, EndEpoch, Halt, BaseRateAfter
    <2>2. x * (BaseRewardRate + Scale) < U64 BY <2>1 DEF Calm
    <2>3. next_base_rate \in BaseRateData /\ BaseRewardRate \in Nat BY <1>1, StakingAssumption DEF TypeOK
    <2>4. next_base_rate'.base_exchange_rate >= x BY <2>1, <2>2, <2>3, BaseRateGrows
    <2>5. next_base_rate'.base_exchange_rate \in Nat
      <3>1. TypeOK' BY <1>5 DEF HaltInv, SupplyCovers
      <3> QED BY <3>1 DEF TypeOK, BaseRateData
    <2> QED BY <1>2, <2>4, <2>5, ScaleType
  <1>8. CASE ~EndEpochBlock
    <2>1. UNCHANGED base_rates
      BY <1>8 DEF Next, BeginBlock, BeginBlockEvidence, DeliverTx, DeliverTxPanics, EndOrdinaryBlock, Commit, Halt, vars
    <2> QED BY <1>6, <2>1 DEF base_rates
  <1> QED BY <1>7, <1>8

\* Every block succeeds (BlocksSucceed) in a calm environment: there the
\* worker's expectations "begin_block must succeed" and "end_block must
\* succeed" hold for every set of validators, every transaction and every
\* length of the chain.
THEOREM CalmChainsGoOn ==
  ASSUME EpochDuration > 1, GenesisLawful PROVE Spec /\ []Calm => []BlocksSucceed
  <1>1. Init => CalmInv
    <2> SUFFICES ASSUME Init PROVE CalmInv OBVIOUS
    <2>1. HaltInv BY HaltInvInit
    <2>2. next_base_rate.base_exchange_rate = Scale /\ phase # "halted" BY DEF Init, InitialBaseRate
    <2> QED BY <2>1, <2>2, ScaleType DEF CalmInv
  <1>2. CalmInv /\ Calm /\ [Next]_vars => CalmInv' BY CalmNext
  <1>3. CalmInv => BlocksSucceed BY DEF CalmInv, BlocksSucceed
  <1> QED BY <1>1, <1>2, <1>3, PTL DEF Spec
=============================================================================
