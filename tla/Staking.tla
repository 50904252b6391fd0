------------------------------- MODULE Staking -------------------------------
(***************************************************************************)
(* The staking component (stake/src/component.rs) driven by the ABCI       *)
(* requests of the consensus worker: the validator state machine, pending  *)
(* delegation changes, rates, token supplies, downtime slashing, epoch     *)
(* transitions and the validator updates returned to Tendermint.           *)
(*                                                                         *)
(* Outside the component, and modelled only as far as it meets it:         *)
(* Tendermint's validator set (tm) and the votes it reports; the value of  *)
(* the notes users hold (circulating, circulating_delegation), which a     *)
(* transaction's binding signature keeps balanced.                         *)
(*                                                                         *)
(* A failed `unwrap' or `expect' inside a block ends the consensus worker, *)
(* and every node fails on the same block: phase "halted".                 *)
(***************************************************************************)
EXTENDS Integers, Sequences, FiniteSets, FiniteSetsExt, Rates, Uptime

CONSTANTS
  IdentityKeys, ConsensusKeys,
  GenesisValidators,      \* sequence of definitions, in genesis order
  GenesisDelegation,      \* delegation tokens allocated per identity key
  GenesisStake,           \* staking tokens allocated
  EpochDuration, UnbondingEpochs, ActiveValidatorLimit, BaseRewardRate,
  SlashingPenaltyDowntime, SignedBlocksWindowLen, MissedBlocksMaximum,
  MaxVotingPower,
  Txs,                    \* the transactions users may submit
  EvidenceArrives,        \* whether Tendermint may report misbehaviour
  MaxHeight, MaxBlockTxs  \* bounds: blocks of the chain, transactions of a block

\* The part of a validator definition that the component reads.  One funding
\* stream stands for the validator's streams.
Definitions ==
  [identity_key : IdentityKeys, consensus_key : ConsensusKeys,
   sequence_number : Nat, rate_bps : Nat]

NoDefinition == [sequence_number |-> -1]
NoAction == [kind |-> "none"]

Delegations ==
  [kind : {"delegate"}, validator_identity : IdentityKeys, epoch_index : Nat,
   unbonded_amount : 0 .. U64 - 1, delegation_amount : 0 .. U64 - 1]
Undelegations ==
  [kind : {"undelegate"}, validator_identity : IdentityKeys, epoch_index : Nat,
   unbonded_amount : 0 .. U64 - 1, delegation_amount : 0 .. U64 - 1]

\* A transaction has at most one action of each kind, except definitions: the
\* checks of two (un)delegations of one transaction do not depend on each
\* other, those of two definitions of one validator do.
Transactions ==
  [delegate : Delegations \union {NoAction},
   undelegate : Undelegations \union {NoAction},
   definitions : {s \in Seq(Definitions) : Len(s) <= 2}]

ASSUME StakingAssumption ==
  /\ NoDefinition \notin Definitions
  /\ GenesisValidators \in Seq(Definitions)
  /\ \A i, j \in DOMAIN GenesisValidators : i # j =>
       /\ GenesisValidators[i].identity_key # GenesisValidators[j].identity_key
       /\ GenesisValidators[i].consensus_key # GenesisValidators[j].consensus_key
  /\ GenesisDelegation \in [IdentityKeys -> Nat]
  /\ GenesisStake \in Nat
  /\ EpochDuration \in Nat \ {0}
  /\ UnbondingEpochs \in Nat /\ ActiveValidatorLimit \in Nat /\ BaseRewardRate \in Nat
  /\ SlashingPenaltyDowntime \in Nat /\ MissedBlocksMaximum \in Nat
  /\ SignedBlocksWindowLen \in Nat \ {0}
  /\ MaxVotingPower \in Nat
  /\ \A id \in IdentityKeys : GenesisDelegation[id] <= MaxVotingPower
  /\ \A tx \in Txs :
       /\ tx.delegate \in Delegations \union {NoAction}
       /\ tx.undelegate \in Undelegations \union {NoAction}
       /\ tx.definitions \in Seq(Definitions) /\ Len(tx.definitions) <= 2
  /\ EvidenceArrives \in BOOLEAN
  /\ MaxHeight \in Nat /\ MaxBlockTxs \in Nat

VARIABLES
  phase,                   \* where the consensus worker is in the ABCI cycle
  height,                  \* block_height
  validator_list,          \* identity keys, in the order they were added
  definition,              \* staking/validators/{id}
  state, power,            \* .../state, .../power
  current_rate, next_rate, \* .../rate/current, .../rate/next
  current_base_rate, next_base_rate,
  uptime,                  \* staking/validator_uptime/{id}
  changes,                 \* staking/delegation_changes/{height}
  pending,                 \* Staking::delegation_changes, in memory
  supply, stake_supply,    \* token_supply of delegation tokens and of the staking token
  tm_updates,              \* Staking::tm_validator_updates, in memory
  tm,                      \* Tendermint's validator set
  circulating, circulating_delegation,
  block_txs,               \* transactions delivered in this block
  rekeyed                  \* history: the consensus keys that a definition has taken from
                           \* a validator, given to one instead of another, or to two

chain == <<phase, height, block_txs>>
validators == <<validator_list, definition, state, power, current_rate, next_rate, uptime>>
base_rates == <<current_base_rate, next_base_rate>>
queue == <<changes, pending>>
supplies == <<supply, stake_supply>>
notes == <<circulating, circulating_delegation>>
tendermint == <<tm_updates, tm, rekeyed>>
vars == <<chain, validators, base_rates, queue, supplies, notes, tendermint>>

-----------------------------------------------------------------------------
(* Helpers                                                                 *)

Inactive == [name |-> "Inactive", unbonding_epoch |-> 0]
Active == [name |-> "Active", unbonding_epoch |-> 0]
Slashed == [name |-> "Slashed", unbonding_epoch |-> 0]
Unbonding(epoch) == [name |-> "Unbonding", unbonding_epoch |-> epoch]
IsUnbonding(s) == s.name = "Unbonding"

ValidatorStates == {Inactive, Active, Slashed} \union [name : {"Unbonding"}, unbonding_epoch : Nat]

\* Epoch::from_height, start_height, end_height, is_epoch_end
EpochOf(h) == h \div EpochDuration
StartHeight(epoch) == epoch * EpochDuration
EndHeight(epoch) == (epoch + 1) * EpochDuration - 1
IsEpochEnd(h) == EndHeight(EpochOf(h)) = h

Known == {validator_list[i] : i \in DOMAIN validator_list}
Position(v) == CHOOSE i \in DOMAIN validator_list : validator_list[i] = v
ActiveSet == {v \in Known : state[v] = Active}

NoUpdate == -1   \* no entry in tm_validator_updates
NoUpdates == [ck \in ConsensusKeys |-> NoUpdate]

\* What Tendermint's set becomes once it applies a block's updates.
Applied(updates) == [ck \in ConsensusKeys |-> IF updates[ck] = NoUpdate THEN tm[ck] ELSE updates[ck]]

NoChange == [delegated |-> 0, undelegated |-> 0]
NoChanges == [v \in IdentityKeys |-> NoChange]

-----------------------------------------------------------------------------
(* init_chain                                                              *)

GenesisKeys == {GenesisValidators[i].identity_key : i \in DOMAIN GenesisValidators}
GenesisDefinition(v) ==
  GenesisValidators[CHOOSE i \in DOMAIN GenesisValidators : GenesisValidators[i].identity_key = v]
GenesisPower(v) == VotingPower(InitialRate(0), GenesisDelegation[v], InitialBaseRate(0))

\* The state after init_chain of the staking and shielded-pool components is
\* committed.  Every genesis validator is Active, whatever the limit says.
Init ==
  /\ phase = "committed" /\ height = 0 /\ block_txs = 0
  /\ validator_list = [i \in DOMAIN GenesisValidators |-> GenesisValidators[i].identity_key]
  /\ definition = [v \in IdentityKeys |-> IF v \in GenesisKeys THEN GenesisDefinition(v) ELSE NoDefinition]
  /\ state = [v \in IdentityKeys |-> IF v \in GenesisKeys THEN Active ELSE Inactive]
  /\ power = [v \in IdentityKeys |-> IF v \in GenesisKeys THEN GenesisPower(v) ELSE 0]
  /\ current_rate = [v \in IdentityKeys |-> InitialRate(0)]
  /\ next_rate = [v \in IdentityKeys |-> InitialRate(1)]
  /\ current_base_rate = InitialBaseRate(0)
  /\ next_base_rate = InitialBaseRate(1)
  /\ uptime = [v \in IdentityKeys |-> NewUptime(0, SignedBlocksWindowLen)]
  /\ changes = [h \in {0} |-> NoChanges]
  /\ pending = NoChanges
  /\ supply = GenesisDelegation
  /\ stake_supply = GenesisStake
  /\ tm_updates = NoUpdates
  /\ tm = [ck \in ConsensusKeys |->
             IF \E v \in GenesisKeys : GenesisDefinition(v).consensus_key = ck
             THEN GenesisPower(CHOOSE v \in GenesisKeys : GenesisDefinition(v).consensus_key = ck)
             ELSE 0]
  /\ circulating = GenesisStake
  /\ circulating_delegation = GenesisDelegation
  /\ rekeyed = {}

-----------------------------------------------------------------------------
(* BeginBlock                                                              *)

\* The first failing step of a block ends the worker; nothing of the block is committed.
Halt ==
  /\ phase' = "halted"
  /\ UNCHANGED <<height, block_txs, validators, base_rates, queue, supplies, notes, tendermint>>

\* Staking::slash_validator and View::slash_validator on the rates.
Penalised(v) == SlashRate(current_rate[v], SlashingPenaltyDowntime)

\* track_uptime with the block's last_commit_info: signers are the consensus
\* keys that signed.  A validator that reaches the maximum is slashed, and its
\* tracker is not written back.
Marked(v, signers) ==
  MarkHeightAsSigned(uptime[v], height + 1, definition[v].consensus_key \in signers,
                     SignedBlocksWindowLen)
Down(signers) == {v \in ActiveSet : NumMissedBlocks(Marked(v, signers)) >= MissedBlocksMaximum}

TrackUptime(signers, down) ==
  /\ uptime' = [v \in IdentityKeys |-> IF v \in ActiveSet \ down THEN Marked(v, signers) ELSE uptime[v]]
  /\ state' = [v \in IdentityKeys |-> IF v \in down THEN Slashed ELSE state[v]]
  /\ current_rate' = [v \in IdentityKeys |-> IF v \in down THEN Penalised(v) ELSE current_rate[v]]
  /\ next_rate' = [v \in IdentityKeys |->
                     IF v \in down THEN ConstantRate(Penalised(v)) ELSE next_rate[v]]
  /\ tm_updates' = [ck \in ConsensusKeys |->
                      IF \E v \in down : definition[v].consensus_key = ck THEN 0 ELSE tm_updates[ck]]

BeginBlock(signers) ==
  /\ phase = "committed" /\ height < MaxHeight
  /\ IF \A v \in ActiveSet : IsNextHeight(uptime[v], height + 1)
     THEN /\ TrackUptime(signers, Down(signers))
          /\ phase' = "block" /\ height' = height + 1
          /\ UNCHANGED <<block_txs, validator_list, definition, power, base_rates, queue,
                         supplies, notes, tm, rekeyed>>
     ELSE Halt

\* slash_validator_by_evidence takes the 20-byte address of the evidence for a
\* public key, which it is not, and unwraps the failed conversion.  (The lookup
\* after it would fail too: nothing writes staking/consensus_key/{ck}.)
BeginBlockEvidence ==
  /\ phase = "committed" /\ height < MaxHeight
  /\ EvidenceArrives
  /\ Halt

-----------------------------------------------------------------------------
(* DeliverTx                                                               *)

\* check_tx_stateless: an undelegation is not mixed with definitions, and no
\* definition takes more than the whole reward.
CheckTxStateless(tx) ==
  /\ tx.undelegate # NoAction => tx.definitions = << >>
  /\ \A i \in DOMAIN tx.definitions : tx.definitions[i].rate_bps <= Bps

\* What is checked before the amounts are computed.
IsForNextEpoch(a) ==
  a.validator_identity \in Known /\ a.epoch_index = next_rate[a.validator_identity].epoch_index
MayDelegate(d) == IsForNextEpoch(d) /\ state[d.validator_identity] # Slashed

\* The check of a delegation panics when the rate is 0, when the amount of
\* delegation tokens does not fit u64, and when it is as claimed but does not
\* fit the i64 of the tally.  It is passed when the amount is as claimed.
DelegatePanics(d) ==
  /\ MayDelegate(d)
  /\ LET rate == next_rate[d.validator_identity]
     IN  \/ rate.validator_exchange_rate = 0
         \/ DelegationAmount(rate, d.unbonded_amount) >= U64
         \/ /\ DelegationAmount(rate, d.unbonded_amount) = d.delegation_amount
            /\ d.delegation_amount >= I64
CheckDelegate(d) ==
  /\ MayDelegate(d)
  /\ ~DelegatePanics(d)
  /\ d.delegation_amount = DelegationAmount(next_rate[d.validator_identity], d.unbonded_amount)

\* The same for an undelegation, whose unbonded amount is computed.
UndelegatePanics(u) ==
  /\ IsForNextEpoch(u)
  /\ LET amount == UnbondedAmount(next_rate[u.validator_identity], u.delegation_amount)
     IN  amount >= U64 \/ (amount = u.unbonded_amount /\ u.delegation_amount >= I64)
CheckUndelegate(u) ==
  /\ IsForNextEpoch(u)
  /\ ~UndelegatePanics(u)
  /\ u.unbonded_amount = UnbondedAmount(next_rate[u.validator_identity], u.delegation_amount)

\* Each definition is compared with the stored one, not with the others of the transaction.
CheckDefinition(def) ==
  def.identity_key \in Known =>
    def.sequence_number > definition[def.identity_key].sequence_number

CheckTxStateful(tx) ==
  /\ tx.delegate # NoAction => CheckDelegate(tx.delegate)
  /\ tx.undelegate # NoAction => CheckUndelegate(tx.undelegate)
  /\ \A i \in DOMAIN tx.definitions : CheckDefinition(tx.definitions[i])

\* Delegations are checked before undelegations, and a check that fails ends it.
CheckTxPanics(tx) ==
  \/ tx.delegate # NoAction /\ DelegatePanics(tx.delegate)
  \/ /\ tx.delegate # NoAction => CheckDelegate(tx.delegate)
     /\ tx.undelegate # NoAction /\ UndelegatePanics(tx.undelegate)

\* What the actions of a transaction take from and give to the notes it
\* spends and creates.  A fee would only take more.
Burned(a) == IF a.kind = "delegate" THEN a.unbonded_amount
             ELSE IF a.kind = "undelegate" THEN -a.unbonded_amount ELSE 0
Bought(a, v) == IF a.kind = "none" \/ a.validator_identity # v THEN 0
                ELSE IF a.kind = "delegate" THEN a.delegation_amount ELSE -a.delegation_amount

StakeAfter(tx) == circulating - Burned(tx.delegate) - Burned(tx.undelegate)
DelegationAfter(tx, v) == circulating_delegation[v] + Bought(tx.delegate, v) + Bought(tx.undelegate, v)

\* The binding signature of a transaction verifies only when its spends cover
\* what its actions consume (transaction and shielded-pool crates).
Balanced(tx) == StakeAfter(tx) >= 0 /\ \A v \in IdentityKeys : DelegationAfter(tx, v) >= 0

\* execute_tx: queue the (un)delegations ...
Queued(tx) ==
  [v \in IdentityKeys |->
     [delegated   |-> pending[v].delegated +
        IF tx.delegate # NoAction /\ tx.delegate.validator_identity = v
        THEN tx.delegate.delegation_amount ELSE 0,
      undelegated |-> pending[v].undelegated +
        IF tx.undelegate # NoAction /\ tx.undelegate.validator_identity = v
        THEN tx.undelegate.delegation_amount ELSE 0]]

\* ... and store the definitions in order: update_validator, or add_validator
\* with initial rates, no power and the Inactive state.
Defined(tx, v) == {i \in DOMAIN tx.definitions : tx.definitions[i].identity_key = v}
Latest(tx, v) == tx.definitions[CHOOSE i \in Defined(tx, v) : \A j \in Defined(tx, v) : j <= i]
IsNew(tx, v) == Defined(tx, v) # {} /\ v \notin Known

AppendNew(list, def) ==
  IF \E i \in DOMAIN list : list[i] = def.identity_key THEN list ELSE Append(list, def.identity_key)

ListAfter(tx) ==
  CASE tx.definitions = << >>    -> validator_list
    [] Len(tx.definitions) = 1   -> AppendNew(validator_list, tx.definitions[1])
    [] OTHER -> AppendNew(AppendNew(validator_list, tx.definitions[1]), tx.definitions[2])

\* The consensus keys after the definitions are stored, and those that are moved
\* or shared by them.
KeyAfter(tx, v) == (IF Defined(tx, v) # {} THEN Latest(tx, v) ELSE definition[v]).consensus_key
KnownAfter(tx) == Known \union {v \in IdentityKeys : Defined(tx, v) # {}}
Rekeyed(tx) ==
  {ck \in ConsensusKeys :
     \/ \E v \in Known : /\ definition[v].consensus_key # KeyAfter(tx, v)
                         /\ ck \in {definition[v].consensus_key, KeyAfter(tx, v)}
     \/ \E v, w \in KnownAfter(tx) : v # w /\ KeyAfter(tx, v) = ck /\ KeyAfter(tx, w) = ck}

\* A panic in a check ends the worker.  Staking is checked before the shielded
\* pool, which finds out whether the notes that are spent exist.
DeliverTxPanics(tx) ==
  /\ phase = "block" /\ block_txs < MaxBlockTxs
  /\ CheckTxStateless(tx) /\ CheckTxPanics(tx)
  /\ Halt

\* A transaction that fails a check leaves the state alone.
DeliverTx(tx) ==
  /\ phase = "block" /\ block_txs < MaxBlockTxs
  /\ CheckTxStateless(tx) /\ CheckTxStateful(tx) /\ Balanced(tx)
  /\ block_txs' = block_txs + 1
  /\ circulating' = StakeAfter(tx)
  /\ circulating_delegation' = [v \in IdentityKeys |-> DelegationAfter(tx, v)]
  /\ pending' = Queued(tx)
  /\ validator_list' = ListAfter(tx)
  /\ definition' = [v \in IdentityKeys |-> IF Defined(tx, v) # {} THEN Latest(tx, v) ELSE definition[v]]
  /\ state' = [v \in IdentityKeys |-> IF IsNew(tx, v) THEN Inactive ELSE state[v]]
  /\ power' = [v \in IdentityKeys |-> IF IsNew(tx, v) THEN 0 ELSE power[v]]
  /\ current_rate' = [v \in IdentityKeys |->
                        IF IsNew(tx, v) THEN InitialRate(EpochOf(height)) ELSE current_rate[v]]
  /\ next_rate' = [v \in IdentityKeys |->
                     IF IsNew(tx, v) THEN InitialRate(EpochOf(height) + 1) ELSE next_rate[v]]
  /\ rekeyed' = rekeyed \union Rekeyed(tx)
  /\ UNCHANGED <<phase, height, uptime, base_rates, changes, supplies, tm_updates, tm>>

-----------------------------------------------------------------------------
(* EndBlock: end_epoch                                                     *)

\* The block's delegation changes are written before the epoch is processed.
ChangesAfter == [h \in DOMAIN changes \union {height} |-> IF h = height THEN pending ELSE changes[h]]

EpochHeights == StartHeight(EpochOf(height)) .. EndHeight(EpochOf(height))

\* Mutant: undelegations are left out.
DelegationDeltaBought ==
  [v \in IdentityKeys |-> SumFunction([h \in EpochHeights |-> ChangesAfter[h][v].delegated])]

\* delegation_delta: what the epoch's blocks bought minus what they redeemed.
DelegationDelta ==
  [v \in IdentityKeys |->
     SumFunction([h \in EpochHeights |-> ChangesAfter[h][v].delegated - ChangesAfter[h][v].undelegated])]

\* The old epoch's next rates become current.
BaseRateAfter == BaseRateNext(next_base_rate, BaseRewardRate)
\* Mutant: the state is not looked at, every pool earns.
RateAfterAlways(v) == ActiveRateNext(next_rate[v], BaseRateAfter, definition[v].rate_bps)

RateAfter(v) ==
  IF state[v] = Active THEN ActiveRateNext(next_rate[v], BaseRateAfter, definition[v].rate_bps)
                       ELSE ConstantRate(next_rate[v])

SupplyAfter(delta) == [v \in IdentityKeys |-> supply[v] + delta[v]]

\* Mutant: the rate of the epoch that ends.
StakingDeltaOldRate(v, delta) ==
  LET amount == UnbondedAmount(current_rate[v], IF delta[v] < 0 THEN -delta[v] ELSE delta[v])
  IN IF delta[v] >= 0 THEN -amount ELSE amount

\* staking_delta: the net change valued at the rate that is now current.
StakingDelta(v, delta) ==
  LET amount == UnbondedAmount(next_rate[v], IF delta[v] < 0 THEN -delta[v] ELSE delta[v])
  IN IF delta[v] >= 0 THEN -amount ELSE amount

\* The staking-token supply after each validator of the list.
StakeSupplyAfter(delta) ==
  LET after[i \in 0 .. Len(validator_list)] ==
        IF i = 0 THEN stake_supply ELSE after[i - 1] + StakingDelta(validator_list[i], delta)
  IN after

\* Voting power in the epoch that begins.
PowerAfter(tokens) == [v \in IdentityKeys |-> VotingPower(next_rate[v], tokens[v], next_base_rate)]

\* Commission of the epoch that ends, minted by the shielded pool's end_block.
Commission(v, tokens) ==
  IF state[v] = Active
  THEN RewardAmount(definition[v].rate_bps, tokens[v], BaseRateAfter, next_base_rate) ELSE 0

TotalCommission(tokens) == SumFunction([v \in Known |-> Commission(v, tokens)])

-----------------------------------------------------------------------------
(* EndBlock: process_epoch_transitions                                     *)

\* Mutant: ascending order.
BeforeAscending(w, v, pow) == pow[w] < pow[v] \/ (pow[w] = pow[v] /\ Position(w) < Position(v))

\* validator_power_list is sorted by power, stably; Before is that order.
Before(w, v, pow) == pow[w] > pow[v] \/ (pow[w] = pow[v] /\ Position(w) < Position(v))

TopValidators(pow) ==
  {v \in Known : /\ Cardinality({w \in Known : Before(w, v, pow)}) < ActiveValidatorLimit
                 /\ pow[v] > 0}

Promoted(top) == {v \in top : state[v] = Inactive \/ IsUnbonding(state[v])}
Displaced(top) == ActiveSet \ top
Expired == {v \in Known : IsUnbonding(state[v]) /\ state[v].unbonding_epoch <= EpochOf(height)}

\* set_validator_state(Inactive) is called for an Expired validator on the
\* state read before the loop; it fails when the loop has just made it Active.
TransitionFails(top) == Promoted(top) \intersect Expired # {}

StateAfter(v, top) ==
  IF v \in Promoted(top) THEN Active
  ELSE IF v \in Displaced(top) THEN Unbonding(EpochOf(height) + UnbondingEpochs)
  ELSE IF v \in Expired THEN Inactive
  ELSE state[v]

\* Mutant: the old tracker is kept.
UptimeAfterKept(v, top) == uptime[v]

\* A validator that becomes Active starts with a new tracker.
UptimeAfter(v, top) ==
  IF v \in Promoted(top) THEN NewUptime(height, SignedBlocksWindowLen) ELSE uptime[v]

\* Mutant: every validator outside the top reports, Active or not.
ReportingAll(ck, top) == {v \in Known : definition[v].consensus_key = ck}

\* update_tm_validator_power, called in sorted order: of several validators
\* with one consensus key the last one's power is reported.
Reporting(ck, top) == {v \in ActiveSet \union Promoted(top) : definition[v].consensus_key = ck}
LastReporting(ck, pow, top) ==
  CHOOSE v \in Reporting(ck, top) : \A w \in Reporting(ck, top) : w = v \/ Before(w, v, pow)
\* Mutant: a displaced validator does not report.
EpochUpdatesTopOnly(pow, top) ==
  [ck \in ConsensusKeys |->
     IF Reporting(ck, top) = {} THEN tm_updates[ck]
     ELSE IF LastReporting(ck, pow, top) \in top THEN pow[LastReporting(ck, pow, top)] ELSE tm_updates[ck]]

EpochUpdates(pow, top) ==
  [ck \in ConsensusKeys |->
     IF Reporting(ck, top) = {} THEN tm_updates[ck]
     ELSE IF LastReporting(ck, pow, top) \in top THEN pow[LastReporting(ck, pow, top)] ELSE 0]

\* Every check of end_epoch, and of minting the commission, succeeds.
EndEpochSucceeds(delta, tokens, pow, top) ==
  /\ EpochHeights \subseteq DOMAIN ChangesAfter
  /\ next_base_rate.base_exchange_rate # 0
  /\ \A v \in Known :
       /\ ~(state[v] = Active /\ CommissionTooHigh(definition[v].rate_bps))
       /\ RateAfter(v).epoch_index = EpochOf(height) + 2
       /\ tokens[v] \in 0 .. U64 - 1
       /\ pow[v] <= MaxVotingPower
  /\ \A i \in DOMAIN validator_list : StakeSupplyAfter(delta)[i] \in 0 .. U64 - 1
  /\ StakeSupplyAfter(delta)[Len(validator_list)] + TotalCommission(tokens) \in 0 .. U64 - 1
  /\ ~TransitionFails(top)

EndEpoch(delta, tokens, pow, top) ==
  /\ current_base_rate' = next_base_rate
  /\ next_base_rate' = BaseRateAfter
  /\ current_rate' = [v \in IdentityKeys |-> IF v \in Known THEN next_rate[v] ELSE current_rate[v]]
  /\ next_rate' = [v \in IdentityKeys |-> IF v \in Known THEN RateAfter(v) ELSE next_rate[v]]
  /\ supply' = [v \in IdentityKeys |-> IF v \in Known THEN tokens[v] ELSE supply[v]]
  /\ power' = [v \in IdentityKeys |->
                 IF v \in Displaced(top) THEN 0 ELSE IF v \in Known THEN pow[v] ELSE power[v]]
  /\ state' = [v \in IdentityKeys |-> IF v \in Known THEN StateAfter(v, top) ELSE state[v]]
  /\ uptime' = [v \in IdentityKeys |-> UptimeAfter(v, top)]
  /\ stake_supply' = StakeSupplyAfter(delta)[Len(validator_list)] + TotalCommission(tokens)
  /\ circulating' = circulating + TotalCommission(tokens)
  /\ tm_updates' = EpochUpdates(pow, top)
  /\ tm' = Applied(EpochUpdates(pow, top))

\* App::end_block: staking, then the shielded pool; the updates are returned to Tendermint.
EndOrdinaryBlock ==
  /\ phase = "block" /\ ~IsEpochEnd(height)
  /\ phase' = "ended"
  /\ changes' = ChangesAfter
  /\ pending' = NoChanges
  /\ tm' = Applied(tm_updates)
  /\ UNCHANGED <<height, block_txs, validators, base_rates, supplies, notes, tm_updates, rekeyed>>

EndEpochBlock ==
  /\ phase = "block" /\ IsEpochEnd(height)
  /\ LET delta == DelegationDelta
         tokens == SupplyAfter(delta)
         pow == PowerAfter(tokens)
         top == TopValidators(pow)
     IN IF EndEpochSucceeds(delta, tokens, pow, top)
        THEN /\ EndEpoch(delta, tokens, pow, top)
             /\ phase' = "ended"
             /\ changes' = ChangesAfter
             /\ pending' = NoChanges
             /\ UNCHANGED <<height, block_txs, validator_list, definition, circulating_delegation, rekeyed>>
        ELSE Halt

\* App::commit re-creates the components, which drops what they hold in memory.
Commit ==
  /\ phase = "ended"
  /\ phase' = "committed" /\ block_txs' = 0
  /\ pending' = NoChanges
  /\ tm_updates' = NoUpdates
  /\ UNCHANGED <<height, validators, base_rates, changes, supplies, notes, tm, rekeyed>>

Next ==
  \/ \E signers \in SUBSET {ck \in ConsensusKeys : tm[ck] > 0} : BeginBlock(signers)
  \/ BeginBlockEvidence
  \/ \E tx \in Txs : DeliverTx(tx) \/ DeliverTxPanics(tx)
  \/ EndOrdinaryBlock
  \/ EndEpochBlock
  \/ Commit

Spec == Init /\ [][Next]_vars

-----------------------------------------------------------------------------
(* Properties                                                              *)

\* The shape of the component's records and of what surrounds it.
TypeOK ==
  /\ phase \in {"committed", "block", "ended", "halted"}
  /\ height \in Nat /\ block_txs \in Nat
  /\ validator_list \in Seq(IdentityKeys)
  /\ definition \in [IdentityKeys -> Definitions \union {NoDefinition}]
  /\ \A v \in Known : definition[v] \in Definitions
  /\ state \in [IdentityKeys -> ValidatorStates]
  /\ power \in [IdentityKeys -> Nat]
  /\ current_rate \in [IdentityKeys -> RateData]
  /\ next_rate \in [IdentityKeys -> RateData]
  /\ current_base_rate \in BaseRateData
  /\ next_base_rate \in BaseRateData
  /\ uptime \in [IdentityKeys -> UptimeOver(SignedBlocksWindowLen)]
  /\ DOMAIN changes \subseteq Nat
  /\ \A h \in DOMAIN changes : changes[h] \in [IdentityKeys -> [delegated : Nat, undelegated : Nat]]
  /\ pending \in [IdentityKeys -> [delegated : Nat, undelegated : Nat]]
  /\ supply \in [IdentityKeys -> Nat]
  /\ stake_supply \in Nat
  /\ tm_updates \in [ConsensusKeys -> Nat \union {NoUpdate}]
  /\ tm \in [ConsensusKeys -> Nat]
  /\ rekeyed \subseteq ConsensusKeys

\* The epoch whose rates are current: end_block moves them to the next epoch
\* one block before the height does.
RateEpoch == IF phase = "block" THEN EpochOf(height) ELSE EpochOf(height + 1)

\* Every rate is the one for its epoch, so that end_epoch's
\* assert!(next_rate.epoch_index == epoch_to_end.index + 2) cannot fail, for
\* validators added in any block and whatever happened to them since.
RatesInSync ==
  phase # "halted" =>
    /\ current_base_rate.epoch_index = RateEpoch
    /\ next_base_rate.epoch_index = RateEpoch + 1
    /\ \A v \in Known : /\ current_rate[v].epoch_index = RateEpoch
                        /\ next_rate[v].epoch_index = RateEpoch + 1

\* An Active validator's tracker is as of the current block, through slashing,
\* displacement and return, so that mark_height_as_signed(..).unwrap() in
\* track_uptime cannot fail.
UptimeInSync ==
  phase # "halted" => \A v \in ActiveSet : uptime[v].as_of_block_height = height

\* No genesis validator takes more than the whole reward.  init_chain does not
\* check it, and end_epoch panics otherwise.
GenesisLawful == \A i \in DOMAIN GenesisValidators : GenesisValidators[i].rate_bps <= Bps

\* Tendermint's set, once it has applied the updates gathered so far, has the
\* power of the Active validators under their consensus keys and nothing else,
\* for every key that no definition has moved from or to a validator or given
\* to two, whatever definitions did to the other keys.  (update_validator does
\* not report a change of key: the old key keeps its power.)
TmTracksActive ==
  phase # "halted" =>
    \A ck \in ConsensusKeys \ rekeyed :
      Applied(tm_updates)[ck] =
        IF \E v \in ActiveSet : definition[v].consensus_key = ck
        THEN power[CHOOSE v \in ActiveSet : definition[v].consensus_key = ck] ELSE 0

\* The keys of genesis validators without stake, which are Active and no members.
UnstakedKeys == {GenesisDefinition(v).consensus_key : v \in {w \in GenesisKeys : GenesisPower(w) = 0}}

\* An update that removes a key from Tendermint's set names a member of it:
\* Tendermint rejects the block's updates otherwise.  Except for moved and
\* shared keys and those of genesis validators without stake.
RemovalsNameMembers ==
  [][phase' = "ended" =>
       \A ck \in ConsensusKeys \ (rekeyed \union UnstakedKeys) : tm_updates'[ck] = 0 => tm[ck] > 0]_vars

\* The delegation tokens users hold are the recorded supply and the changes
\* not yet processed: no block's changes are lost or counted twice.
Unprocessed(v) ==
  pending[v].delegated - pending[v].undelegated +
    SumFunction([h \in {g \in DOMAIN changes : EpochOf(g) = RateEpoch} |->
                   changes[h][v].delegated - changes[h][v].undelegated])
DelegationSupplyConserved ==
  phase # "halted" => \A v \in IdentityKeys : circulating_delegation[v] = supply[v] + Unprocessed(v)

\* While no pool is slashed the recorded staking-token supply covers the stake
\* in circulation, whatever the roundings, whenever no change is waiting.
NothingQueued ==
  pending = NoChanges /\ \A h \in DOMAIN changes : EpochOf(h) = RateEpoch => changes[h] = NoChanges
StakeSupplyCovers ==
  phase # "halted" /\ NothingQueued /\ (\A v \in Known : state[v] # Slashed)
    => stake_supply >= circulating

\* Nobody who could be Active has more power than somebody who is, and no more
\* than the limit are Active, or than genesis put there before the first epoch
\* has ended.
ActiveAreStrongest ==
  /\ \A a \in ActiveSet, b \in Known :
       state[b] = Inactive \/ IsUnbonding(state[b]) => power[b] <= power[a]
  /\ \/ Cardinality(ActiveSet) <= ActiveValidatorLimit
     \/ current_base_rate.epoch_index = 0 /\ ActiveSet \subseteq GenesisKeys

\* What one step may do to the validators that were slashed before it.
SlashedKept ==
  \A v \in Known : state[v] = Slashed =>
    /\ state'[v] = Slashed
    /\ current_rate'[v].validator_exchange_rate = current_rate[v].validator_exchange_rate
    /\ next_rate'[v].validator_exchange_rate = current_rate[v].validator_exchange_rate

\* Slashing is final and prices the pool once: a slashed validator keeps its
\* state and its exchange rate for ever.
SlashedIsFinal == [][SlashedKept]_vars

\* begin_block and end_block must succeed (pd/src/consensus/worker.rs): the
\* chain halts on a block whose processing fails.
BlocksSucceed == phase # "halted"
=============================================================================
