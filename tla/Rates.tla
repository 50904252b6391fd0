-------------------------------- MODULE Rates --------------------------------
(***************************************************************************)
(* Staking reward and exchange rates (stake/src/rate.rs) and the           *)
(* commission of a funding stream (stake/src/funding_stream.rs).           *)
(*                                                                         *)
(* Rates are fixed-point numbers.  A basis point is 1/Bps of the whole and *)
(* a rate carries two groups of such digits, so 1 is written Bps * Bps     *)
(* (1_0000 and 1_0000_0000 in the code).  Keeping Bps a parameter lets TLC *)
(* evaluate the same formulas with small numbers.  Products of two u64     *)
(* keep their width (Wrap, what a release build computes); the operations  *)
(* the code widens to u128 do not.                                         *)
(***************************************************************************)
EXTENDS Integers

CONSTANTS
  Bps,  \* basis points in the whole: 1_0000
  U64   \* number of values of the code's 64-bit integers: 2^64

ASSUME RatesAssumption == Bps \in Nat \ {0} /\ U64 \in Nat \ {0}

Scale == Bps * Bps

Wrap(n) == n % U64

\* The least number that an i64 does not hold.
I64 == U64 \div 2

\* RateData and BaseRateData, without the identity key they are indexed by.
RateData ==
  [epoch_index : Nat, validator_reward_rate : Nat, validator_exchange_rate : Nat]
BaseRateData ==
  [epoch_index : Nat, base_reward_rate : Nat, base_exchange_rate : Nat]

\* The rate of a pool that has earned nothing yet: exchange rate 1.
InitialRate(epoch) ==
  [epoch_index |-> epoch, validator_reward_rate |-> 0, validator_exchange_rate |-> Scale]

InitialBaseRate(epoch) ==
  [epoch_index |-> epoch, base_reward_rate |-> 0, base_exchange_rate |-> Scale]

\* BaseRateData::next
BaseRateNext(base, reward_rate) ==
  [epoch_index        |-> base.epoch_index + 1,
   base_reward_rate   |-> reward_rate,
   base_exchange_rate |-> Wrap(base.base_exchange_rate * (reward_rate + Scale)) \div Scale]

\* Mutant: the index of the held rate is not advanced.
ConstantRateStale(rate) == rate

\* RateData::next for a pool that is not Active: the rate is held.
ConstantRate(rate) == [rate EXCEPT !.epoch_index = @ + 1]

\* RateData::next for an Active pool whose funding streams take rate_bps.
\* The code panics when rate_bps exceeds Bps, see CommissionTooHigh.
ActiveRateNext(rate, base, rate_bps) ==
  LET reward == Wrap((Scale - rate_bps * Bps) * base.base_reward_rate) \div Scale
  IN [epoch_index             |-> rate.epoch_index + 1,
      validator_reward_rate   |-> reward,
      validator_exchange_rate |-> Wrap(rate.validator_exchange_rate * (reward + Scale)) \div Scale]

CommissionTooHigh(rate_bps) == rate_bps > Bps

\* Delegation tokens bought by unbonded stake, and stake redeemed by delegation tokens.
DelegationAmount(rate, unbonded) == (unbonded * Scale) \div rate.validator_exchange_rate

UnbondedAmount(rate, delegated) == (delegated * rate.validator_exchange_rate) \div Scale

\* RateData::slash; the subtraction saturates at 0.
SlashRate(rate, penalty_bps) ==
  LET cut == Wrap(rate.validator_exchange_rate * penalty_bps) \div Bps
  IN [rate EXCEPT !.validator_exchange_rate = IF cut > @ THEN 0 ELSE @ - cut]

VotingPower(rate, tokens, base) ==
  (tokens * rate.validator_exchange_rate) \div base.base_exchange_rate

\* FundingStream::reward_amount: three roundings, in the code's order.
RewardAmount(rate_bps, tokens, base, prev_base) ==
  LET share  == (tokens * (rate_bps * Bps)) \div Scale
      reward == (share * base.base_reward_rate) \div Scale
  IN (reward * prev_base.base_exchange_rate) \div Scale
=============================================================================
