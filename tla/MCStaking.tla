------------------------------ MODULE MCStaking ------------------------------
(***************************************************************************)
(* Instances of Staking for TLC: two genesis validators a and b, and a     *)
(* third, c, that is defined later.  Rates have base Bps = 4, so 1 is 16.  *)
(***************************************************************************)
EXTENDS Staking, TLC

CONSTANTS a, b, c, ka, kb, kc

Def(id, ck, seq, bps) ==
  [identity_key |-> id, consensus_key |-> ck, sequence_number |-> seq, rate_bps |-> bps]

MCGenesisValidators == <<Def(a, ka, 0, 0), Def(b, kb, 0, 1)>>
MCGenesisDelegation == (a :> 3) @@ (b :> 2) @@ (c :> 0)

\* Claims of a user: any epoch of the run, and every amount the rates can give.
Epochs == 0 .. EpochOf(MaxHeight) + 1
Delegate(id, epoch, unbonded, delegated) ==
  [delegate |-> [kind |-> "delegate", validator_identity |-> id, epoch_index |-> epoch,
                 unbonded_amount |-> unbonded, delegation_amount |-> delegated],
   undelegate |-> NoAction, definitions |-> << >>]
Undelegate(id, epoch, delegated, unbonded) ==
  [undelegate |-> [kind |-> "undelegate", validator_identity |-> id, epoch_index |-> epoch,
                   unbonded_amount |-> unbonded, delegation_amount |-> delegated],
   delegate |-> NoAction, definitions |-> << >>]
Define(defs) == [delegate |-> NoAction, undelegate |-> NoAction, definitions |-> defs]

\* Validator c joins, with one definition or with two in one transaction, and
\* gets enough stake to displace b, which may come back.
MCSetTxs ==
  {Define(<<Def(c, kc, 0, 1)>>), Define(<<Def(c, kc, 1, 1), Def(c, kc, 0, 0)>>)}
    \union {Delegate(c, e, 3, y) : e \in Epochs, y \in 0 .. 3}
    \union {Delegate(b, e, 2, y) : e \in 0 .. 2, y \in 0 .. 2}
    \union {Undelegate(c, e, 2, y) : e \in 0 .. 3, y \in 0 .. 4}

\* The same with undelegations from a, one of them with a delegation to b, a
\* definition that moves b to the key of c, and two transactions whose amounts
\* overflow the tally's i64 or a u64.
MCRekeyTxs ==
  MCSetTxs
    \union {Undelegate(a, 3, 2, y) : y \in 2 .. 3}
    \union {[Undelegate(a, 4, 1, y) EXCEPT !.delegate = Delegate(b, 4, 2, z).delegate] :
              y \in 1 .. 2, z \in 0 .. 2}
    \union {Define(<<Def(b, kc, 1, 1)>>), Delegate(b, 1, I64, I64), Undelegate(b, 3, U64 - 1, 0)}

\* The instances satisfy the hypotheses of the theorems on halts.
ASSUME InstanceAssumption == GenesisLawful /\ EpochDuration > 1
=============================================================================
