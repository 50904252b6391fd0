------------------------------ MODULE MCWallet ------------------------------
(***************************************************************************)
(* Small wallets for TLC.  The delegation rate is 3/2, so that delegating  *)
(* and undelegating round.                                                 *)
(***************************************************************************)
EXTENDS Wallet

CONSTANTS penumbra, delegation

MCRate == [epoch_index |-> 1, validator_reward_rate |-> 0, validator_exchange_rate |-> 6]

MCNote(i, d, amount) ==
  [id |-> <<0, "genesis", d, i>>, denom |-> d, amount |-> amount, mine |-> TRUE]
MCAmount(stake, tokens) == (penumbra :> stake) @@ (delegation :> tokens)

\* Two notes of stake and one of delegation tokens, and one of each kind of request.
MCNotes == {MCNote(1, penumbra, 2), MCNote(2, penumbra, 3), MCNote(3, delegation, 3)}
MCRequests ==
  {[kind |-> "send", amount |-> MCAmount(1, 2), fee |-> 1],
   [kind |-> "delegate", amount |-> MCAmount(3, 0), fee |-> 1],
   [kind |-> "delegate", amount |-> MCAmount(0, 0), fee |-> 0],
   [kind |-> "undelegate", amount |-> MCAmount(0, 2), fee |-> 1],
   [kind |-> "definition", amount |-> MCAmount(0, 0), fee |-> 1]}
=============================================================================
