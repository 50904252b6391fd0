-------------------------------- MODULE Ledger --------------------------------
(***************************************************************************)
(* What the shielded pool of a node promises, without trees, nullifiers,   *)
(* anchors or compact blocks: a ledger of coins, changed by balanced       *)
(* transfers of coins that are held and by minting.  A node works on one   *)
(* copy and settles it; a crash abandons the work that is not settled.     *)
(*                                                                         *)
(* Module Node implements this specification.                              *)
(***************************************************************************)
EXTENDS Integers

CONSTANT Value(_)   \* what a set of coins is worth

VARIABLES
  working,  \* [held, spent, minted, fees]: the coins that can be spent, those
            \* that were, the value ever minted and the fees ever paid
  settled   \* the same, as it was last settled

EmptyLedger == [held |-> {}, spent |-> {}, minted |-> 0, fees |-> 0]

Init == working = EmptyLedger /\ settled = EmptyLedger

\* The coins a step removes, the coins it creates and the fee it takes.
Inputs == working'.spent \ working.spent
Outputs == working'.held \ working.held
Fee == working'.fees - working.fees

\* A coin is created once, whether or not it has been spent since.
Fresh(coins) == coins \intersect (working.held \union working.spent) = {}

\* Coins that are held are exchanged for new ones of the same value, less a fee.
Transfer ==
  /\ Inputs \subseteq working.held
  /\ Fresh(Outputs)
  /\ Fee >= 0
  /\ Value(Inputs) = Value(Outputs) + Fee
  /\ working' = [held   |-> (working.held \ Inputs) \union Outputs,
                 spent  |-> working.spent \union Inputs,
                 minted |-> working.minted,
                 fees   |-> working.fees + Fee]
  /\ UNCHANGED settled

\* New coins, which add their value to what was minted.
MintCoins ==
  /\ Fresh(Outputs)
  /\ working' = [working EXCEPT !.held = @ \union Outputs,
                                !.minted = @ + Value(Outputs)]

\* The coins of genesis are minted and settled in one step, before any other.
Genesis == settled = EmptyLedger /\ working = EmptyLedger /\ MintCoins /\ settled' = working'

Mint == MintCoins /\ UNCHANGED settled

Settle == settled' = working /\ UNCHANGED working

Abandon == working' = settled /\ UNCHANGED settled

Next == Genesis \/ Transfer \/ Mint \/ Settle \/ Abandon

Spec == Init /\ [][Next]_<<working, settled>>
=============================================================================
