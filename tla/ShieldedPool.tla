----------------------------- MODULE ShieldedPool -----------------------------
(***************************************************************************)
(* The shielded pool (shielded-pool/src/component.rs) as operators on an   *)
(* App: a copy-on-write instance of the chain state (`state') with what    *)
(* the component keeps in memory, the note commitment tree and the compact *)
(* block in progress.  Node gives an App to each of pd's two workers.      *)
(*                                                                         *)
(* Cryptography is ideal: a commitment is the note it commits to, a root   *)
(* is the sequence of commitments under it, and a nullifier is a position  *)
(* and the commitment there.  A spend proof verifies exactly for a         *)
(* position of the tree under the anchor, and the binding signature        *)
(* exactly when a transaction creates the value it spends, less its fee.   *)
(* The staking token stands for all assets.                                *)
(***************************************************************************)
EXTENDS Integers, Sequences, FiniteSets, FiniteSetsExt

CONSTANTS
  Allocations,        \* [amount, address]: contents of the notes of the model
  GenesisAllocations  \* sequence of them, in genesis order

ASSUME PoolAssumption ==
  /\ \A a \in Allocations : a.amount \in Nat
  /\ GenesisAllocations \in Seq(Allocations)

\* A transaction spends the notes at some positions, creates others and pays a fee.
Transaction(tx) ==
  /\ tx.spends \in Seq(Nat \ {0})
  /\ tx.outputs \in Seq(Allocations)
  /\ tx.fee \in Nat

\* The key-value store extended or overwritten at one key, or at a set of keys.
Put(f, k, v) == [x \in DOMAIN f \union {k} |-> IF x = k THEN v ELSE f[x]]
PutAll(f, K, v) == [x \in DOMAIN f \union K |-> IF x \in K THEN v ELSE f[x]]
Nothing == [x \in {} |-> 0]

Genesis == "genesis"
Reward == "reward"

Note(allocation, blinding) ==
  [amount |-> allocation.amount, address |-> allocation.address, blinding |-> blinding]

\* CompactBlock::default
EmptyBlock == [height |-> 0, outputs |-> << >>, nullifiers |-> << >>]

\* What the state holds before genesis: no keys.
EmptyState ==
  [height |-> -1,
   nct |-> << >>,               \* shielded_pool/nct_data
   nct_anchor |-> Nothing,      \* .../nct_anchor/{height}
   valid_anchors |-> Nothing,   \* .../valid_anchors/{root}
   spent |-> Nothing,           \* .../spent_nullifiers/{nullifier}
   source |-> Nothing,          \* .../note_source/{commitment}
   compact_block |-> Nothing,   \* .../compact_block/{height}
   supply |-> 0]                \* .../assets/{id}/token_supply

\* App::new: the component reads the tree back from the state.
AppNew(state) == [state |-> state, nct |-> state.nct, block |-> EmptyBlock]

-----------------------------------------------------------------------------
(* Notes                                                                   *)

\* Mutant: the notes do not reach the compact block.
AddNotesUnannounced(app, new, source) ==
  [state |-> [app.state EXCEPT !.source = PutAll(@, {new[i] : i \in DOMAIN new}, source)],
   nct   |-> app.nct \o new,
   block |-> app.block]

\* add_note, for a sequence of notes of one source.
AddNotes(app, new, source) ==
  [state |-> [app.state EXCEPT !.source = PutAll(@, {new[i] : i \in DOMAIN new}, source)],
   nct   |-> app.nct \o new,
   block |-> [app.block EXCEPT !.outputs = @ \o new]]

\* The position a minted note's blinding factor is derived from: that of the
\* last note of a tree of n notes, and 0 for the empty tree.
LastPosition(n) == IF n = 0 THEN 0 ELSE n - 1

TotalAmount(s) == SumFunction([i \in DOMAIN s |-> s[i].amount])

\* mint_note, for a sequence of notes minted one after the other.
MintNotes(app, minted, source) ==
  AddNotes([app EXCEPT !.state.supply = @ + TotalAmount(minted)],
           [i \in DOMAIN minted |->
              Note(minted[i], <<"mint", LastPosition(Len(app.nct) + i - 1)>>)],
           source)

\* Mutant: the anchor is written from the stored tree, before it is replaced.
WriteOldAnchor(app) ==
  [state |-> [app.state EXCEPT !.compact_block = Put(@, app.block.height, app.block),
                               !.nct_anchor = Put(@, EmptyBlock.height, app.nct),
                               !.valid_anchors = Put(@, app.state.nct, EmptyBlock.height),
                               !.nct = app.nct],
   nct   |-> app.nct,
   block |-> EmptyBlock]

\* write_compactblock_and_nct: mem::take leaves the default block behind, and
\* the anchor is then written for the height of that one.
WriteCompactBlockAndNct(app) ==
  [state |-> [app.state EXCEPT !.compact_block = Put(@, app.block.height, app.block),
                               !.nct_anchor = Put(@, EmptyBlock.height, app.nct),
                               !.valid_anchors = Put(@, app.nct, EmptyBlock.height),
                               !.nct = app.nct],
   nct   |-> app.nct,
   block |-> EmptyBlock]

-----------------------------------------------------------------------------
(* The component's handlers                                                *)

InitChain(app) ==
  WriteCompactBlockAndNct(
    MintNotes([app EXCEPT !.state.height = 0], GenesisAllocations, Genesis))

BeginBlock(app, height) == [app EXCEPT !.state.height = height]

\* Nullifiers and notes of a transaction made against the tree under anchor.
Nullifiers(tx, anchor) == [i \in DOMAIN tx.spends |-> <<tx.spends[i], anchor[tx.spends[i]]>>]
OutputNotes(tx) == [i \in DOMAIN tx.outputs |-> Note(tx.outputs[i], <<tx.id, i>>)]

SpendsVerify(tx, anchor) == \A i \in DOMAIN tx.spends : tx.spends[i] \in DOMAIN anchor
BindingSigVerifies(tx, anchor) ==
  SumFunction([i \in DOMAIN tx.spends |-> anchor[tx.spends[i]].amount]) =
    TotalAmount(tx.outputs) + tx.fee

\* Mutant: the nullifiers of one transaction are not compared.
CheckTxStatelessNoPairs(tx, anchor) == SpendsVerify(tx, anchor) /\ BindingSigVerifies(tx, anchor)

CheckTxStateless(tx, anchor) ==
  /\ SpendsVerify(tx, anchor)
  /\ BindingSigVerifies(tx, anchor)
  /\ \A i, j \in DOMAIN tx.spends : i # j => Nullifiers(tx, anchor)[i] # Nullifiers(tx, anchor)[j]

CheckClaimedAnchor(state, anchor) == anchor \in DOMAIN state.valid_anchors
CheckNullifierUnspent(state, nullifier) == nullifier \notin DOMAIN state.spent

CheckTxStateful(app, tx, anchor) ==
  /\ CheckClaimedAnchor(app.state, anchor)
  /\ \A i \in DOMAIN tx.spends : CheckNullifierUnspent(app.state, Nullifiers(tx, anchor)[i])

CheckTx(app, tx, anchor) == CheckTxStateless(tx, anchor) /\ CheckTxStateful(app, tx, anchor)

\* Mutants: earlier spends are attributed to this transaction; nullifiers are
\* announced twice.
SpendRelabel(app, nullifiers, source) ==
  [state |-> [app.state EXCEPT
                !.spent = PutAll(@, DOMAIN @ \union {nullifiers[i] : i \in DOMAIN nullifiers}, source)],
   nct   |-> app.nct,
   block |-> [app.block EXCEPT !.nullifiers = @ \o nullifiers]]
SpendAnnounceTwice(app, nullifiers, source) ==
  [state |-> [app.state EXCEPT !.spent = PutAll(@, {nullifiers[i] : i \in DOMAIN nullifiers}, source)],
   nct   |-> app.nct,
   block |-> [app.block EXCEPT !.nullifiers = @ \o nullifiers \o nullifiers]]

SpendNullifiers(app, nullifiers, source) ==
  [state |-> [app.state EXCEPT !.spent = PutAll(@, {nullifiers[i] : i \in DOMAIN nullifiers}, source)],
   nct   |-> app.nct,
   block |-> [app.block EXCEPT !.nullifiers = @ \o nullifiers]]

ExecuteTx(app, tx, anchor) ==
  SpendNullifiers(AddNotes(app, OutputNotes(tx), tx.id), Nullifiers(tx, anchor), tx.id)

\* end_block: rewards are the commission notes the staking component left for this height.
EndBlock(app, rewards) ==
  WriteCompactBlockAndNct(
    MintNotes([app EXCEPT !.block.height = app.state.height], rewards, Reward))
=============================================================================
