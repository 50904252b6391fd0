-------------------------------- MODULE MCNode --------------------------------
(***************************************************************************)
(* Instances of Node for TLC.                                              *)
(***************************************************************************)
EXTENDS Node

Alloc(amount, address) == [amount |-> amount, address |-> address]
Tx(id, spends, outputs, fee) == [id |-> id, spends |-> spends, outputs |-> outputs, fee |-> fee]

MCAllocations == {Alloc(x, y) : x \in 1 .. 3, y \in {"alice", "bob"}}
MCGenesis == <<Alloc(1, "alice"), Alloc(2, "bob")>>

\* Two conflicting spends of note 1, one that spends both genesis notes and
\* pays a fee, one that spends a note of a block, one that names note 1 twice,
\* and one that creates more than it spends.
MCTxs ==
  {Tx("pay", <<1>>, <<Alloc(1, "bob")>>, 0),
   Tx("other", <<1>>, <<Alloc(1, "alice")>>, 0),
   Tx("join", <<1, 2>>, <<Alloc(2, "alice")>>, 1),
   Tx("again", <<3>>, <<Alloc(1, "alice")>>, 0),
   Tx("twice", <<1, 1>>, <<Alloc(2, "alice")>>, 0),
   Tx("more", <<1>>, <<Alloc(2, "alice")>>, 0)}

MCRewards == {<< >>, <<Alloc(1, "alice")>>}
NoRewards == {<< >>}

\* Mempool instance: conflicting transactions only.
MCMempoolTxs == {tx \in MCTxs : tx.id \in {"pay", "other"}}
=============================================================================
