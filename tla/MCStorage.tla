------------------------------ MODULE MCStorage ------------------------------
(***************************************************************************)
(* Instances of Storage for TLC: batches of different shapes, so that a    *)
(* prefix of one may end in an internal node or in a leaf.                 *)
(***************************************************************************)
EXTENDS Storage

MCBatches ==
  [v \in 0 .. MaxVersion |->
     IF v % 2 = 0 THEN <<"internal", "leaf", "internal", "leaf">>
                  ELSE <<"internal", "internal", "leaf">>]
=============================================================================
