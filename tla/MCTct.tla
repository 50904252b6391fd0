------------------------------- MODULE MCTct -------------------------------
(***************************************************************************)
(* Instances of the tiered commitment tree for TLC.                        *)
(***************************************************************************)
EXTENDS Tct

CommitmentSymmetry == Permutations(Commitments)
=============================================================================
