---------------------------- MODULE MCLightClient ----------------------------
(***************************************************************************)
(* A chain whose validators have signed a fork at height 2 and a header at *)
(* height 4 that is older than the one at height 3.                        *)
(***************************************************************************)
EXTENDS LightClient

CONSTANTS v1, v2

MCHeader(h, t, root, validators, next) ==
  [height |-> h, time |-> t, root |-> root, validators |-> validators, next |-> next]

MCForged == MCHeader(3, 1, "forged", v2, v2)
MCSigned ==
  {MCHeader(1, 1, "a", v1, v1), MCHeader(2, 2, "a", v1, v1), MCHeader(2, 2, "b", v1, v1),
   MCHeader(3, 4, "a", v1, v2), MCHeader(4, 3, "a", v1, v2), MCHeader(4, 5, "a", v2, v2)}
MCHeaders == MCSigned \union {MCForged}

MCOverlap == {<<v1, v1>>, <<v2, v2>>, <<v1, v2>>}
=============================================================================
