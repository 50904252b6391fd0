---------------------------- MODULE SlidingWindow ----------------------------
(***************************************************************************)
(* What an uptime tracker promises (stake/src/uptime.rs, doc comment of    *)
(* Uptime): to know, as of the latest block, whether the validator signed  *)
(* each of the last WindowLen blocks.  Blocks from before the tracker was  *)
(* made count as signed.                                                   *)
(***************************************************************************)
EXTENDS Naturals, Sequences

CONSTANTS WindowLen, InitialHeight

VARIABLES
  vote,    \* did the validator sign the latest block
  height,  \* the latest block recorded
  recent   \* recent[i]: was block height - WindowLen + i signed

Init ==
  /\ vote = TRUE
  /\ height = InitialHeight
  /\ recent = [i \in 1 .. WindowLen |-> TRUE]

Record(signed) ==
  /\ vote' = signed
  /\ height' = height + 1
  /\ recent' = [i \in 1 .. WindowLen |-> IF i = WindowLen THEN signed ELSE recent[i + 1]]

Next == \E signed \in BOOLEAN : Record(signed)

Spec == Init /\ [][Next]_<<vote, height, recent>>
=============================================================================
