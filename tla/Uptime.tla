-------------------------------- MODULE Uptime --------------------------------
(***************************************************************************)
(* The uptime tracker of a validator (stake/src/uptime.rs): a bit vector   *)
(* used as a ring buffer over the last `window' blocks, TRUE for a signed  *)
(* block.  A new tracker starts with every bit set, as a grace period.     *)
(***************************************************************************)
EXTENDS Naturals, FiniteSets

UptimeOver(window) ==
  [as_of_block_height : Nat, signatures : [0 .. (window - 1) -> BOOLEAN]]

\* Uptime::new
NewUptime(height, window) ==
  [as_of_block_height |-> height, signatures |-> [i \in 0 .. (window - 1) |-> TRUE]]

\* The precondition mark_height_as_signed checks before it writes.
IsNextHeight(uptime, height) == height = uptime.as_of_block_height + 1

\* Mutant: a signature does not clear the miss that was there.
MarkMissesOnly(uptime, height, signed, window) ==
  [as_of_block_height |-> height,
   signatures |-> [uptime.signatures EXCEPT ![height % window] = @ /\ signed]]

\* Uptime::mark_height_as_signed
MarkHeightAsSigned(uptime, height, signed, window) ==
  [as_of_block_height |-> height,
   signatures |-> [uptime.signatures EXCEPT ![height % window] = signed]]

\* Mutant: the ones are counted, not the zeros.
NumSignedBlocks(uptime) ==
  Cardinality({i \in DOMAIN uptime.signatures : uptime.signatures[i]})

\* Uptime::num_missed_blocks
NumMissedBlocks(uptime) ==
  Cardinality({i \in DOMAIN uptime.signatures : ~uptime.signatures[i]})
=============================================================================
