---------------------------- MODULE UptimeTracker ----------------------------
(***************************************************************************)
(* The life of one validator's tracker as stake/src/component.rs uses it:  *)
(* Uptime::new when the validator becomes active, then track_uptime for    *)
(* each block, which decodes the stored protobuf, records the block and    *)
(* stores the encoding again.  The tracker is shown to implement           *)
(* SlidingWindow, for any window length, a multiple of a byte or not.      *)
(***************************************************************************)
EXTENDS Uptime

CONSTANTS
  WindowLen,      \* signed_blocks_window_len
  InitialHeight,  \* height at which the validator became active
  ByteBits,       \* bits in a byte: 8
  MaxHeight       \* bound on the heights tried

ASSUME TrackerAssumption ==
  /\ WindowLen \in Nat \ {0} /\ InitialHeight \in Nat
  /\ ByteBits \in Nat \ {0} /\ MaxHeight \in Nat

VARIABLES
  stored,  \* staking/validator_uptime/{id}: a pb::Uptime
  vote     \* signed_last_block of the latest vote tracked

vars == <<stored, vote>>

\* Bits of the bytes that hold a bit vector of this length.
BufferLen(len) == ((len + ByteBits - 1) \div ByteBits) * ByteBits

\* From<Uptime> for pb::Uptime: bits beyond the vector are set.
Encode(uptime) ==
  [as_of_block_height |-> uptime.as_of_block_height,
   window_len |-> WindowLen,
   bitvec |-> [i \in 0 .. BufferLen(WindowLen) - 1 |->
                 IF i < WindowLen THEN uptime.signatures[i] ELSE TRUE]]

\* TryFrom<pb::Uptime>: the vector is truncated to the window length.
Decode(pb) ==
  [as_of_block_height |-> pb.as_of_block_height,
   signatures |-> [i \in 0 .. pb.window_len - 1 |-> pb.bitvec[i]]]

Init ==
  /\ stored = Encode(NewUptime(InitialHeight, WindowLen))
  /\ vote = TRUE

\* A block at this height, signed or not.  Any other height than the next is
\* an error, which leaves the stored tracker alone.
Track(height, signed) ==
  /\ IsNextHeight(Decode(stored), height)
  /\ stored' = Encode(MarkHeightAsSigned(Decode(stored), height, signed, WindowLen))
  /\ vote' = signed

Next == \E height \in 0 .. MaxHeight, signed \in BOOLEAN : Track(height, signed)

Spec == Init /\ [][Next]_vars

-----------------------------------------------------------------------------

\* The ring buffer read from the oldest block to the latest.
Oldest(uptime) ==
  [i \in 1 .. WindowLen |-> uptime.signatures[(uptime.as_of_block_height + i) % WindowLen]]

Window == INSTANCE SlidingWindow
            WITH height <- Decode(stored).as_of_block_height, recent <- Oldest(Decode(stored))

\* The ring buffer behind its encoding is a sliding window: no block of the
\* last WindowLen is forgotten early or remembered late.
ImplementsWindow == Window!Spec

\* num_missed_blocks counts the missed blocks of the window, and never the
\* padding bits of the encoding.
CountsTheWindow ==
  NumMissedBlocks(Decode(stored)) = Cardinality({i \in 1 .. WindowLen : ~Oldest(Decode(stored))[i]})
=============================================================================
