----------------------------- MODULE LightClient -----------------------------
(***************************************************************************)
(* The light clients of other chains kept by the IBC component             *)
(* (ibc/src/component/client.rs and its submodules): clients are created,  *)
(* and updated with headers of the other chain, by the messages of         *)
(* transactions.  All messages of a transaction are checked against the    *)
(* state before it and then executed one after the other: a step of the    *)
(* model executes one message, and the checks read `before', the state     *)
(* from which the transaction started.  Since what is left of a checked    *)
(* transaction when its last messages are dropped is again one that passes *)
(* its checks, its messages may be chosen one at a time.                   *)
(*                                                                         *)
(* A consensus state is what the chain keeps of a header.  Outside the     *)
(* repository, and modelled from how it is used: Tendermint's light client *)
(* verifier, and the client state of the ibc crate, whose with_header      *)
(* takes over the height of any header.  The revision number, the client   *)
(* type and the textual ids are the same everywhere and left out.          *)
(*                                                                         *)
(* The switch IBCComponent::enabled is on: what the component does with    *)
(* messages, not whether it is given any, is the subject.                  *)
(***************************************************************************)
EXTENDS Integers, Sequences

CONSTANTS
  Headers,         \* headers that may be submitted: [height, time, root, validators, next]
  Signed,          \* those of them that their validators have signed
  ValidatorSets,
  Overlap,         \* pairs of validator sets with trust level in common
  TrustingPeriod, MaxClockDrift,  \* of the client states
  TimeSteps,       \* time between two blocks of this chain
  MaxClients, MaxHeight, MaxMessages  \* bounds: clients, blocks, messages of a transaction

ASSUME LightClientAssumption ==
  /\ Headers \subseteq [height : Nat \ {0}, time : Nat, root : STRING,
                        validators : ValidatorSets, next : ValidatorSets]
  /\ Signed \subseteq Headers
  /\ Overlap \subseteq ValidatorSets \X ValidatorSets
  /\ TrustingPeriod \in Nat /\ MaxClockDrift \in Nat
  /\ TimeSteps \subseteq Nat
  /\ MaxClients \in Nat /\ MaxHeight \in Nat /\ MaxMessages \in Nat

None == 0  \* no frozen height; heights start at 1

Heights == {h.height : h \in Headers}
ConsensusStates == [time : Nat, root : STRING, next : ValidatorSets]
ClientData == [latest_height : Nat, frozen_height : Nat, processed_time : Nat, processed_height : Nat]

VARIABLES
  state,     \* the component's part of the State
  before,    \* the same at the start of the transaction, what its checks read
  passed,    \* a message for another component has ended the checks
  executed,  \* number of messages executed
  own,       \* penumbra_consensus_states: block time by height
  now,       \* block timestamp
  panicked   \* an unwrap has ended the worker

transaction == <<before, passed, executed>>
vars == <<state, transaction, own, now, panicked>>

height == Len(own)

\* What from(header) keeps.
ConsensusState(header) == [time |-> header.time, root |-> header.root, next |-> header.next]

Init ==
  /\ state = [counter |-> 0, clients |-> << >>, consensus |-> << >>, verified_heights |-> << >>]
  /\ before = state /\ passed = FALSE /\ executed = 0
  /\ own = << >> /\ now = 0 /\ panicked = FALSE

-----------------------------------------------------------------------------
(* Messages                                                                *)

\* The client state and the consensus state a client is created with are taken
\* on trust, whoever made them; the client may be frozen from the start.
CreateMessages ==
  {[type |-> "create", latest_height |-> h.height, frozen_height |-> f, consensus_state |-> ConsensusState(h)] :
     h \in Headers, f \in {None} \union Heights}
UpdateMessages ==
  [type : {"update"}, client_id : 0 .. MaxClients - 1, header : Headers,
   trusted_height : Heights, trusted_validators : ValidatorSets]
OtherMessage == [type |-> "other"]  \* any message for the connection component
\* A client message whose bytes MsgCreateAnyClient or MsgUpdateAnyClient does
\* not accept, or not one of a Tendermint client.
MalformedMessage == [type |-> "malformed"]
Messages == CreateMessages \union UpdateMessages \union {OtherMessage, MalformedMessage}

Exists(s, id) == id \in 0 .. s.counter - 1
HasState(s, id, h) == h \in DOMAIN s.consensus[id]

\* duration_since is an error when the latest state is ahead of the block
\* time, and expired compares with the trusting period.
NotExpired(s, id) ==
  LET latest == s.consensus[id][s.clients[id].latest_height].time
  IN latest <= now /\ now - latest <= TrustingPeriod

AlreadyCommitted(s, id, header) ==
  HasState(s, id, header.height) /\ s.consensus[id][header.height] = ConsensusState(header)

\* ProdVerifier::verify.
Verify(header, trusted_height, trusted) ==
  /\ header \in Signed
  /\ trusted.time + TrustingPeriod > now
  /\ header.time < now + MaxClockDrift
  /\ header.time > trusted.time
  /\ IF header.height = trusted_height + 1
     THEN header.validators = trusted.next
     ELSE <<trusted.next, header.validators>> \in Overlap

\* UpdateClientCheck::validate.
ValidateUpdate(s, msg) ==
  LET id == msg.client_id IN
  /\ Exists(s, id)
  /\ s.clients[id].frozen_height = None
  /\ NotExpired(s, id)
  /\ ~AlreadyCommitted(s, id, msg.header)
  /\ msg.header.height > msg.trusted_height
  /\ HasState(s, id, msg.trusted_height)
  /\ msg.trusted_validators = s.consensus[id][msg.trusted_height].next
  /\ Verify(msg.header, msg.trusted_height, s.consensus[id][msg.trusted_height])

Validate(s, msg) ==
  /\ msg.type # "malformed"
  /\ msg.type = "update" => ValidateUpdate(s, msg)

\* check_tx_stateless and check_tx_stateful: all messages are checked against
\* the same state, up to the first that is not for this component, where the
\* check ends.
Checked(msg) == passed \/ Validate(before, msg)

-----------------------------------------------------------------------------
(* Execution                                                               *)

PutClientData(s, id, data) ==
  [counter |-> s.counter, clients |-> [s.clients EXCEPT ![id] = data],
   consensus |-> s.consensus, verified_heights |-> s.verified_heights]

\* Mutant: the height is not recorded.
PutConsensusStateOnly(s, id, h, cs) ==
  [s EXCEPT !.consensus[id] = [k \in DOMAIN @ \union {h} |-> IF k = h THEN cs ELSE @[k]]]

\* put_verified_consensus_state; only the members of the list of heights count.
PutConsensusState(s, id, h, cs) ==
  [counter |-> s.counter,
   clients |-> s.clients,
   consensus |-> [s.consensus EXCEPT ![id] = [k \in DOMAIN @ \union {h} |-> IF k = h THEN cs ELSE @[k]]],
   verified_heights |-> [s.verified_heights EXCEPT ![id] = @ \union {h}]]

ExecuteCreate(s, msg) ==
  LET id == s.counter
      data == [latest_height |-> msg.latest_height, frozen_height |-> msg.frozen_height,
               processed_time |-> now, processed_height |-> height]
  IN [counter |-> s.counter + 1,
      clients |-> [i \in 0 .. id |-> IF i = id THEN data ELSE s.clients[i]],
      consensus |-> [i \in 0 .. id |-> IF i = id THEN [h \in {msg.latest_height} |-> msg.consensus_state]
                                                 ELSE s.consensus[i]],
      verified_heights |-> [i \in 0 .. id |-> IF i = id THEN {msg.latest_height}
                                                        ELSE s.verified_heights[i]]]

\* The lowest member of a set of heights, as find gives it on the sorted list.
Lowest(heights) == CHOOSE h \in heights : \A k \in heights : h <= k

\* next_verified_consensus_state and prev_verified_consensus_state: whether
\* the header is as late as the state the latter finds, and no later than the
\* one the former finds.  Both take the first of the sorted list that
\* qualifies.
NotTooEarly(s, id, header) ==
  LET below == {h \in s.verified_heights[id] : h < header.height}
  IN below # {} => header.time >= s.consensus[id][Lowest(below)].time
NotTooLate(s, id, header) ==
  LET above == {h \in s.verified_heights[id] : h > header.height}
  IN above # {} => header.time <= s.consensus[id][Lowest(above)].time

\* Mutant: only what precedes the header is compared with it.
ConflictsEarlier(s, id, header) ==
  IF HasState(s, id, header.height)
  THEN s.consensus[id][header.height] # ConsensusState(header)
  ELSE ~NotTooEarly(s, id, header)
\* Mutant: the header is compared with what was there before the transaction.
ConflictsBefore(s, id, header) ==
  /\ Exists(before, id)
  /\ IF HasState(before, id, header.height)
     THEN before.consensus[id][header.height] # ConsensusState(header)
     ELSE ~NotTooEarly(before, id, header) \/ ~NotTooLate(before, id, header)

\* next_tendermint_state: what freezes the client.
Conflicts(s, id, header) ==
  IF HasState(s, id, header.height)
  THEN s.consensus[id][header.height] # ConsensusState(header)
  ELSE ~NotTooEarly(s, id, header) \/ ~NotTooLate(s, id, header)

\* Mutant: the client state that the checks have read is taken further.
NextClientStateBefore(s, id, header) ==
  LET client == IF Exists(before, id) THEN before.clients[id] ELSE s.clients[id]
  IN [latest_height |-> IF AlreadyCommitted(s, id, header) THEN client.latest_height ELSE header.height,
      frozen_height |-> IF Conflicts(s, id, header) THEN header.height ELSE client.frozen_height,
      processed_time |-> now, processed_height |-> height]

\* next_tendermint_state: with_header takes over the height of the header,
\* unless the very state is there already.
NextClientState(s, id, header) ==
  LET client == s.clients[id]
  IN [latest_height |-> IF AlreadyCommitted(s, id, header) THEN client.latest_height ELSE header.height,
      frozen_height |-> IF Conflicts(s, id, header) THEN header.height ELSE client.frozen_height,
      processed_time |-> now, processed_height |-> height]

\* execute_update_client: the client data, then the consensus state.
ExecuteUpdate(s, msg) ==
  LET id == msg.client_id
  IN PutConsensusState(PutClientData(s, id, NextClientState(s, id, msg.header)),
                       id, msg.header.height, ConsensusState(msg.header))

\* execute_ibc_action unwraps what try_from makes of the message, and
\* execute_update_client what get_client_data finds.
Panics(s, msg) ==
  \/ msg.type = "malformed"
  \/ msg.type = "update" /\ ~Exists(s, msg.client_id)

Execute(s, msg) ==
  CASE msg.type = "create" -> ExecuteCreate(s, msg)
    [] msg.type = "update" -> ExecuteUpdate(s, msg)
    [] msg.type = "other"  -> s

\* execute_ibc_action on the next message of the transaction.  What a panic
\* leaves in memory is lost with the worker.
ExecuteIbcAction(msg) ==
  /\ ~panicked /\ height > 0
  /\ executed < MaxMessages
  /\ Checked(msg)
  /\ panicked' = Panics(state, msg)
  /\ state' = IF Panics(state, msg) THEN state ELSE Execute(state, msg)
  /\ state'.counter <= MaxClients
  /\ passed' = (passed \/ msg.type = "other")
  /\ executed' = executed + 1
  /\ UNCHANGED <<before, own, now>>

\* The checks of the next transaction will read the state as it is now.
EndTx ==
  /\ before' = state /\ passed' = FALSE /\ executed' = 0

NextTx ==
  /\ ~panicked /\ executed > 0
  /\ EndTx
  /\ UNCHANGED <<state, own, now, panicked>>

\* begin_block keeps this chain's own consensus state for its counterparties.
BeginBlock(step) ==
  /\ ~panicked /\ height < MaxHeight
  /\ now' = now + step
  /\ own' = Append(own, now')
  /\ EndTx
  /\ UNCHANGED <<state, panicked>>

Next ==
  \/ \E step \in TimeSteps : BeginBlock(step)
  \/ \E msg \in Messages : ExecuteIbcAction(msg)
  \/ NextTx

Spec == Init /\ [][Next]_vars

-----------------------------------------------------------------------------
(* Properties                                                              *)

IdsOf(s) == 0 .. s.counter - 1
Ids == IdsOf(state)

\* The shape of the component's part of the State: clients have the ids below
\* the counter.
Shape(s) ==
  /\ s.counter \in 0 .. MaxClients
  /\ s.clients \in [IdsOf(s) -> ClientData]
  /\ DOMAIN s.consensus = IdsOf(s) /\ DOMAIN s.verified_heights = IdsOf(s)
  /\ \A id \in IdsOf(s) : s.consensus[id] \in [DOMAIN s.consensus[id] -> ConsensusStates]

\* Type correctness, of the state and of what the checks read.
TypeOK ==
  /\ Shape(state) /\ Shape(before)
  /\ passed \in BOOLEAN /\ executed \in 0 .. MaxMessages
  /\ own \in Seq(Nat) /\ now \in Nat /\ panicked \in BOOLEAN

\* The list of verified heights of a client names exactly the heights that
\* have a consensus state, the latest among them: no lookup by a listed height
\* fails (the unwraps in next_tendermint_state), and the check for expiry
\* finds its state.
HeightsRecorded ==
  \A id \in Ids :
    /\ state.verified_heights[id] = DOMAIN state.consensus[id]
    /\ state.clients[id].latest_height \in state.verified_heights[id]

Frozen(s, id) == s.clients[id].frozen_height # None

\* Two different headers for one height are never taken for the same chain:
\* whenever a message replaces a recorded consensus state by another, the
\* client is frozen afterwards.  A step is one message, so the replaced state
\* may be one that an earlier message of the same transaction has recorded, at
\* a height nobody knew when both were checked.
ConflictFreezes ==
  [][\A id \in Ids : \A h \in DOMAIN state.consensus[id] :
       state'.consensus[id][h] # state.consensus[id][h] => Frozen(state', id)]_vars

\* A frozen client stays frozen: no message revives it, of a later transaction
\* or of the one that froze it, whose other messages were checked while it was
\* not frozen yet.
FrozenIsFinal ==
  [][\A id \in Ids : Frozen(state, id) => Frozen(state', id)]_vars

\* As long as a client is not frozen the lowest recorded height has the least
\* time, in whatever order the headers came in.
LowestIsOldest ==
  \A id \in Ids : ~Frozen(state, id) =>
    LET times == state.consensus[id]
    IN \A h \in DOMAIN times : times[Lowest(DOMAIN times)].time <= times[h].time
=============================================================================
