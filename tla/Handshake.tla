------------------------------ MODULE Handshake ------------------------------
(***************************************************************************)
(* The connection handshake of the IBC component                           *)
(* (ibc/src/component/connection.rs) with another chain.  All messages of  *)
(* a transaction are checked against the state before it and then executed *)
(* one after the other; other chains see what a block ends with.           *)
(*                                                                         *)
(* A proof shows that the other chain has committed an end at some height  *)
(* for which this chain's client has a consensus state.  Clients may be    *)
(* updated to any height in any order (LightClient), so an end can be      *)
(* shown once the other chain has committed it, also long after it has     *)
(* changed, unless the client is frozen.  After its first message for this *)
(* component a transaction may carry client updates whose headers nobody   *)
(* checks (client.rs:131); under a client with such a header anything can  *)
(* be shown.                                                               *)
(*                                                                         *)
(* The other chain is outside the repository: it follows ICS-03.  Its      *)
(* clients are fixed; one that follows somebody else than this chain lets  *)
(* anybody open anything with it.  Delay period and prefix are equal       *)
(* everywhere; the order of versions does not matter.                      *)
(***************************************************************************)
EXTENDS Integers, Sequences, FiniteSets

CONSTANTS
  Clients,        \* this chain's clients of the other chain
  TheirClients,   \* client states of the other chain, by id
  Versions, Version,  \* versions there are, and the one SUPPORTED_VERSIONS has
  ChainId,
  Counterparties, \* that messages name: [client_id, connection_id]
  MaxConnections, MaxTheirs, MaxHeight   \* bounds: connections, blocks

None == -1  \* no connection id

ClientStates ==
  [frozen : BOOLEAN, chain_id : STRING, latest_height : Nat, trust_level : Nat \X Nat,
   unbonding_period : Nat, trusting_period : Nat,
   recorded : SUBSET Nat]  \* heights of this chain it has the right consensus state of

ASSUME HandshakeAssumption ==
  /\ Clients \subseteq Nat
  /\ DOMAIN TheirClients \subseteq Nat
  /\ \A c \in DOMAIN TheirClients : TheirClients[c] \in ClientStates
  /\ Version \in Versions
  /\ Counterparties \subseteq [client_id : DOMAIN TheirClients, connection_id : Nat \union {None}]
  /\ MaxConnections \in Nat /\ MaxTheirs \in Nat /\ MaxHeight \in Nat \ {0}

Ids == 0 .. MaxConnections - 1
TheirIds == 0 .. MaxTheirs - 1

End(st, client, their_client, their_id, versions) ==
  [state |-> st, client_id |-> client,
   counterparty |-> [client_id |-> their_client, connection_id |-> their_id],
   versions |-> versions]

VARIABLES
  state,   \* connections, their counter, connection ids of each client, and
           \* (history) the connections that a confirmation has opened whose
           \* client had no forged header
  frozen,  \* this chain's clients that are frozen
  forged,  \* those with a consensus state of a header that nobody checked
  height,
  shown,   \* <<id, end>> this chain has committed at some block
  theirs,  \* the other chain's connections
  theirs_shown

vars == <<state, frozen, forged, height, shown, theirs, theirs_shown>>

Pairs(conns) == {<<id, conns[id]>> : id \in DOMAIN conns}

Init ==
  /\ state = [connections |-> << >>, counter |-> 0, listed |-> [c \in Clients |-> {}], confirmed |-> {}]
  /\ frozen = {} /\ forged = {} /\ height = 1 /\ shown = {}
  /\ theirs = << >> /\ theirs_shown = {}

-----------------------------------------------------------------------------
(* Checks                                                                  *)

ValidateTrustThreshold(level) ==
  level[2] # 0 /\ level[1] * 3 >= level[2] /\ level[1] < level[2]

\* validate_penumbra_client_state; all clients have the right proof specs.
ValidatePenumbraClientState(cs) ==
  /\ ~cs.frozen
  /\ cs.chain_id = ChainId
  /\ cs.latest_height < height
  /\ ValidateTrustThreshold(cs.trust_level)
  /\ cs.unbonding_period >= cs.trusting_period

\* verify_connection_state with a client that is not frozen, against one of the
\* roots recorded for it.
VerifyConnectionState(client, their_id, expected) ==
  /\ client \notin frozen
  /\ client \in forged \/ <<their_id, expected>> \in theirs_shown

\* The provided client state is valid and, with verify_connection_proofs, the
\* one the other chain has under the id, as is one of our consensus states;
\* against a forged root any valid client state will do.
VerifyClientProofs(client, their_client) ==
  \/ client \in forged
  \/ /\ their_client \in DOMAIN TheirClients
     /\ ValidatePenumbraClientState(TheirClients[their_client])
     /\ \E h \in 1 .. height : h \in TheirClients[their_client].recorded

Exists(id) == id \in DOMAIN state.connections

\* Mutant: the previous connection may be in any state.
ValidateTryAnyState(msg) ==
  /\ msg.previous # None =>
       /\ Exists(msg.previous)
       /\ state.connections[msg.previous].client_id = msg.client_id
  /\ Version \in msg.versions /\ msg.counterparty.connection_id # None
  /\ VerifyConnectionState(msg.client_id, msg.counterparty.connection_id,
       End("Init", msg.counterparty.client_id, msg.client_id, None, msg.versions))
  /\ VerifyClientProofs(msg.client_id, msg.counterparty.client_id)

\* validate_connection_open_try.  The previous connection, if there is one,
\* has the supported version too.
ValidateTry(msg) ==
  /\ msg.client_id \in Clients
  /\ msg.previous # None =>
       /\ Exists(msg.previous)
       /\ LET previous == state.connections[msg.previous]
          IN /\ previous.state = "Init"
             /\ previous.counterparty = msg.counterparty
             /\ previous.client_id = msg.client_id
  /\ Version \in msg.versions
  /\ msg.counterparty.connection_id # None
  /\ VerifyConnectionState(msg.client_id, msg.counterparty.connection_id,
       End("Init", msg.counterparty.client_id, msg.client_id, None, msg.versions))
  /\ VerifyClientProofs(msg.client_id, msg.counterparty.client_id)

\* validate_connection_open_ack.  The counterparty it builds, "we are the
\* counterparty here", has this chain's client and the id of the other
\* chain's connection; it stands for both chains in the proofs.
ValidateAck(msg) ==
  /\ Exists(msg.connection_id)
  /\ LET connection == state.connections[msg.connection_id]
     IN /\ connection.state \in {"Init", "TryOpen"} /\ msg.version \in connection.versions
        /\ VerifyConnectionState(connection.client_id, msg.counterparty_connection_id,
             End("TryOpen", connection.counterparty.client_id,
                 connection.client_id, msg.counterparty_connection_id, {msg.version}))
        /\ VerifyClientProofs(connection.client_id, connection.client_id)

\* Mutant: the other end may name any connection of this chain.
ValidateConfirmAnyId(msg) ==
  /\ Exists(msg.connection_id)
  /\ LET connection == state.connections[msg.connection_id]
     IN /\ connection.state = "TryOpen" /\ connection.client_id \notin frozen
        /\ \E id \in Ids :
             VerifyConnectionState(connection.client_id, connection.counterparty.connection_id,
               End("Open", connection.counterparty.client_id, connection.client_id, id,
                   connection.versions))

\* validate_connection_open_confirm.
ValidateConfirm(msg) ==
  /\ Exists(msg.connection_id)
  /\ LET connection == state.connections[msg.connection_id]
     IN /\ connection.state = "TryOpen"
        /\ connection.counterparty.connection_id # None
        /\ VerifyConnectionState(connection.client_id, connection.counterparty.connection_id,
             End("Open", connection.counterparty.client_id,
                 connection.client_id, msg.connection_id, connection.versions))

\* check_tx_stateless and validate_ibc_action_stateful.
Validate(msg) ==
  CASE msg.type = "open_init"    -> msg.version = Version /\ msg.client_id \in Clients
    [] msg.type = "open_try"     -> ValidateTry(msg)
    [] msg.type = "open_ack"     -> ValidateAck(msg)
    [] msg.type = "open_confirm" -> ValidateConfirm(msg)

-----------------------------------------------------------------------------
(* Execution                                                               *)

Put(s, id, end) == [k \in DOMAIN s.connections \union {id} |-> IF k = id THEN end ELSE s.connections[k]]

\* Mutant: the counter is not put back.
PutNewConnectionUncounted(s, id, end) ==
  [s EXCEPT !.connections = Put(s, id, end), !.confirmed = @ \ {id},
            !.listed[end.client_id] = @ \union {id}]

\* put_new_connection: the counter grows also when an id is used again, and
\* the client lists the id again.
PutNewConnection(s, id, end) ==
  [connections |-> Put(s, id, end), counter |-> s.counter + 1,
   listed |-> [s.listed EXCEPT ![end.client_id] = @ \union {id}],
   confirmed |-> s.confirmed \ {id}]

ExecuteInit(s, msg) ==
  PutNewConnection(s, s.counter,
    End("Init", msg.client_id, msg.counterparty.client_id, msg.counterparty.connection_id, {Version}))

\* pick_version leaves the supported version.
ExecuteTry(s, msg) ==
  PutNewConnection(s, IF msg.previous # None THEN msg.previous ELSE s.counter,
    End("TryOpen", msg.client_id, msg.counterparty.client_id, msg.counterparty.connection_id, {Version}))

\* The counterparty's connection becomes this chain's own connection id.
ExecuteAck(s, msg) ==
  LET id == msg.connection_id
      connection == s.connections[id]
      end == End("Open", connection.client_id, connection.counterparty.client_id, id, {msg.version})
  IN [connections |-> Put(s, id, end), counter |-> s.counter, listed |-> s.listed,
      confirmed |-> s.confirmed \ {id}]

ExecuteConfirm(s, msg) ==
  LET id == msg.connection_id
      connection == s.connections[id]
      end == [connection EXCEPT !.state = "Open"]
  IN [connections |-> Put(s, id, end), counter |-> s.counter, listed |-> s.listed,
      confirmed |-> IF connection.state = "Open" \/ connection.client_id \in forged
                    THEN s.confirmed ELSE s.confirmed \union {id}]

Execute(s, msg) ==
  CASE msg.type = "open_init"    -> ExecuteInit(s, msg)
    [] msg.type = "open_try"     -> ExecuteTry(s, msg)
    [] msg.type = "open_ack"     -> ExecuteAck(s, msg)
    [] msg.type = "open_confirm" -> ExecuteConfirm(s, msg)

Messages ==
  [type : {"open_init"}, client_id : Clients, counterparty : Counterparties, version : Versions]
  \union [type : {"open_try"}, previous : Ids \union {None}, client_id : Clients,
          counterparty : Counterparties, versions : SUBSET Versions]
  \union [type : {"open_ack"}, connection_id : Ids, counterparty_connection_id : TheirIds,
          version : Versions]
  \union [type : {"open_confirm"}, connection_id : Ids]

\* check_tx_stateful: the transactions with one or two messages for this
\* component that are each valid in the state before.
CheckedTxs ==
  LET valid == {msg \in Messages : Validate(msg)}
  IN  {<<msg>> : msg \in valid} \union (valid \X valid)

\* execute_tx, and updates behind the first message that the client component
\* executes unchecked.
DeliverTx(tx, updated) ==
  /\ LET first == Execute(state, tx[1])
     IN state' = IF Len(tx) = 2 THEN Execute(first, tx[2]) ELSE first
  /\ state'.counter <= MaxConnections
  /\ forged' = forged \union updated
  /\ UNCHANGED <<frozen, height, shown, theirs, theirs_shown>>

\* The block is committed and the next one begins, with its own consensus state.
NextBlock ==
  /\ height < MaxHeight
  /\ height' = height + 1
  /\ shown' = shown \union Pairs(state.connections)
  /\ UNCHANGED <<state, frozen, forged, theirs, theirs_shown>>

\* LightClient: an update that conflicts with another freezes the client.
Freeze(client) ==
  /\ frozen' = frozen \union {client}
  /\ UNCHANGED <<state, forged, height, shown, theirs, theirs_shown>>

-----------------------------------------------------------------------------
(* The other chain: every step is a block                                  *)

TheirPut(id, end) ==
  /\ theirs' = [k \in DOMAIN theirs \union {id} |-> IF k = id THEN end ELSE theirs[k]]
  /\ theirs_shown' = theirs_shown \union Pairs(theirs')
  /\ UNCHANGED <<state, frozen, forged, height, shown>>

FollowsUs(c) == TheirClients[c].chain_id = ChainId /\ TheirClients[c].recorded # {}
NewId == Cardinality(DOMAIN theirs)

TheirInit(c, client, versions) ==
  /\ NewId < MaxTheirs
  /\ TheirPut(NewId, End("Init", c, client, None, versions))

\* From an Init end of this chain, or of whatever chain the client follows.
TheirTry(c, client, id, version) ==
  /\ NewId < MaxTheirs
  /\ FollowsUs(c) =>
       \E versions \in SUBSET Versions :
         version \in versions /\ <<id, End("Init", client, c, None, versions)>> \in shown
  /\ TheirPut(NewId, End("TryOpen", c, client, id, {version}))

TheirAck(j, id, version) ==
  /\ j \in DOMAIN theirs /\ theirs[j].state = "Init" /\ version \in theirs[j].versions
  /\ LET c == theirs[j].client_id
         client == theirs[j].counterparty.client_id
     IN /\ FollowsUs(c) => <<id, End("TryOpen", client, c, j, {version})>> \in shown
        /\ TheirPut(j, End("Open", c, client, id, {version}))

TheirConfirm(j) ==
  /\ j \in DOMAIN theirs /\ theirs[j].state = "TryOpen"
  /\ LET end == theirs[j]
         id == end.counterparty.connection_id
     IN /\ FollowsUs(end.client_id) =>
             <<id, End("Open", end.counterparty.client_id, end.client_id, j, end.versions)>> \in shown
        /\ TheirPut(j, [end EXCEPT !.state = "Open"])

Next ==
  \/ \E tx \in CheckedTxs, updated \in SUBSET Clients : DeliverTx(tx, updated)
  \/ NextBlock
  \/ \E c \in Clients : Freeze(c)
  \/ \E c \in DOMAIN TheirClients, client \in Clients :
       \/ \E versions \in SUBSET Versions \ {{}} : TheirInit(c, client, versions)
       \/ \E id \in Ids, version \in Versions : TheirTry(c, client, id, version)
  \/ \E j \in TheirIds, id \in Ids, version \in Versions : TheirAck(j, id, version)
  \/ \E j \in TheirIds : TheirConfirm(j)

Spec == Init /\ [][Next]_vars

-----------------------------------------------------------------------------
(* Properties                                                              *)

\* The shape of the connections.
Ends ==
  [state : {"Init", "TryOpen", "Open"}, client_id : Nat,
   counterparty : [client_id : Nat, connection_id : Nat \union {None}], versions : SUBSET Versions]
TypeOK ==
  /\ \A id \in DOMAIN state.connections : state.connections[id] \in Ends
  /\ DOMAIN state.connections \subseteq Ids /\ state.counter \in 0 .. MaxConnections
  /\ state.confirmed \subseteq DOMAIN state.connections
  /\ frozen \subseteq Clients /\ forged \subseteq Clients /\ height \in 1 .. MaxHeight

\* Ids are given out once: every connection is below the counter, so that the
\* next one replaces none, and is listed by its client.
ConnectionsListed ==
  \A id \in DOMAIN state.connections :
    id < state.counter /\ id \in state.listed[state.connections[id].client_id]

\* A connection that was opened by a confirmation, while every header recorded
\* for its client was one of the other chain, is open at both ends, and the
\* two ends name each other, however old the proofs were that opened it and
\* whatever is recorded later: one end of the other chain is never the
\* counterparty of two of them.  The client under which the other chain keeps
\* it follows this chain.  Nothing is said of confirmations checked against a
\* forged header, which are left out of state.confirmed.
ConfirmedAgree ==
  \A id \in state.confirmed :
    LET end == state.connections[id]
        j == end.counterparty.connection_id
    IN /\ j \in DOMAIN theirs
       /\ theirs[j].state = "Open"
       /\ theirs[j].counterparty = [client_id |-> end.client_id, connection_id |-> id]
       /\ theirs[j].client_id = end.counterparty.client_id
       /\ FollowsUs(end.counterparty.client_id)

\* No transaction changes an end that is open, or the client at either side of
\* any end, also when its messages were checked before each other's effects.
EndsKept ==
  [][\A id \in DOMAIN state.connections :
       LET old == state.connections[id]
           new == state'.connections[id]
       IN /\ old.state = "Open" => new = old
          /\ new.client_id = old.client_id
          /\ new.counterparty.client_id = old.counterparty.client_id]_vars
=============================================================================
