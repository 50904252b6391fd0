--------------------------- MODULE HandshakeProofs ---------------------------
(***************************************************************************)
(* Theorems about Handshake, for any clients, counterparties, versions and *)
(* bounds.  The messages of a transaction are all checked against the      *)
(* state before it: what a message does is proved of every state that may  *)
(* follow the one it was checked against, so that the second is covered    *)
(* whatever the first has done, and for any set of clients that carry a    *)
(* forged header.                                                          *)
(***************************************************************************)
EXTENDS Handshake, FiniteSetTheorems, TLAPS

\* The two ends name each other, and the other one is open.
Agrees(s, id) ==
  LET end == s.connections[id]
      j == end.counterparty.connection_id
  IN /\ j \in DOMAIN theirs
     /\ theirs[j].state = "Open"
     /\ theirs[j].counterparty = [client_id |-> end.client_id, connection_id |-> id]
     /\ theirs[j].client_id = end.counterparty.client_id
     /\ FollowsUs(end.counterparty.client_id)

\* The inductive invariant of the component's state.  A connection that may
\* yet be confirmed has a counterparty that follows this chain, unless its
\* client has a forged header, which it then keeps.
ConnectionOK(s, id) ==
  /\ id \in Nat /\ id < s.counter
  /\ s.connections[id] \in Ends
  /\ s.connections[id].client_id \in Clients
  /\ id \in s.listed[s.connections[id].client_id]
  /\ s.connections[id].state = "TryOpen" /\ s.connections[id].client_id \notin forged =>
       FollowsUs(s.connections[id].counterparty.client_id)
  /\ id \in s.confirmed => Agrees(s, id)

Good(s) ==
  /\ s = [connections |-> s.connections, counter |-> s.counter, listed |-> s.listed,
          confirmed |-> s.confirmed]
  /\ s.counter \in Nat
  /\ s.listed \in [Clients -> SUBSET Nat]
  /\ s.connections = [id \in DOMAIN s.connections |-> s.connections[id]]
  /\ s.confirmed \subseteq DOMAIN s.connections
  /\ \A id \in DOMAIN s.connections : ConnectionOK(s, id)

\* An end that the other chain has opened is for ever as it was shown, since
\* ids there are given out once.
TheirsOK ==
  /\ NewId \in Nat /\ DOMAIN theirs = 0 .. NewId - 1
  /\ \A j \in DOMAIN theirs : theirs[j].state \in {"Init", "TryOpen", "Open"}
  /\ \A p \in theirs_shown : p[2].state = "Open" => p[1] \in DOMAIN theirs /\ theirs[p[1]] = p[2]

IInv ==
  /\ Good(state) /\ state.counter <= MaxConnections
  /\ TheirsOK
  /\ frozen \subseteq Clients /\ forged \subseteq Clients /\ height \in 1 .. MaxHeight

\* How the state after some messages of a transaction may differ from the one
\* before it.
Follows(s, t) ==
  \A id \in DOMAIN s.connections :
    /\ id \in DOMAIN t.connections
    /\ t.connections[id].client_id = s.connections[id].client_id
    /\ t.connections[id].counterparty.client_id = s.connections[id].counterparty.client_id
    /\ s.connections[id].state = "TryOpen" =>
         t.connections[id] = s.connections[id] \/ t.connections[id].state = "Open"
    /\ s.connections[id].state = "Open" => t.connections[id] = s.connections[id]

-----------------------------------------------------------------------------
(* Types                                                                   *)

\* The types of the messages' fields.
LEMMA MessageTypes ==
  ASSUME NEW msg \in Messages
  PROVE  \/ /\ msg.type = "open_init"
            /\ msg.counterparty \in [client_id : Nat, connection_id : Nat \union {None}]
         \/ /\ msg.type = "open_try"
            /\ msg.counterparty \in [client_id : Nat, connection_id : Nat \union {None}]
         \/ msg.type = "open_ack" /\ msg.version \in Versions
         \/ msg.type = "open_confirm"
BY HandshakeAssumption DEF Messages

-----------------------------------------------------------------------------
(* One message                                                             *)

\* Writing a connection that is not confirmed, or rightly so, keeps the
\* invariant.
LEMMA PutGood ==
  ASSUME NEW s, Good(s), NEW id \in Nat, NEW end \in Ends, NEW t,
         end.client_id \in Clients,
         end.state = "TryOpen" /\ end.client_id \notin forged => FollowsUs(end.counterparty.client_id),
         t = [connections |-> Put(s, id, end), counter |-> t.counter, listed |-> t.listed,
              confirmed |-> t.confirmed],
         t.counter \in Nat, s.counter <= t.counter, id < t.counter,
         t.listed \in [Clients -> SUBSET Nat],
         \A c \in Clients : s.listed[c] \subseteq t.listed[c],
         id \in t.listed[end.client_id],
         t.confirmed \subseteq s.confirmed \union {id},
         id \in t.confirmed => Agrees(t, id)
  PROVE  Good(t)
<1>1. t.connections = Put(s, id, end)
  OBVIOUS
<1>2. /\ DOMAIN t.connections = DOMAIN s.connections \union {id}
      /\ t.connections[id] = end
      /\ \A k \in DOMAIN s.connections : k # id => t.connections[k] = s.connections[k]
      /\ t.connections = [k \in DOMAIN t.connections |-> t.connections[k]]
  BY <1>1 DEF Put
<1>3. ConnectionOK(t, id)
  BY <1>2 DEF ConnectionOK
<1>4. ASSUME NEW k \in DOMAIN s.connections, k # id
      PROVE  ConnectionOK(t, k)
  <2>1. ConnectionOK(s, k) /\ t.connections[k] = s.connections[k]
    BY <1>2, <1>4 DEF Good
  <2>2. k \in Nat /\ k < t.counter
    BY <2>1 DEF ConnectionOK, Good
  <2>3. k \in t.confirmed => Agrees(t, k)
    BY <2>1, <1>4 DEF ConnectionOK, Agrees
  <2>4. k \in t.listed[t.connections[k].client_id]
    BY <2>1 DEF ConnectionOK
  <2> QED BY <2>1, <2>2, <2>3, <2>4 DEF ConnectionOK
<1>5. t.confirmed \subseteq DOMAIN t.connections
  BY <1>2 DEF Good
<1>6. \A k \in DOMAIN t.connections : ConnectionOK(t, k)
  BY <1>2, <1>3, <1>4
<1> QED BY <1>1, <1>2, <1>5, <1>6 DEF Good

\* put_new_connection, under a fresh id or that of an earlier init.
LEMMA NewConnectionGood ==
  ASSUME NEW s, Good(s), NEW id, NEW end \in Ends,
         id = s.counter \/ id \in DOMAIN s.connections,
         end.client_id \in Clients,
         end.state = "TryOpen" /\ end.client_id \notin forged => FollowsUs(end.counterparty.client_id)
  PROVE  Good(PutNewConnection(s, id, end))
<1> DEFINE t == PutNewConnection(s, id, end)
<1>1. id \in Nat /\ id < s.counter + 1 /\ s.counter \in Nat
  BY DEF Good, ConnectionOK
<1>2. t = [connections |-> Put(s, id, end), counter |-> t.counter, listed |-> t.listed,
           confirmed |-> t.confirmed]
  BY DEF PutNewConnection
<1>3. t.counter = s.counter + 1 /\ t.confirmed = s.confirmed \ {id}
      /\ t.listed = [s.listed EXCEPT ![end.client_id] = @ \union {id}]
  BY DEF PutNewConnection
<1>4. t.listed \in [Clients -> SUBSET Nat] /\ (\A c \in Clients : s.listed[c] \subseteq t.listed[c])
      /\ id \in t.listed[end.client_id]
  BY <1>1, <1>3 DEF Good
<1>5. t.counter \in Nat /\ s.counter <= t.counter /\ id < t.counter
  BY <1>1, <1>3
<1>6. t.confirmed \subseteq s.confirmed \union {id} /\ id \notin t.confirmed
  BY <1>3
<1>7. Good(t)
  <2> HIDE DEF t
  <2> QED BY <1>1, <1>2, <1>4, <1>5, <1>6, PutGood
<1> QED BY <1>7

\* Messages are applied to a state that follows the one they were checked in.
Applied(s, msg) == Good(Execute(s, msg)) /\ Follows(state, Execute(s, msg))

\* connection_open_init.
LEMMA InitApplied ==
  ASSUME IInv, NEW s, Good(s), Follows(state, s), NEW msg \in Messages, Validate(msg),
         msg.type = "open_init",
         msg.counterparty \in [client_id : Nat, connection_id : Nat \union {None}]
  PROVE  Applied(s, msg)
<1> DEFINE t == ExecuteInit(s, msg)
           end == End("Init", msg.client_id, msg.counterparty.client_id,
                      msg.counterparty.connection_id, {Version})
<1>1. Execute(s, msg) = t
  BY DEF Execute
<1>2. msg.client_id \in Clients
  BY DEF Validate
<1>3. end \in Ends /\ end.client_id = msg.client_id /\ end.state = "Init"
  BY <1>2, HandshakeAssumption DEF End, Ends
<1>4. t = PutNewConnection(s, s.counter, end)
  BY DEF ExecuteInit
<1>5. Good(t)
  <2> HIDE DEF end
  <2> QED BY <1>2, <1>3, <1>4, NewConnectionGood
<1>6. s.counter \notin DOMAIN s.connections
  BY DEF Good, ConnectionOK
<1>7. \A k \in DOMAIN s.connections : k \in DOMAIN t.connections /\ t.connections[k] = s.connections[k]
  <2>1. t.connections = Put(s, s.counter, end)
    BY <1>4 DEF PutNewConnection
  <2> HIDE DEF t, end
  <2> QED BY <2>1, <1>6 DEF Put
<1>8. Follows(state, t)
  <2> HIDE DEF t
  <2> QED BY <1>7 DEF Follows
<1> QED BY <1>1, <1>5, <1>8 DEF Applied

\* connection_open_try.
LEMMA TryApplied ==
  ASSUME IInv, NEW s, Good(s), Follows(state, s), NEW msg \in Messages, Validate(msg),
         msg.type = "open_try",
         msg.counterparty \in [client_id : Nat, connection_id : Nat \union {None}]
  PROVE  Applied(s, msg)
<1> DEFINE t == ExecuteTry(s, msg)
           id == IF msg.previous # None THEN msg.previous ELSE s.counter
           end == End("TryOpen", msg.client_id, msg.counterparty.client_id,
                      msg.counterparty.connection_id, {Version})
<1>1. Execute(s, msg) = t
  BY DEF Execute
<1>2. ValidateTry(msg)
  BY DEF Validate
<1>3. msg.client_id \in Clients /\ (msg.client_id \notin forged => FollowsUs(msg.counterparty.client_id))
  BY <1>2 DEF ValidateTry, VerifyClientProofs, ValidatePenumbraClientState, FollowsUs
<1>4. end \in Ends /\ end.client_id = msg.client_id /\ end.state = "TryOpen" /\ end.counterparty = msg.counterparty
  BY <1>3, HandshakeAssumption DEF End, Ends
<1>5. t = PutNewConnection(s, id, end)
  BY DEF ExecuteTry
<1>6. \/ id = s.counter
      \/ /\ id \in DOMAIN state.connections
         /\ state.connections[id].state = "Init"
         /\ state.connections[id].counterparty = msg.counterparty
         /\ state.connections[id].client_id = msg.client_id
  BY <1>2 DEF ValidateTry, Exists
<1>7. s.counter \notin DOMAIN s.connections
  BY DEF Good, ConnectionOK
<1>8. id = s.counter \/ id \in DOMAIN s.connections
  BY <1>6 DEF Follows
<1>9. Good(t)
  <2> HIDE DEF end, id
  <2> QED BY <1>3, <1>4, <1>5, <1>8, NewConnectionGood
<1>10. /\ \A k \in DOMAIN s.connections : k \in DOMAIN t.connections /\ (k # id => t.connections[k] = s.connections[k])
       /\ t.connections[id] = end
  <2>1. t.connections = Put(s, id, end)
    BY <1>5 DEF PutNewConnection
  <2> HIDE DEF t, end, id
  <2> QED BY <2>1 DEF Put
<1>11. ASSUME NEW k \in DOMAIN state.connections
       PROVE  /\ k \in DOMAIN t.connections
              /\ t.connections[k].client_id = state.connections[k].client_id
              /\ t.connections[k].counterparty.client_id = state.connections[k].counterparty.client_id
              /\ state.connections[k].state = "TryOpen" =>
                   t.connections[k] = state.connections[k] \/ t.connections[k].state = "Open"
              /\ state.connections[k].state = "Open" => t.connections[k] = state.connections[k]
  <2>1. k \in DOMAIN s.connections
    BY <1>11 DEF Follows
  <2> HIDE DEF t, end, id
  <2>2. CASE k = id
    BY <2>1, <2>2, <1>4, <1>6, <1>7, <1>10
  <2>3. CASE k # id
    BY <2>1, <2>3, <1>10 DEF Follows
  <2> QED BY <2>2, <2>3
<1>12. Follows(state, t)
  <2> HIDE DEF t
  <2> QED BY <1>11 DEF Follows
<1> QED BY <1>1, <1>9, <1>12 DEF Applied

\* connection_open_ack.
LEMMA AckApplied ==
  ASSUME IInv, NEW s, Good(s), Follows(state, s), NEW msg \in Messages, Validate(msg),
         msg.type = "open_ack", msg.version \in Versions
  PROVE  Applied(s, msg)
<1> DEFINE t == ExecuteAck(s, msg)
           id == msg.connection_id
           old == s.connections[id]
           end == End("Open", old.client_id, old.counterparty.client_id, id, {msg.version})
<1>1. Execute(s, msg) = t
  BY DEF Execute
<1>2. id \in DOMAIN state.connections /\ state.connections[id].state \in {"Init", "TryOpen"}
  BY DEF Validate, ValidateAck, Exists
<1>3. id \in DOMAIN s.connections
  BY <1>2 DEF Follows
<1>4. ConnectionOK(s, id)
  BY <1>3 DEF Good
<1>5. end \in Ends /\ end.client_id = old.client_id /\ end.state = "Open"
      /\ end.counterparty.client_id = old.counterparty.client_id
  BY <1>4, HandshakeAssumption DEF ConnectionOK, Ends, End
<1>6. t = [connections |-> Put(s, id, end), counter |-> s.counter, listed |-> s.listed,
           confirmed |-> s.confirmed \ {id}]
  BY DEF ExecuteAck
<1>7. t.counter = s.counter /\ t.listed = s.listed /\ t.confirmed = s.confirmed \ {id}
      /\ t.connections = Put(s, id, end)
  BY <1>6
<1>8. Good(t)
  <2>1. t = [connections |-> Put(s, id, end), counter |-> t.counter, listed |-> t.listed,
             confirmed |-> t.confirmed]
    BY <1>6, <1>7
  <2>2. s.counter \in Nat /\ s.listed \in [Clients -> SUBSET Nat]
    BY DEF Good
  <2>3. old.client_id \in Clients /\ id \in Nat /\ id < s.counter /\ id \in s.listed[old.client_id]
    BY <1>4 DEF ConnectionOK
  <2>4. s.counter <= s.counter
    BY <2>2
  <2> HIDE DEF t, end, old, id
  <2> QED BY <2>1, <2>2, <2>3, <2>4, <1>5, <1>7, PutGood
<1>9. /\ \A k \in DOMAIN s.connections : k \in DOMAIN t.connections /\ (k # id => t.connections[k] = s.connections[k])
      /\ t.connections[id] = end
  <2> HIDE DEF t, end, id
  <2> QED BY <1>7 DEF Put
<1>10. ASSUME NEW k \in DOMAIN state.connections
       PROVE  /\ k \in DOMAIN t.connections
              /\ t.connections[k].client_id = state.connections[k].client_id
              /\ t.connections[k].counterparty.client_id = state.connections[k].counterparty.client_id
              /\ state.connections[k].state = "TryOpen" =>
                   t.connections[k] = state.connections[k] \/ t.connections[k].state = "Open"
              /\ state.connections[k].state = "Open" => t.connections[k] = state.connections[k]
  <2>1. k \in DOMAIN s.connections
    BY <1>10 DEF Follows
  <2> HIDE DEF t, end, id
  <2>2. CASE k = id
    BY <2>1, <2>2, <1>2, <1>5, <1>9 DEF Follows
  <2>3. CASE k # id
    BY <2>1, <2>3, <1>9 DEF Follows
  <2> QED BY <2>2, <2>3
<1>11. Follows(state, t)
  <2> HIDE DEF t
  <2> QED BY <1>10 DEF Follows
<1> QED BY <1>1, <1>8, <1>11 DEF Applied

\* connection_open_confirm: the proof is of an end that is open for ever.
LEMMA ConfirmApplied ==
  ASSUME IInv, NEW s, Good(s), Follows(state, s), NEW msg \in Messages, Validate(msg),
         msg.type = "open_confirm"
  PROVE  Applied(s, msg)
<1> DEFINE t == ExecuteConfirm(s, msg)
           id == msg.connection_id
           old == s.connections[id]
           checked == state.connections[id]
           j == checked.counterparty.connection_id
           end == [old EXCEPT !.state = "Open"]
           proved == End("Open", checked.counterparty.client_id, checked.client_id, id, checked.versions)
<1>1. Execute(s, msg) = t
  BY DEF Execute
<1>2. id \in DOMAIN state.connections /\ checked.state = "TryOpen"
  BY DEF Validate, ValidateConfirm, Exists
<1>3. checked.client_id \notin forged => <<j, proved>> \in theirs_shown
  BY DEF Validate, ValidateConfirm, VerifyConnectionState
<1>4. id \in DOMAIN s.connections /\ (old = checked \/ old.state = "Open")
  BY <1>2 DEF Follows
<1>5. ConnectionOK(s, id)
  BY <1>4 DEF Good
<1>6. /\ end \in Ends /\ end.client_id = old.client_id /\ end.state = "Open"
      /\ end.counterparty = old.counterparty
      /\ old.state = "Open" => end = old
  BY <1>5 DEF ConnectionOK, Ends
<1>7. /\ t.counter = s.counter /\ t.listed = s.listed /\ t.connections = Put(s, id, end)
      /\ t.confirmed = IF old.state = "Open" \/ old.client_id \in forged
                       THEN s.confirmed ELSE s.confirmed \union {id}
      /\ t = [connections |-> Put(s, id, end), counter |-> t.counter, listed |-> t.listed,
              confirmed |-> t.confirmed]
  BY DEF ExecuteConfirm
<1>8. /\ \A k \in DOMAIN s.connections : k \in DOMAIN t.connections /\ (k # id => t.connections[k] = s.connections[k])
      /\ t.connections[id] = end
  <2> HIDE DEF t, end, id
  <2> QED BY <1>7 DEF Put
<1>9. id \in t.confirmed => Agrees(t, id)
  <2>1. CASE old.state = "Open"
    <3>1. id \in t.confirmed => Agrees(s, id)
      BY <2>1, <1>5, <1>7 DEF ConnectionOK
    <3>2. t.connections[id] = s.connections[id]
      BY <2>1, <1>6, <1>8
    <3> QED BY <3>1, <3>2 DEF Agrees
  <2>2. CASE old.state # "Open" /\ old.client_id \in forged
    <3>1. id \in t.confirmed => Agrees(s, id)
      BY <2>2, <1>5, <1>7 DEF ConnectionOK
    <3>2. t.connections[id].client_id = s.connections[id].client_id
          /\ t.connections[id].counterparty = s.connections[id].counterparty
      BY <1>6, <1>8
    <3> QED BY <3>1, <3>2 DEF Agrees
  <2>3. CASE old.state # "Open" /\ old.client_id \notin forged
    <3>1. old = checked
      BY <2>3, <1>4
    <3>6. <<j, proved>> \in theirs_shown
      BY <3>1, <2>3, <1>3
    <3>2. proved.state = "Open" /\ proved.client_id = checked.counterparty.client_id
          /\ proved.counterparty = [client_id |-> checked.client_id, connection_id |-> id]
      BY DEF End
    <3>3. j \in DOMAIN theirs /\ theirs[j] = proved
      <4> DEFINE p == <<j, proved>>
      <4>1. p[1] = j /\ p[2] = proved
        OBVIOUS
      <4> HIDE DEF p, proved, j
      <4> QED BY <4>1, <3>2, <3>6 DEF IInv, TheirsOK, p
    <3>4. FollowsUs(checked.counterparty.client_id)
      BY <3>1, <2>3, <1>2, <1>5 DEF ConnectionOK
    <3>5. t.connections[id].client_id = checked.client_id
          /\ t.connections[id].counterparty = checked.counterparty
      BY <3>1, <1>6, <1>8
    <3> HIDE DEF t, proved, checked, id
    <3> QED BY <3>2, <3>3, <3>4, <3>5 DEF Agrees
  <2> QED BY <2>1, <2>2, <2>3
<1>10. Good(t)
  <2>1. s.counter \in Nat /\ s.listed \in [Clients -> SUBSET Nat]
    BY DEF Good
  <2>2. old.client_id \in Clients /\ id \in Nat /\ id < s.counter /\ id \in s.listed[old.client_id]
    BY <1>5 DEF ConnectionOK
  <2>3. t.confirmed \subseteq s.confirmed \union {id}
    BY <1>7
  <2>4. s.counter <= s.counter
    BY <2>1
  <2> HIDE DEF t, end, old, id
  <2> QED BY <2>1, <2>2, <2>3, <2>4, <1>6, <1>7, <1>9, PutGood
<1>11. ASSUME NEW k \in DOMAIN state.connections
       PROVE  /\ k \in DOMAIN t.connections
              /\ t.connections[k].client_id = state.connections[k].client_id
              /\ t.connections[k].counterparty.client_id = state.connections[k].counterparty.client_id
              /\ state.connections[k].state = "TryOpen" =>
                   t.connections[k] = state.connections[k] \/ t.connections[k].state = "Open"
              /\ state.connections[k].state = "Open" => t.connections[k] = state.connections[k]
  <2>1. k \in DOMAIN s.connections
    BY <1>11 DEF Follows
  <2> HIDE DEF t, end
  <2>2. CASE k = id
    BY <2>1, <2>2, <1>2, <1>6, <1>8 DEF Follows
  <2>3. CASE k # id
    BY <2>1, <2>3, <1>8 DEF Follows
  <2> QED BY <2>2, <2>3
<1>12. Follows(state, t)
  <2> HIDE DEF t
  <2> QED BY <1>11 DEF Follows
<1> QED BY <1>1, <1>10, <1>12 DEF Applied

\* Every message.
LEMMA MessageApplied ==
  ASSUME IInv, NEW s, Good(s), Follows(state, s), NEW msg \in Messages, Validate(msg)
  PROVE  Applied(s, msg)
BY MessageTypes, InitApplied, TryApplied, AckApplied, ConfirmApplied

-----------------------------------------------------------------------------
(* Steps                                                                   *)

\* A state follows itself.
LEMMA FollowsItself ==
  ASSUME NEW s
  PROVE  Follows(s, s)
BY DEF Follows

\* What Good says of a state holds of it in the next one, as long as the open
\* ends of the other chain, and the forged headers, stay.
LEMMA GoodLater ==
  ASSUME NEW s, Good(s),
         \A j \in DOMAIN theirs : theirs[j].state = "Open" => j \in DOMAIN theirs' /\ theirs'[j] = theirs[j],
         forged \subseteq forged', state' = s
  PROVE  Good(state)'
<1>1. ASSUME NEW id \in DOMAIN s.connections, Agrees(s, id)
      PROVE  /\ s.connections[id].counterparty.connection_id \in DOMAIN theirs'
             /\ theirs'[s.connections[id].counterparty.connection_id]
                  = theirs[s.connections[id].counterparty.connection_id]
  BY <1>1 DEF Agrees
<1>2. \A id \in DOMAIN s.connections : Agrees(s, id) => Agrees(state, id)'
  BY <1>1 DEF Agrees, FollowsUs
<1>3. \A id \in DOMAIN s.connections : ConnectionOK(s, id) => ConnectionOK(state, id)'
  BY <1>2 DEF ConnectionOK, FollowsUs, Ends
<1> QED BY <1>3 DEF Good

\* A transaction of one or of two messages.
LEMMA DeliverTxGood ==
  ASSUME IInv, NEW tx \in CheckedTxs, NEW updated \in SUBSET Clients, DeliverTx(tx, updated)
  PROVE  IInv' /\ Follows(state, state')
<1> DEFINE first == Execute(state, tx[1])
           second == Execute(first, tx[2])
<1>1. tx[1] \in Messages /\ Validate(tx[1]) /\ (Len(tx) = 2 => tx[2] \in Messages /\ Validate(tx[2]))
  BY DEF CheckedTxs
<1>2. state' = IF Len(tx) = 2 THEN second ELSE first
  BY DEF DeliverTx
<1>3. Good(first) /\ Follows(state, first)
  BY <1>1, FollowsItself, MessageApplied DEF IInv, Applied
<1>4. Len(tx) = 2 => Good(second) /\ Follows(state, second)
  <2> HIDE DEF first
  <2> QED BY <1>1, <1>3, MessageApplied DEF Applied
<1>5. /\ UNCHANGED <<frozen, height, theirs, theirs_shown>>
      /\ forged' = forged \union updated
      /\ state'.counter <= MaxConnections
  BY DEF DeliverTx
<1>6. \E s : Good(s) /\ Follows(state, s) /\ state' = s
  <2> HIDE DEF first, second
  <2> QED BY <1>2, <1>3, <1>4
<1>7. PICK s : Good(s) /\ Follows(state, s) /\ state' = s
  BY <1>6
<1>8. Good(state)'
  BY <1>5, <1>7, GoodLater
<1>9. TheirsOK'
  BY <1>5 DEF IInv, TheirsOK, NewId
<1> QED BY <1>5, <1>7, <1>8, <1>9 DEF IInv

\* A step of the other chain writes a new end or one that is not open.
LEMMA TheirPutGood ==
  ASSUME IInv, NEW id, NEW end, TheirPut(id, end), end.state \in {"Init", "TryOpen", "Open"},
         id = NewId \/ (id \in DOMAIN theirs /\ theirs[id].state # "Open")
  PROVE  IInv' /\ Follows(state, state')
<1>1. /\ UNCHANGED <<state, frozen, forged, height>>
      /\ theirs' = [k \in DOMAIN theirs \union {id} |-> IF k = id THEN end ELSE theirs[k]]
      /\ theirs_shown' = theirs_shown \union Pairs(theirs')
  BY DEF TheirPut
<1>2. NewId \in Nat /\ DOMAIN theirs = 0 .. NewId - 1
  BY DEF IInv, TheirsOK
<1>3. NewId' \in Nat /\ DOMAIN theirs' = 0 .. NewId' - 1
  <2>1. CASE id = NewId
    <3>1. DOMAIN theirs' = 0 .. NewId
      BY <2>1, <1>1, <1>2
    <3>2. Cardinality(0 .. NewId) = NewId + 1
      BY <1>2, FS_Interval
    <3> QED BY <3>1, <3>2, <1>2 DEF NewId
  <2>2. CASE id \in DOMAIN theirs
    <3>1. DOMAIN theirs' = DOMAIN theirs
      BY <2>2, <1>1
    <3> QED BY <3>1, <1>2 DEF NewId
  <2> QED BY <2>1, <2>2
<1>4. \A j \in DOMAIN theirs : theirs[j].state = "Open" => j \in DOMAIN theirs' /\ theirs'[j] = theirs[j]
  BY <1>1, <1>2
<1>5. \A j \in DOMAIN theirs' : theirs'[j].state \in {"Init", "TryOpen", "Open"}
  BY <1>1 DEF IInv, TheirsOK
<1>6. ASSUME NEW p \in theirs_shown', p[2].state = "Open"
      PROVE  p[1] \in DOMAIN theirs' /\ theirs'[p[1]] = p[2]
  <2>1. CASE p \in theirs_shown
    BY <2>1, <1>4, <1>6 DEF IInv, TheirsOK
  <2>2. CASE p \in Pairs(theirs')
    BY <2>2 DEF Pairs
  <2> QED BY <2>1, <2>2, <1>1, <1>6
<1>7. TheirsOK'
  BY <1>3, <1>5, <1>6 DEF TheirsOK
<1>8. Good(state)'
  BY <1>1, <1>4, GoodLater DEF IInv
<1> QED BY <1>1, <1>7, <1>8, FollowsItself DEF IInv

\* Every step keeps the invariant and follows.
LEMMA StepGood ==
  ASSUME IInv, [Next]_vars
  PROVE  IInv' /\ Follows(state, state')
<1>1. ASSUME NEW tx \in CheckedTxs, NEW updated \in SUBSET Clients, DeliverTx(tx, updated)
      PROVE  IInv' /\ Follows(state, state')
  BY <1>1, DeliverTxGood
<1>2. ASSUME UNCHANGED <<state, forged, theirs, theirs_shown>>, frozen' \subseteq Clients, height' \in 1 .. MaxHeight
      PROVE  IInv' /\ Follows(state, state')
  <2>1. Good(state)'
    BY <1>2, GoodLater DEF IInv
  <2>2. TheirsOK'
    BY <1>2 DEF IInv, TheirsOK, NewId
  <2> QED BY <2>1, <2>2, <1>2, FollowsItself DEF IInv
<1>3. CASE NextBlock
  BY <1>2, <1>3, HandshakeAssumption DEF NextBlock, IInv
<1>4. ASSUME NEW c \in Clients, Freeze(c)
      PROVE  IInv' /\ Follows(state, state')
  BY <1>2, <1>4 DEF Freeze, IInv
<1>5. ASSUME NEW c, NEW client, NEW versions, TheirInit(c, client, versions)
      PROVE  IInv' /\ Follows(state, state')
  <2>1. End("Init", c, client, None, versions).state = "Init"
    BY DEF End
  <2> QED BY <2>1, <1>5, TheirPutGood DEF TheirInit
<1>6. ASSUME NEW c, NEW client, NEW id, NEW version, TheirTry(c, client, id, version)
      PROVE  IInv' /\ Follows(state, state')
  <2>1. End("TryOpen", c, client, id, {version}).state = "TryOpen"
    BY DEF End
  <2> QED BY <2>1, <1>6, TheirPutGood DEF TheirTry
<1>7. ASSUME NEW j, NEW id, NEW version, TheirAck(j, id, version)
      PROVE  IInv' /\ Follows(state, state')
  <2> DEFINE end == End("Open", theirs[j].client_id, theirs[j].counterparty.client_id, id, {version})
  <2>1. end.state = "Open"
    BY DEF End
  <2>2. TheirPut(j, end) /\ j \in DOMAIN theirs /\ theirs[j].state # "Open"
    BY <1>7 DEF TheirAck
  <2> HIDE DEF end
  <2> QED BY <2>1, <2>2, TheirPutGood
<1>8. ASSUME NEW j, TheirConfirm(j)
      PROVE  IInv' /\ Follows(state, state')
  <2> DEFINE end == [theirs[j] EXCEPT !.state = "Open"]
  <2>1. TheirPut(j, end) /\ j \in DOMAIN theirs /\ theirs[j].state = "TryOpen"
    BY <1>8 DEF TheirConfirm
  <2>2. end.state \in {"Init", "TryOpen", "Open"}
    <3>1. end.state = "Open" \/ end.state = theirs[j].state
      OBVIOUS
    <3> QED BY <3>1, <2>1
  <2> HIDE DEF end
  <2> QED BY <2>1, <2>2, TheirPutGood
<1>9. CASE UNCHANGED vars
  BY <1>2, <1>9 DEF vars, IInv
<1> QED BY <1>1, <1>3, <1>4, <1>5, <1>6, <1>7, <1>8, <1>9 DEF Next

\* No connections at first, here or there.
LEMMA InitGood == Init => IInv
<1> SUFFICES ASSUME Init PROVE IInv
  OBVIOUS
<1>1. state = [connections |-> << >>, counter |-> 0, listed |-> [c \in Clients |-> {}], confirmed |-> {}]
  BY DEF Init
<1>2. DOMAIN state.connections = {} /\ state.counter = 0 /\ state.confirmed = {}
      /\ state.listed = [c \in Clients |-> {}] /\ state.connections = << >>
  BY <1>1
<1>3. << >> = [id \in {} |-> state.connections[id]]
  OBVIOUS
<1>4. Good(state)
  BY <1>1, <1>2, <1>3 DEF Good
<1>5. DOMAIN theirs = {} /\ theirs_shown = {}
  BY DEF Init
<1>6. NewId = 0
  BY <1>5, FS_EmptySet DEF NewId
<1>7. TheirsOK
  BY <1>5, <1>6 DEF TheirsOK
<1>8. frozen \subseteq Clients /\ forged \subseteq Clients /\ height \in 1 .. MaxHeight
  BY HandshakeAssumption DEF Init
<1>9. state.counter <= MaxConnections
  BY <1>2, HandshakeAssumption
<1> QED BY <1>4, <1>7, <1>8, <1>9 DEF IInv

\* The invariant holds in every reachable state.
LEMMA Invariance == Spec => []IInv
<1>1. IInv /\ [Next]_vars => IInv'
  BY StepGood
<1> QED BY InitGood, <1>1, PTL DEF Spec

-----------------------------------------------------------------------------

\* Type correctness: every connection has the fields and values of the code's
\* record, and an id within the bound.
THEOREM TypeCorrect == Spec => []TypeOK
<1>1. IInv => TypeOK
  <2> SUFFICES ASSUME IInv PROVE TypeOK
    OBVIOUS
  <2>1. DOMAIN state.connections \subseteq Ids
    BY HandshakeAssumption DEF IInv, Good, ConnectionOK, Ids
  <2>2. state.counter \in 0 .. MaxConnections
    BY HandshakeAssumption DEF IInv, Good
  <2> QED BY <2>1, <2>2 DEF IInv, Good, ConnectionOK, TypeOK
<1> QED BY Invariance, <1>1, PTL

\* Every connection has an id below the counter and is listed by its client:
\* put_new_connection never takes over an id that somebody has.
THEOREM ConnectionsStayListed == Spec => []ConnectionsListed
<1>1. IInv => ConnectionsListed
  BY DEF IInv, Good, ConnectionOK, ConnectionsListed
<1> QED BY Invariance, <1>1, PTL

\* A connection that connection_open_confirm has opened while its client had no
\* forged header is open at both ends, which name each other, and the other
\* chain's client follows this one; headers forged later do not change that.
THEOREM ConfirmedConnectionsAgree == Spec => []ConfirmedAgree
<1>1. IInv => ConfirmedAgree
  BY DEF IInv, Good, ConnectionOK, Agrees, ConfirmedAgree
<1> QED BY Invariance, <1>1, PTL

\* No step changes an open connection, or the clients of any connection.
THEOREM EndsStay == Spec => EndsKept
<1>1. IInv /\ [Next]_vars =>
        [\A id \in DOMAIN state.connections :
           LET old == state.connections[id]
               new == state'.connections[id]
           IN /\ old.state = "Open" => new = old
              /\ new.client_id = old.client_id
              /\ new.counterparty.client_id = old.counterparty.client_id]_vars
  BY StepGood DEF Follows
<1> QED BY Invariance, <1>1, PTL DEF Spec, EndsKept
=============================================================================
