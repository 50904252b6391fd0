-------------------------- MODULE LightClientProofs --------------------------
(***************************************************************************)
(* Theorems about LightClient, for any headers, validator sets, periods    *)
(* and bounds, and for transactions of any length: a step executes one     *)
(* message, and nothing is assumed of the checks it has passed.            *)
(***************************************************************************)
EXTENDS LightClient, TLAPS

\* The inductive invariant of the component's state: its shape, and that the
\* recorded heights are those with a consensus state.
Good(s) ==
  /\ s = [counter |-> s.counter, clients |-> s.clients, consensus |-> s.consensus,
          verified_heights |-> s.verified_heights]
  /\ s.counter \in Nat
  /\ s.clients \in [IdsOf(s) -> ClientData]
  /\ s.verified_heights \in [IdsOf(s) -> SUBSET Nat]
  /\ s.consensus = [id \in IdsOf(s) |-> s.consensus[id]]
  /\ \A id \in IdsOf(s) :
       /\ s.consensus[id] \in [s.verified_heights[id] -> ConsensusStates]
       /\ s.clients[id].latest_height \in s.verified_heights[id]

IInv ==
  /\ Good(state) /\ state.counter <= MaxClients
  /\ Good(before) /\ before.counter <= MaxClients
  /\ passed \in BOOLEAN /\ executed \in 0 .. MaxMessages
  /\ own \in Seq(Nat) /\ now \in Nat /\ panicked \in BOOLEAN

\* How one state of the component may follow another: clients are neither
\* removed nor thawed, and a consensus state that is replaced freezes its client.
Follows(s, t) ==
  /\ s.counter <= t.counter
  /\ \A id \in IdsOf(s) :
       /\ Frozen(s, id) => Frozen(t, id)
       /\ \A h \in DOMAIN s.consensus[id] :
            /\ h \in DOMAIN t.consensus[id]
            /\ t.consensus[id][h] # s.consensus[id][h] => Frozen(t, id)

-----------------------------------------------------------------------------

\* What from(header) keeps of a header is a consensus state.
LEMMA ConsensusStateType ==
  ASSUME NEW header \in Headers
  PROVE  ConsensusState(header) \in ConsensusStates /\ header.height \in Nat \ {0}
BY LightClientAssumption DEF ConsensusState, ConsensusStates

\* Every message is of one of four types.
LEMMA MessageTypes ==
  ASSUME NEW msg \in Messages
  PROVE  \/ /\ msg.type = "create" /\ msg.latest_height \in Nat \ {0} /\ msg.frozen_height \in Nat
            /\ msg.consensus_state \in ConsensusStates
         \/ msg.type = "update" /\ msg.client_id \in Nat /\ msg.header \in Headers
         \/ msg.type = "other"
         \/ msg.type = "malformed"
<1>1. CASE msg \in CreateMessages
  <2>1. None \in Nat /\ Heights \subseteq Nat
    BY ConsensusStateType DEF None, Heights
  <2> QED BY <1>1, <2>1, ConsensusStateType DEF CreateMessages
<1>2. CASE msg \in UpdateMessages
  BY <1>2 DEF UpdateMessages
<1>3. CASE msg = OtherMessage
  BY <1>3 DEF OtherMessage
<1>4. CASE msg = MalformedMessage
  BY <1>4 DEF MalformedMessage
<1> QED BY <1>1, <1>2, <1>3, <1>4 DEF Messages

\* execute_create_client adds a client and changes no other.
LEMMA CreateGood ==
  ASSUME NEW s, Good(s), now \in Nat, height \in Nat,
         NEW msg, msg.latest_height \in Nat \ {0}, msg.frozen_height \in Nat,
         msg.consensus_state \in ConsensusStates
  PROVE  Good(ExecuteCreate(s, msg)) /\ Follows(s, ExecuteCreate(s, msg))
<1> DEFINE t == ExecuteCreate(s, msg)
           data == [latest_height |-> msg.latest_height, frozen_height |-> msg.frozen_height,
                    processed_time |-> now, processed_height |-> height]
<1> USE DEF IdsOf
<1>1. s.counter \in Nat /\ IdsOf(t) = 0 .. s.counter /\ t.counter = s.counter + 1
  BY DEF Good, ExecuteCreate
<1>2. data \in ClientData
  BY DEF ClientData, None
<1>3. t.clients = [i \in 0 .. s.counter |-> IF i = s.counter THEN data ELSE s.clients[i]]
  BY DEF ExecuteCreate
<1>4. t.verified_heights = [i \in 0 .. s.counter |-> IF i = s.counter THEN {msg.latest_height}
                                                     ELSE s.verified_heights[i]]
  BY DEF ExecuteCreate
<1>5. t.consensus = [i \in 0 .. s.counter |-> IF i = s.counter
                       THEN [h \in {msg.latest_height} |-> msg.consensus_state] ELSE s.consensus[i]]
  BY DEF ExecuteCreate
<1>6. t.clients \in [IdsOf(t) -> ClientData]
  BY <1>1, <1>2, <1>3 DEF Good
<1>7. t.verified_heights \in [IdsOf(t) -> SUBSET Nat]
  BY <1>1, <1>4 DEF Good
<1>8. ASSUME NEW id \in IdsOf(t)
      PROVE  /\ t.consensus[id] \in [t.verified_heights[id] -> ConsensusStates]
             /\ t.clients[id].latest_height \in t.verified_heights[id]
  <2>1. CASE id = s.counter
    BY <2>1, <1>1, <1>3, <1>4, <1>5
  <2>2. CASE id # s.counter
    <3>1. id \in IdsOf(s)
      BY <2>2, <1>1, <1>8
    <3> QED BY <3>1, <2>2, <1>1, <1>3, <1>4, <1>5 DEF Good
  <2> QED BY <2>1, <2>2
<1>9. Good(t)
  <2>1. t.consensus = [id \in IdsOf(t) |-> t.consensus[id]]
    BY <1>1, <1>5
  <2>2. t = [counter |-> t.counter, clients |-> t.clients, consensus |-> t.consensus,
             verified_heights |-> t.verified_heights]
    BY DEF ExecuteCreate
  <2> QED BY <2>1, <2>2, <1>1, <1>6, <1>7, <1>8 DEF Good
<1>10. ASSUME NEW id \in IdsOf(s)
       PROVE  t.clients[id] = s.clients[id] /\ t.consensus[id] = s.consensus[id]
  BY <1>1, <1>3, <1>5
<1>11. Follows(s, t)
  BY <1>1, <1>10 DEF Follows, Frozen
<1> QED BY <1>9, <1>11

\* execute_update_client records the header's state and, when it conflicts
\* with a recorded one, freezes the client.
LEMMA UpdateGood ==
  ASSUME NEW s, Good(s), now \in Nat, height \in Nat,
         NEW msg, msg.client_id \in IdsOf(s), msg.header \in Headers
  PROVE  Good(ExecuteUpdate(s, msg)) /\ Follows(s, ExecuteUpdate(s, msg))
<1> DEFINE t == ExecuteUpdate(s, msg)
           i == msg.client_id
           h == msg.header.height
           cs == ConsensusState(msg.header)
           client == NextClientState(s, i, msg.header)
           put == [k \in DOMAIN s.consensus[i] \union {h} |-> IF k = h THEN cs ELSE s.consensus[i][k]]
<1> USE DEF IdsOf
<1>1. h \in Nat \ {0} /\ cs \in ConsensusStates
  BY ConsensusStateType
<1>2. s.counter \in Nat /\ s.clients[i] \in ClientData
  BY DEF Good
<1>3. client \in ClientData /\ client.latest_height \in {s.clients[i].latest_height, h}
  BY <1>1, <1>2 DEF NextClientState, ClientData
<1>4. /\ t.counter = s.counter
      /\ t.clients = [s.clients EXCEPT ![i] = client]
      /\ t.consensus = [s.consensus EXCEPT ![i] = put]
      /\ t.verified_heights = [s.verified_heights EXCEPT ![i] = @ \union {h}]
      /\ t = [counter |-> t.counter, clients |-> t.clients, consensus |-> t.consensus,
              verified_heights |-> t.verified_heights]
  <2>1. s = [counter |-> s.counter, clients |-> s.clients, consensus |-> s.consensus,
             verified_heights |-> s.verified_heights]
    BY DEF Good
  <2>2. i \in DOMAIN s.consensus /\ i \in DOMAIN s.verified_heights
    BY DEF Good
  <2> QED BY <2>1, <2>2 DEF ExecuteUpdate, PutConsensusState, PutClientData
<1>5. IdsOf(t) = IdsOf(s)
  BY <1>4
<1>6. AlreadyCommitted(s, i, msg.header) => client.latest_height = s.clients[i].latest_height
  BY <1>2 DEF NextClientState, ClientData
<1>7. ~AlreadyCommitted(s, i, msg.header) => client.latest_height = h
  BY <1>2 DEF NextClientState, ClientData
<1>8. ASSUME NEW id \in IdsOf(s)
      PROVE  /\ t.consensus[id] \in [t.verified_heights[id] -> ConsensusStates]
             /\ t.clients[id].latest_height \in t.verified_heights[id]
  <2>1. s.consensus[id] \in [s.verified_heights[id] -> ConsensusStates]
        /\ s.clients[id].latest_height \in s.verified_heights[id]
    BY DEF Good
  <2>2. CASE id = i
    <3>1. t.consensus[id] = put /\ t.verified_heights[id] = s.verified_heights[i] \union {h}
          /\ t.clients[id] = client
      BY <2>2, <1>4 DEF Good
    <3>2. put \in [s.verified_heights[i] \union {h} -> ConsensusStates]
      BY <2>1, <2>2, <1>1
    <3> QED BY <3>1, <3>2, <2>1, <2>2, <1>3
  <2>3. CASE id # i
    <3>1. t.consensus[id] = s.consensus[id] /\ t.verified_heights[id] = s.verified_heights[id]
          /\ t.clients[id] = s.clients[id]
      BY <2>3, <1>4 DEF Good
    <3> QED BY <3>1, <2>1
  <2> QED BY <2>2, <2>3
<1>9. Good(t)
  <2>1. t.clients \in [IdsOf(t) -> ClientData]
    BY <1>3, <1>4, <1>5 DEF Good
  <2>2. t.verified_heights \in [IdsOf(t) -> SUBSET Nat]
    BY <1>1, <1>4, <1>5 DEF Good
  <2>3. t.consensus = [id \in IdsOf(t) |-> t.consensus[id]]
    BY <1>4, <1>5 DEF Good
  <2> QED BY <2>1, <2>2, <2>3, <1>2, <1>4, <1>5, <1>8 DEF Good
<1>10. Frozen(s, i) => client.frozen_height # None
  BY <1>1, <1>2 DEF Frozen, NextClientState, None, ClientData
<1>11. HasState(s, i, h) /\ s.consensus[i][h] # cs => client.frozen_height # None
  BY <1>1, <1>2 DEF NextClientState, AlreadyCommitted, Conflicts, None, ClientData
<1>12. ASSUME NEW id \in IdsOf(s)
       PROVE  /\ Frozen(s, id) => Frozen(t, id)
              /\ \A k \in DOMAIN s.consensus[id] :
                   /\ k \in DOMAIN t.consensus[id]
                   /\ t.consensus[id][k] # s.consensus[id][k] => Frozen(t, id)
  <2>1. CASE id = i
    <3>1. t.consensus[id] = put /\ t.clients[id] = client
      BY <2>1, <1>4 DEF Good
    <3> QED BY <3>1, <2>1, <1>10, <1>11 DEF Frozen, HasState
  <2>2. CASE id # i
    <3>1. t.consensus[id] = s.consensus[id] /\ t.clients[id] = s.clients[id]
      BY <2>2, <1>4 DEF Good
    <3> QED BY <3>1 DEF Frozen
  <2> QED BY <2>1, <2>2
<1>13. Follows(s, t)
  <2>1. s.counter <= t.counter
    BY <1>2, <1>4
  <2> HIDE DEF t
  <2> QED BY <2>1, <1>12 DEF Follows
<1> QED BY <1>9, <1>13

\* Nothing happens: a message of the connection component.
LEMMA FollowsItself ==
  ASSUME NEW s, Good(s)
  PROVE  Follows(s, s)
BY DEF Follows, Good

\* One executed message that ends in no panic.
LEMMA ExecuteGood ==
  ASSUME NEW s, Good(s), now \in Nat, height \in Nat,
         NEW msg \in Messages, ~Panics(s, msg)
  PROVE  Good(Execute(s, msg)) /\ Follows(s, Execute(s, msg))
<1>1. CASE /\ msg.type = "create" /\ msg.latest_height \in Nat \ {0} /\ msg.frozen_height \in Nat
           /\ msg.consensus_state \in ConsensusStates
  <2>1. Execute(s, msg) = ExecuteCreate(s, msg)
    BY <1>1 DEF Execute
  <2> QED BY <2>1, <1>1, CreateGood
<1>2. CASE msg.type = "update" /\ msg.client_id \in Nat /\ msg.header \in Headers
  <2>1. msg.client_id \in IdsOf(s)
    BY <1>2 DEF Panics, Exists, IdsOf
  <2>2. Execute(s, msg) = ExecuteUpdate(s, msg)
    BY <1>2 DEF Execute
  <2> QED BY <2>1, <2>2, <1>2, UpdateGood
<1>3. CASE msg.type = "other"
  <2>1. Execute(s, msg) = s
    BY <1>3 DEF Execute
  <2> QED BY <2>1, FollowsItself
<1>4. CASE msg.type = "malformed"
  BY <1>4 DEF Panics
<1> QED BY <1>1, <1>2, <1>3, <1>4, MessageTypes

-----------------------------------------------------------------------------

\* The next message of a transaction.
LEMMA ExecuteIbcActionGood ==
  ASSUME IInv, NEW msg \in Messages, ExecuteIbcAction(msg)
  PROVE  IInv' /\ Follows(state, state')
<1>1. now \in Nat /\ height \in Nat /\ Good(state)
  BY DEF IInv, height
<1>2. state' = IF Panics(state, msg) THEN state ELSE Execute(state, msg)
  BY DEF ExecuteIbcAction
<1>3. Good(state') /\ Follows(state, state')
  <2>1. CASE Panics(state, msg)
    BY <2>1, <1>1, <1>2, FollowsItself
  <2>2. CASE ~Panics(state, msg)
    BY <2>2, <1>1, <1>2, ExecuteGood
  <2> QED BY <2>1, <2>2
<1>4. own' = own /\ now' = now /\ before' = before /\ state'.counter <= MaxClients
  BY DEF ExecuteIbcAction
<1>5. panicked' \in BOOLEAN /\ passed' \in BOOLEAN
  BY DEF ExecuteIbcAction, Panics
<1>6. executed' \in 0 .. MaxMessages
  <2>1. executed \in 0 .. MaxMessages /\ executed < MaxMessages /\ executed' = executed + 1
    BY DEF IInv, ExecuteIbcAction
  <2> QED BY <2>1, LightClientAssumption
<1>7. Good(state)' /\ Good(before)'
  BY <1>3, <1>4 DEF IInv, Good, IdsOf
<1> QED BY <1>3, <1>4, <1>5, <1>6, <1>7 DEF IInv

\* The end of a transaction, which changes no client.
LEMMA EndTxGood ==
  ASSUME IInv, EndTx, UNCHANGED <<state, panicked>>, now' \in Nat, own' \in Seq(Nat)
  PROVE  IInv' /\ Follows(state, state')
<1>1. Good(state)' /\ Good(before)'
  BY DEF IInv, EndTx, Good, IdsOf
<1>2. executed' \in 0 .. MaxMessages /\ passed' \in BOOLEAN
  <2>1. executed' \in 0 .. MaxMessages BY LightClientAssumption DEF EndTx
  <2>2. passed' \in BOOLEAN BY DEF EndTx
  <2> QED BY <2>1, <2>2
<1>3. state'.counter <= MaxClients /\ before'.counter <= MaxClients
  BY DEF IInv, EndTx
<1>4. panicked' \in BOOLEAN /\ Good(state)
  BY DEF IInv
<1>5. Follows(state, state')
  BY <1>4, FollowsItself
<1> QED BY <1>1, <1>2, <1>3, <1>4, <1>5 DEF IInv

\* A new block changes nothing the invariant is about.
LEMMA BeginBlockGood ==
  ASSUME IInv, NEW step \in TimeSteps, BeginBlock(step)
  PROVE  IInv' /\ Follows(state, state')
<1>1. step \in Nat
  BY LightClientAssumption
<1>2. now' \in Nat /\ own' \in Seq(Nat)
  BY <1>1 DEF IInv, BeginBlock
<1>3. state' = state /\ panicked' = panicked /\ EndTx
  BY DEF BeginBlock
<1> QED BY <1>2, <1>3, EndTxGood

\* Every step keeps the invariant and follows.
LEMMA StepGood ==
  ASSUME IInv, [Next]_vars
  PROVE  IInv' /\ Follows(state, state')
<1>1. ASSUME NEW step \in TimeSteps, BeginBlock(step)
      PROVE  IInv' /\ Follows(state, state')
  BY <1>1, BeginBlockGood
<1>2. ASSUME NEW msg \in Messages, ExecuteIbcAction(msg)
      PROVE  IInv' /\ Follows(state, state')
  BY <1>2, ExecuteIbcActionGood
<1>3. CASE NextTx
  <2>1. EndTx /\ UNCHANGED <<state, panicked>> /\ now' \in Nat /\ own' \in Seq(Nat)
    BY <1>3 DEF NextTx, IInv
  <2> QED BY <2>1, EndTxGood
<1>4. CASE UNCHANGED vars
  <2>1. UNCHANGED <<state, before, passed, executed, own, now, panicked>>
    BY <1>4 DEF vars, transaction
  <2>2. Good(state)' /\ Good(before)' /\ Good(state)
    BY <2>1 DEF IInv, Good, IdsOf
  <2>3. Follows(state, state')
    BY <2>1, <2>2, FollowsItself
  <2> QED BY <2>1, <2>2, <2>3 DEF IInv
<1> QED BY <1>1, <1>2, <1>3, <1>4 DEF Next

\* There are no clients at first.
LEMMA InitGood == Init => IInv
<1> SUFFICES ASSUME Init PROVE IInv
  OBVIOUS
<1>1. state = [counter |-> 0, clients |-> << >>, consensus |-> << >>, verified_heights |-> << >>]
  BY DEF Init
<1>2. IdsOf(state) = {} /\ state.counter = 0
  BY <1>1 DEF IdsOf
<1>3. << >> \in [{} -> ClientData] /\ << >> \in [{} -> SUBSET Nat]
      /\ << >> = [id \in {} |-> state.consensus[id]]
  OBVIOUS
<1>4. Good(state) /\ Good(before)
  BY <1>1, <1>2, <1>3 DEF Good, Init
<1>5. own \in Seq(Nat) /\ now \in Nat
  BY DEF Init
<1>6. panicked \in BOOLEAN /\ passed \in BOOLEAN
  BY DEF Init
<1>8. executed \in 0 .. MaxMessages
  BY LightClientAssumption DEF Init
<1>7. state.counter <= MaxClients /\ before.counter <= MaxClients
  BY <1>2, LightClientAssumption DEF Init
<1> QED BY <1>4, <1>5, <1>6, <1>7, <1>8 DEF IInv

\* The invariant holds in every reachable state.
LEMMA Invariance == Spec => []IInv
<1>1. IInv /\ [Next]_vars => IInv'
  BY StepGood
<1> QED BY InitGood, <1>1, PTL DEF Spec

-----------------------------------------------------------------------------

\* Type correctness: the clients, their consensus states and their heights
\* are those below the counter, and have the types of the code's records.
THEOREM TypeCorrect == Spec => []TypeOK
<1>1. IInv => TypeOK
  <2> SUFFICES ASSUME IInv PROVE TypeOK
    OBVIOUS
  <2>1. ASSUME NEW s, Good(s), s.counter <= MaxClients
        PROVE  Shape(s)
    <3>1. \A id \in IdsOf(s) : s.consensus[id] \in [DOMAIN s.consensus[id] -> ConsensusStates]
      BY <2>1 DEF Good
    <3>2. DOMAIN s.consensus = IdsOf(s) /\ DOMAIN s.verified_heights = IdsOf(s)
      BY <2>1 DEF Good
    <3>3. s.counter \in 0 .. MaxClients /\ s.clients \in [IdsOf(s) -> ClientData]
      BY <2>1, LightClientAssumption DEF Good
    <3> QED BY <3>1, <3>2, <3>3 DEF Shape
  <2> QED BY <2>1 DEF IInv, TypeOK
<1> QED BY Invariance, <1>1, PTL

\* The recorded heights of a client are those with a consensus state, and its
\* latest height is one of them: no unwrap in next_tendermint_state fails and
\* the check for expiry finds its state.
THEOREM HeightsStayRecorded == Spec => []HeightsRecorded
<1>1. IInv => HeightsRecorded
  BY DEF IInv, Good, IdsOf, HeightsRecorded, Ids
<1> QED BY Invariance, <1>1, PTL

\* Two different headers for one height freeze the client, in two transactions
\* or in one of any length, whatever was checked when: the second message finds
\* the state that the first has recorded, also at a height that had none when
\* the transaction was checked.
THEOREM ConflictsFreeze == Spec => ConflictFreezes
<1>1. IInv /\ [Next]_vars =>
        [\A id \in Ids : \A h \in DOMAIN state.consensus[id] :
           state'.consensus[id][h] # state.consensus[id][h] => Frozen(state', id)]_vars
  BY StepGood DEF Follows, Ids, IdsOf
<1> QED BY Invariance, <1>1, PTL DEF Spec, ConflictFreezes

\* No message thaws a frozen client, of a later or of the same transaction.
THEOREM FrozenStays == Spec => FrozenIsFinal
<1>1. IInv /\ [Next]_vars => [\A id \in Ids : Frozen(state, id) => Frozen(state', id)]_vars
  BY StepGood DEF Follows, Ids, IdsOf
<1> QED BY Invariance, <1>1, PTL DEF Spec, FrozenIsFinal

-----------------------------------------------------------------------------
(* The order of times                                                      *)

\* The strengthening of LowestIsOldest: there is a lowest height, which a set
\* of naturals always has, but that is proved along the steps, since heights
\* are added one at a time.
OldestAt(s, id, m) ==
  /\ m \in s.verified_heights[id]
  /\ \A k \in s.verified_heights[id] : m <= k
  /\ ~Frozen(s, id) =>
       \A k \in s.verified_heights[id] : s.consensus[id][m].time <= s.consensus[id][k].time

Ordered(s) == \A id \in IdsOf(s) : \E m \in Nat : OldestAt(s, id, m)

\* The lowest height is the one there is.
LEMMA LowestUnique ==
  ASSUME NEW S \in SUBSET Nat, NEW m \in S, \A k \in S : m <= k
  PROVE  Lowest(S) = m
<1>1. Lowest(S) \in S /\ \A k \in S : Lowest(S) <= k
  BY DEF Lowest
<1>2. Lowest(S) \in Nat /\ m \in Nat /\ Lowest(S) <= m /\ m <= Lowest(S)
  BY <1>1
<1> QED BY <1>2

\* A new client has one height.
LEMMA CreateOrdered ==
  ASSUME NEW s, Good(s), Ordered(s),
         NEW msg, msg.latest_height \in Nat \ {0}, msg.consensus_state \in ConsensusStates
  PROVE  Ordered(ExecuteCreate(s, msg))
<1> DEFINE t == ExecuteCreate(s, msg)
<1>1. s.counter \in Nat /\ t.counter = s.counter + 1
  BY DEF Good, ExecuteCreate
<1>2. ASSUME NEW id \in IdsOf(t)
      PROVE  \E m \in Nat : OldestAt(t, id, m)
  <2>1. CASE id = s.counter
    <3>1. t.verified_heights[id] = {msg.latest_height}
          /\ t.consensus[id] = [h \in {msg.latest_height} |-> msg.consensus_state]
      BY <2>1, <1>1 DEF ExecuteCreate
    <3>2. msg.consensus_state.time \in Nat
      BY DEF ConsensusStates
    <3>3. OldestAt(t, id, msg.latest_height)
      BY <3>1, <3>2 DEF OldestAt
    <3> QED BY <3>3
  <2>2. CASE id # s.counter
    <3>1. id \in IdsOf(s)
      BY <2>2, <1>1, <1>2 DEF IdsOf
    <3>2. t.verified_heights[id] = s.verified_heights[id] /\ t.consensus[id] = s.consensus[id]
          /\ t.clients[id] = s.clients[id]
      BY <3>1, <2>2, <1>1 DEF ExecuteCreate, IdsOf
    <3>3. PICK m \in Nat : OldestAt(s, id, m)
      BY <3>1 DEF Ordered
    <3>4. OldestAt(t, id, m)
      BY <3>2, <3>3 DEF OldestAt, Frozen
    <3> QED BY <3>4
  <2> QED BY <2>1, <2>2
<1> QED BY <1>2 DEF Ordered

\* A header below all recorded ones is no later than the lowest of them, and
\* any other no earlier, or the client is frozen.
LEMMA UpdateOrdered ==
  ASSUME NEW s, Good(s), Ordered(s), now \in Nat, height \in Nat,
         NEW msg, msg.client_id \in IdsOf(s), msg.header \in Headers
  PROVE  Ordered(ExecuteUpdate(s, msg))
<1> DEFINE t == ExecuteUpdate(s, msg)
           i == msg.client_id
           h == msg.header.height
           cs == ConsensusState(msg.header)
           client == NextClientState(s, i, msg.header)
           heights == s.verified_heights[i]
           put == [k \in DOMAIN s.consensus[i] \union {h} |-> IF k = h THEN cs ELSE s.consensus[i][k]]
<1>1. h \in Nat \ {0} /\ cs \in ConsensusStates /\ cs.time = msg.header.time /\ cs.time \in Nat
  BY ConsensusStateType DEF ConsensusState, ConsensusStates
<1>2. /\ t.counter = s.counter
      /\ t.clients = [s.clients EXCEPT ![i] = client]
      /\ t.consensus = [s.consensus EXCEPT ![i] = put]
      /\ t.verified_heights = [s.verified_heights EXCEPT ![i] = @ \union {h}]
  BY DEF Good, ExecuteUpdate, PutConsensusState, PutClientData
<1>3. ASSUME NEW id \in IdsOf(t), id # i
      PROVE  \E m \in Nat : OldestAt(t, id, m)
  <2>1. id \in IdsOf(s)
    BY <1>2 DEF IdsOf
  <2>2. t.verified_heights[id] = s.verified_heights[id] /\ t.consensus[id] = s.consensus[id]
        /\ t.clients[id] = s.clients[id]
    BY <2>1, <1>2, <1>3 DEF Good
  <2>3. PICK m \in Nat : OldestAt(s, id, m)
    BY <2>1 DEF Ordered
  <2>4. OldestAt(t, id, m)
    BY <2>2, <2>3 DEF OldestAt, Frozen
  <2> QED BY <2>4
<1>4. \E m \in Nat : OldestAt(t, i, m)
  <2>1. /\ t.verified_heights[i] = heights \union {h} /\ t.consensus[i] = put
        /\ t.clients[i] = client
    BY <1>2 DEF Good
  <2>2. heights \in SUBSET Nat /\ s.consensus[i] \in [heights -> ConsensusStates]
    BY DEF Good
  <2>3. \A k \in heights : s.consensus[i][k].time \in Nat
    BY <2>2 DEF ConsensusStates
  <2>4. PICK m \in Nat : OldestAt(s, i, m)
    BY DEF Ordered
  <2>5. m \in heights /\ \A k \in heights : m <= k
    BY <2>4 DEF OldestAt
  <2>6. ~Frozen(t, i) => ~Frozen(s, i) /\ ~Conflicts(s, i, msg.header)
    BY <2>1, <1>1 DEF Frozen, NextClientState, None
  <2>7. ~Frozen(s, i) => \A k \in heights : s.consensus[i][m].time <= s.consensus[i][k].time
    BY <2>4 DEF OldestAt
  <2>8. CASE h \in heights
    <3>1. ~Frozen(t, i) => put = s.consensus[i]
      BY <2>8, <2>2, <2>6 DEF Conflicts, HasState
    <3>2. heights \union {h} = heights
      BY <2>8
    <3>3. OldestAt(t, i, m)
      BY <3>1, <3>2, <2>1, <2>5, <2>6, <2>7 DEF OldestAt
    <3> QED BY <3>3
  <2>9. CASE h \notin heights /\ h > m
    <3> DEFINE below == {k \in heights : k < h}
    <3>1. m \in below /\ below \in SUBSET Nat /\ \A k \in below : m <= k
      BY <2>9, <2>5, <2>2, <1>1
    <3>2. Lowest(below) = m
      <4> HIDE DEF below
      <4> QED BY <3>1, LowestUnique
    <3>3. ~Frozen(t, i) => cs.time >= s.consensus[i][m].time
      <4>1. ~Frozen(t, i) => NotTooEarly(s, i, msg.header)
        BY <2>6, <2>9, <2>2 DEF Conflicts, HasState
      <4> QED BY <4>1, <3>1, <3>2, <1>1 DEF NotTooEarly
    <3>4. m # h /\ m <= h
      BY <2>9, <1>1
    <3>5. ASSUME ~Frozen(t, i), NEW k \in heights \union {h}
          PROVE  put[m].time <= put[k].time
      <4>1. put[m] = s.consensus[i][m]
        BY <3>4, <2>2, <2>5
      <4>2. CASE k = h
        BY <4>1, <4>2, <3>3, <3>5, <2>3, <2>5, <2>2, <1>1
      <4>3. CASE k # h
        BY <4>1, <4>3, <3>5, <2>2, <2>6, <2>7
      <4> QED BY <4>2, <4>3
    <3>6. OldestAt(t, i, m)
      BY <3>4, <3>5, <2>1, <2>5 DEF OldestAt
    <3> QED BY <3>6
  <2>10. CASE h \notin heights /\ h < m
    <3> DEFINE above == {k \in heights : k > h}
    <3>1. above = heights
      BY <2>10, <2>5, <2>2, <1>1
    <3>2. Lowest(above) = m
      BY <3>1, <2>2, <2>5, LowestUnique
    <3>3. ~Frozen(t, i) => cs.time <= s.consensus[i][m].time
      <4>1. ~Frozen(t, i) => NotTooLate(s, i, msg.header)
        BY <2>6, <2>10, <2>2 DEF Conflicts, HasState
      <4> QED BY <4>1, <3>1, <3>2, <2>5, <1>1 DEF NotTooLate
    <3>4. \A k \in heights \union {h} : h <= k
      BY <2>10, <2>2, <2>5, <1>1
    <3>5. ASSUME ~Frozen(t, i), NEW k \in heights \union {h}
          PROVE  put[h].time <= put[k].time
      <4>1. put[h] = cs
        BY <2>2
      <4>2. CASE k = h
        BY <4>1, <4>2, <1>1
      <4>3. CASE k # h
        <5>1. put[k] = s.consensus[i][k] /\ k \in heights
          BY <4>3, <3>5, <2>2
        <5>2. s.consensus[i][m].time <= s.consensus[i][k].time
          BY <5>1, <3>5, <2>6, <2>7
        <5> QED BY <5>1, <5>2, <4>1, <3>3, <3>5, <2>3, <2>5, <1>1
      <4> QED BY <4>2, <4>3
    <3>6. OldestAt(t, i, h)
      BY <3>4, <3>5, <2>1 DEF OldestAt
    <3> QED BY <3>6, <1>1
  <2> QED BY <2>5, <2>8, <2>9, <2>10, <1>1
<1> QED BY <1>3, <1>4 DEF Ordered

\* One executed message keeps the order.
LEMMA ExecuteOrdered ==
  ASSUME NEW s, Good(s), Ordered(s), now \in Nat, height \in Nat,
         NEW msg \in Messages, ~Panics(s, msg)
  PROVE  Ordered(Execute(s, msg))
<1>1. CASE /\ msg.type = "create" /\ msg.latest_height \in Nat \ {0} /\ msg.frozen_height \in Nat
           /\ msg.consensus_state \in ConsensusStates
  <2>1. Execute(s, msg) = ExecuteCreate(s, msg)
    BY <1>1 DEF Execute
  <2> QED BY <2>1, <1>1, CreateOrdered
<1>2. CASE msg.type = "update" /\ msg.client_id \in Nat /\ msg.header \in Headers
  <2>1. msg.client_id \in IdsOf(s)
    BY <1>2 DEF Panics, Exists, IdsOf
  <2>2. Execute(s, msg) = ExecuteUpdate(s, msg)
    BY <1>2 DEF Execute
  <2> QED BY <2>1, <2>2, <1>2, UpdateOrdered
<1>3. CASE msg.type = "other"
  BY <1>3 DEF Execute
<1>4. CASE msg.type = "malformed"
  BY <1>4 DEF Panics
<1> QED BY <1>1, <1>2, <1>3, <1>4, MessageTypes

\* Whatever the order in which headers come in, the lowest recorded height of
\* a client that is not frozen has the least time.
THEOREM LowestStaysOldest == Spec => []LowestIsOldest
<1>1. Init => Ordered(state)
  BY DEF Init, Ordered, IdsOf
<1>2. IInv /\ Ordered(state) /\ [Next]_vars => Ordered(state')
  <2> SUFFICES ASSUME IInv, Ordered(state), [Next]_vars PROVE Ordered(state')
    OBVIOUS
  <2>1. ASSUME NEW msg \in Messages, ExecuteIbcAction(msg) PROVE Ordered(state')
    <3>1. now \in Nat /\ height \in Nat /\ Good(state)
      BY DEF IInv, height
    <3>2. state' = IF Panics(state, msg) THEN state ELSE Execute(state, msg)
      BY <2>1 DEF ExecuteIbcAction
    <3>3. CASE Panics(state, msg) BY <3>2, <3>3
    <3>4. CASE ~Panics(state, msg) BY <3>1, <3>2, <3>4, ExecuteOrdered
    <3> QED BY <3>3, <3>4
  <2>2. ASSUME UNCHANGED state PROVE Ordered(state')
    BY <2>2
  <2> QED BY <2>1, <2>2 DEF Next, BeginBlock, NextTx, vars
<1>3. IInv /\ Ordered(state) => LowestIsOldest
  <2> SUFFICES ASSUME IInv, Ordered(state), NEW id \in Ids, ~Frozen(state, id),
                      NEW k \in DOMAIN state.consensus[id]
               PROVE  state.consensus[id][Lowest(DOMAIN state.consensus[id])].time
                        <= state.consensus[id][k].time
    BY DEF LowestIsOldest
  <2>1. id \in IdsOf(state)
    BY DEF Ids, IdsOf
  <2>2. PICK m \in Nat : OldestAt(state, id, m)
    BY <2>1 DEF Ordered
  <2>3. DOMAIN state.consensus[id] = state.verified_heights[id] /\ state.verified_heights[id] \in SUBSET Nat
    BY <2>1 DEF IInv, Good
  <2>4. Lowest(DOMAIN state.consensus[id]) = m
    BY <2>2, <2>3, LowestUnique DEF OldestAt
  <2> QED BY <2>2, <2>3, <2>4 DEF OldestAt
<1>4. Ordered(state') <=> Ordered(state)'
  BY DEF Ordered, OldestAt, IdsOf, Frozen
<1> QED BY Invariance, <1>1, <1>2, <1>3, <1>4, PTL DEF Spec
=============================================================================
