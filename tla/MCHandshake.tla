----------------------------- MODULE MCHandshake -----------------------------
(***************************************************************************)
(* Another chain with one client that follows this chain and one that      *)
(* follows somebody else.                                                  *)
(***************************************************************************)
EXTENDS Handshake

MCClient(chain_id, recorded) ==
  [frozen |-> FALSE, chain_id |-> chain_id, latest_height |-> 1, trust_level |-> <<1, 3>>,
   unbonding_period |-> 2, trusting_period |-> 1, recorded |-> recorded]
MCTheirClients == [c \in 0 .. 1 |-> IF c = 0 THEN MCClient("penumbra", {1}) ELSE MCClient("other", {1})]
MCCounterparties ==
  {[client_id |-> 0, connection_id |-> None], [client_id |-> 0, connection_id |-> 0],
   [client_id |-> 1, connection_id |-> 0]}
=============================================================================
