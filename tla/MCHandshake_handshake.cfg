SPECIFICATION Spec
CONSTANTS
  Clients = {0}
  TheirClients <- MCTheirClients
  Counterparties <- MCCounterparties
  Versions = {"1"}
  Version = "1"
  ChainId = "penumbra"
  MaxConnections = 2
  MaxTheirs = 2
  MaxHeight = 3
INVARIANTS ConnectionsListed ConfirmedAgree
PROPERTIES EndsKept
CHECK_DEADLOCK FALSE
