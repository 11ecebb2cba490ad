SPECIFICATION FairNetwork
CONSTANTS
  Clients <- MCClients
  Requests <- MCRequests
  MaxClients = 1
  Agents = {"a", "b"}
  MaxHops = 1
  MaxQueries = 0
  MaxBeats = 0
INVARIANTS ResourcesBeforeDevice
CHECK_DEADLOCK FALSE
