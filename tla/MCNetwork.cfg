SPECIFICATION FairNetwork
CONSTANTS
  Clients <- MCClients
  Requests <- MCRequests
  MaxClients = 1
  Agents = {"a", "b"}
  MaxHops = 3
  MaxQueries = 2
  MaxBeats = 2
INVARIANTS AcceptedArePolled EngineQuiet
PROPERTIES ImplementsService ServedOrClosed SignalEnds AgentsQuiet
\* The program ends, and agents without a question rest.
CHECK_DEADLOCK FALSE
