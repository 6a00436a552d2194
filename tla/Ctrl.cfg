SPECIFICATION FairSpec
CONSTANTS
  c1 = c1  c2 = c2  w1 = w1  w2 = w2  p1 = p1  p2 = p2  p3 = p3
  Clients <- MCClients
  Workers <- MCWorkers
  Pkgs <- MCPkgs
  NoPkg = NoPkg
  Types <- MCTypes
  Freed <- MCNothing
  MaxEntries = 0
  NumPrefixMax = 1
  QueueLen = 1
  Faults <- MCFaults
  MaxCalls = 2
\* Calls are bounded, and the daemon may be stopped.
CHECK_DEADLOCK FALSE
INVARIANTS
  PackageOwned
  AnsweredOnce
PROPERTIES
  EveryCallReturns
