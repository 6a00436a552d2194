SPECIFICATION FairSpec
CONSTANTS
  t1 = t1  t2 = t2  k1 = k1  k2 = k2
  Callers <- MCCallers
  Conns <- MCConns
  NoConn = NoConn
  NoThread = NoThread
  Ops <- MCOps
  Lengths <- MCLengths
  Setups <- MCSetups
\* Calls are bounded, and the daemons may end.
CHECK_DEADLOCK FALSE
PROPERTIES
  NoPersistentBlocking
