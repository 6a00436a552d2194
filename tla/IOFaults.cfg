SPECIFICATION FairSpec
CONSTANTS
  t1 = t1  t2 = t2  t3 = t3  k1 = k1  v1 = v1  v2 = v2  s1 = s1  s2 = s2
  Threads <- MCThreads
  Keys <- MCKey
  Values <- MCValues
  NoValue = NoValue
  Storages <- MCTwo
  NoStorage = NoStorage
  Local <- MCLocal
  Serves <- MCServes
  NoThread = NoThread
  UseCache = TRUE
  Faults <- MCAllFaults
  MayRegister = TRUE
  MaxCalls = 3
CHECK_DEADLOCK FALSE
INVARIANTS
  SerialPerKey
  StorageInRoute
PROPERTIES
  EveryRequestReturns
