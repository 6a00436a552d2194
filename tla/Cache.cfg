SPECIFICATION Spec
CONSTANTS
  c1 = c1  c2 = c2  k1 = k1  v1 = v1  v2 = v2
  Clients <- MCClients
  Keys <- MCKeys
  Values <- MCValues
  NoValue = NoValue
  NoItem = NoItem
  Inf = Inf
  Durations <- MCDurations
  MinInterval = 1
  MaxInterval = 1
  DefaultDuration = 1
  MinDuration = 2
  Boot = 1
  Walls <- MCWalls
  MaxBack = 2
  MemFails = TRUE
  MaxTime = 4
  MaxNotices = 1
SYMMETRY Symmetry
CHECK_DEADLOCK FALSE
INVARIANTS
  SweptInTime
PROPERTIES
  ImplementsCacheMap
