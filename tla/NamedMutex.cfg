SPECIFICATION FairSpec
CONSTANTS
  t1 = t1  t2 = t2  t3 = t3
  k1 = k1  k2 = k2
  o1 = o1  o2 = o2  o3 = o3
  Threads <- MCThreads
  Names <- MCNames
  Objs <- MCObjs
  NoName = NoName
  NoObj = NoObj
  NoThread = NoThread
\* The namespace is gone at the end of a run; that nothing else stops is what
\* Drains says.
CHECK_DEADLOCK FALSE
INVARIANTS
  TypeOK
  MutualExclusion
  NoUseAfterFree
  QuiescentEmpty
PROPERTIES
  DestroyUnreferenced
  ImplementsKeyLock
  Drains
