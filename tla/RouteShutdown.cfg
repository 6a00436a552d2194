SPECIFICATION Spec
CONSTANTS
  w1 = w1  w2 = w2  i1 = i1  i2 = i2  n1 = n1  n2 = n2  p1 = p1  k1 = k1
  Workers <- MCWorkers
  Main = Main
  Items <- MCItems
  NoItem = NoItem
  Names <- MCNames
  Prefixes <- MCPrefixes
  Keys <- MCKeys
  Matching <- MCMatching
CHECK_DEADLOCK FALSE
INVARIANTS
  EmptyAtDestroy
