SPECIFICATION LocalSpec
CONSTANTS
  f1 = f1  f2 = f2  v1 = v1  v2 = v2
  t1 = t1  t2 = t2  k1 = k1  k2 = k2
  Callers <- MCCallers
  Conns <- MCConns
  NoConn = NoConn
  NoThread = NoThread
  Ops <- MCOps
  Lengths <- MCLengths
  Setups <- MCSetups
  Keys <- MCKeys
  Values <- MCValues
  Length <- MCLength
  NoValue = NoValue
  NoEntry = NoEntry
  Cut = Cut
  Long = {}
  Faults = {"deny", "nomem", "full"}
INVARIANTS
  NeverTorn
  ReadsBack
  AnswersMatch
  LeftClean
  FieldsKept
  AppliesArguments
  PrefixMatches
  TextFits
PROPERTIES
  EveryCallReturns
CHECK_DEADLOCK FALSE
