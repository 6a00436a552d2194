SPECIFICATION Spec
CONSTANTS
  grand = grand  parent = parent  child = child
  Daemons <- MCDaemons
  Num <- MCNum
  Offer <- MCOffer
  Asks <- MCAsks
  Query <- MCQuery
  MaxAsks = 3
  MaxLeave = 1
  Own = Own
  Nobody = Nobody
PROPERTIES
  EveryAskReturns
CHECK_DEADLOCK FALSE
