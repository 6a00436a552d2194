\* A background daemon: every step of the start may fail, sockets may be there
\* already, parents may refuse to drop the daemon, signals come at any time.
SPECIFICATION FairSpec
CONSTANTS
  Options <- Storages
  Null = "null"
  Keys = {"a", "b"}
  Serves <- Served
  Children <- OneChild
  Parents <- TwoParents
  UseCache = TRUE
  Background = TRUE
  Faults <- AllFaults
  MaxSignals = 2
INVARIANTS RequestsHaveParts CleanExit LauncherTruthful
 
