SPECIFICATION FairSpec
CONSTANTS
  w1 = w1  w2 = w2  io = io  ctrl = ctrl
  Workers <- MCWorkers
  Servers <- MCServers
  NoThread = NoThread
  NoTask = NoTask
  Num = 2
  Sync <- MCBoth
  MayStop = TRUE
  MaxTasks = 4
  MaxSpurious = 1
\* The bounds on tasks and wakeups end every run.
CHECK_DEADLOCK FALSE
INVARIANTS
  NoLostWakeup
  ResultOnLiveStack
PROPERTIES
  ImplementsTaskPool
  EveryTaskStarts
  EverySubmitReturns
  DestroyCompletes
