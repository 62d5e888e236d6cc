SPECIFICATION MCSpec
CONSTANTS
  Tasks = {t1, t2, t3, t4}
  Worker = w
  InitUnits = 3
  Workloads <- MCWorkloads
  MaxSignal = 2
  MaxQueuedWriters = 4
  Capacity = 2
  NoTask = NoTask
  MaxTasks = 3
  MaxQueues = 2
INVARIANTS
  UnitsNotLost
  GuardsExclude FreeLockWakes
  WakesMatchItems PopFinds ClosedMeansNoPass CallNotStranded StreamDelivers
  ScopesHold TasksAccounted
CHECK_DEADLOCK FALSE
