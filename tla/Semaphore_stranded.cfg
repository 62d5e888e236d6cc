SPECIFICATION SemaphoreSpec
CONSTANTS
  Tasks = {t1, t2, t3, t4}
  InitUnits = 3
  Workloads <- MixedWorkload
  MaxSignal = 0
  MaxQueuedWriters = 0
  Capacity = 1
  NoTask = NoTask
  Worker = w
  MaxTasks = 1
  MaxQueues = 1
INVARIANTS NotStranded
CHECK_DEADLOCK FALSE
