SPECIFICATION MCSpec
CONSTANTS
  Foreign = {t1, t2}
  MaxWakers = 3
  MaxFailures = 1
  None = None
  Pair = {t1, t2}
  Ids = {t1, t2}
  Delays = {0, 1, 2}
  MaxTime = 5
  ActionDelays = {0, 1}
  ActionTime = 3
  Calls = {1, 2, 3}
  Urgent = {3}
  Closures = {2, 3}
  Workers = {t1, t2}
  PoolDepth = 1
  BufferUnits = 2
  FileUnits = 7
  EndPos = 5
  SeekTargets = {0, 1, 3, 6}
  Threads = {t1, t2}
  MaxGuards = 2
  MaxFds = 2
SYMMETRY Symmetry
INVARIANTS
  RefsExact NoUseAfterFree FutureExclusive AwaiterNotStranded ShutdownComplete
  TimerNotLost ReactorServes AnswerReachesTask
  FlushedReadable WriterFinishes ReaderNotStranded ReadsAtPosition GuardMeansLocked
  FilesServed EveryCpuInTurn
CHECK_DEADLOCK FALSE
