SPECIFICATION FairSpec
CONSTANTS
  Foreign = {t1}
  MaxWakers = 2
PROPERTIES AbandonedIsFreed ScheduledRuns
CHECK_DEADLOCK FALSE
