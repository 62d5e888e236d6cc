SPECIFICATION FairSpec
CONSTANTS
  Capacity = 1
  MaxItems = 2
INVARIANTS NoSleepOnWork NoneMeansDrained
PROPERTIES WorkReleases
CHECK_DEADLOCK FALSE
