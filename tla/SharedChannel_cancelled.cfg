SPECIFICATION FairSpec
CONSTANTS
  Capacity = 1
  MaxItems = 2
PROPERTY GoneSenderEndsRecv
CHECK_DEADLOCK FALSE
