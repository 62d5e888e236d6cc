SPECIFICATION FairSpec
CONSTANTS
  NrShards = 3
  NotifierMayFail = TRUE
PROPERTIES BuilderAnswers
CHECK_DEADLOCK FALSE
