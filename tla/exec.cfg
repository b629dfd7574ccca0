SPECIFICATION FairSpec
CONSTANTS
  Requests <- ShortToLong
  StartMax = 2
  AnswerMax = 1
INVARIANTS
  WatchdogTypeOK
  NoRunawayTrajectory
PROPERTY OverrunIsCancelled
CHECK_DEADLOCK FALSE
