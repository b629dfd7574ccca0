SPECIFICATION FairSpec
CONSTANTS
  Requests <- DefaultTimeout
  StartMax = 2
  AnswerMax = 1
INVARIANT NeverLeftMoving
CHECK_DEADLOCK FALSE
