SPECIFICATION FairSpec
CONSTANTS
  Names = {n1}
  Ttl = 1
  Timeouts = {1, 2}
  Inodes <- MCInodes
  MaxRequests = 2
  MaxTime = 3
  MaxStarts = 2
INVARIANTS StateTypeOK FreshAnswers ReadsInOrder HalvesAgree
PROPERTIES ImplementsReads RefusalIsNotSticky RequestsSettle
CHECK_DEADLOCK FALSE
