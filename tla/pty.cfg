SPECIFICATION FairSpec
CONSTANTS
  r1 = r1
  r2 = r2
  Readers <- TwoReaders
  MaxOut = 2
  MaxSends = 2
  MaxStops = 2
  MaxCommands = 2
  MaxBusy = 2
  PtyBuffer = 2
  Chunk = 1
  DrainReads = 2
  Radix = 2
INVARIANTS
  PtyTypeOK
  ExitIsTrue
  OutputComplete
  NothingSkipped
  InputAccounted
PROPERTY LateStopEnds
CHECK_DEADLOCK FALSE
