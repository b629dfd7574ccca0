SPECIFICATION FairSpec
CONSTANTS
  r1 = r1
  r2 = r2
  Readers <- OneReader
  MaxOut = 1
  MaxSends = 0
  MaxStops = 1
  MaxCommands = 1
  MaxBusy = 2
  PtyBuffer = 2
  Chunk = 1
  DrainReads = 2
  Radix = 2
PROPERTY StopKills
CHECK_DEADLOCK FALSE
