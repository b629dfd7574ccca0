SPECIFICATION FairSpec
CONSTANTS
  Raised <- LockOnly
  MaxCalls = 2
  MaxDeaths = 1
  DumpMayFail = TRUE
INVARIANTS
  TypeOK
  FirstLockIsSignalled
  LockedSampleIsWhole
PROPERTIES
  OnlyUnlockReleases
  FirstDangerIsSignalled
  ImplementsLatch
