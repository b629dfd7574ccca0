SPECIFICATION FairSpec
CONSTANTS
  Raised <- LockOnly
  MaxCalls = 2
  MaxDeaths = 0
  DumpMayFail = FALSE
PROPERTY DangerIsSignalled
