SPECIFICATION FairSpec
CONSTANTS
  MaxRelease = 1
  MaxUpdates = 1
  MaxFaults = 1
  MaxWrites = 0
  Concurrent = TRUE
PROPERTY CrashWindowClosed
