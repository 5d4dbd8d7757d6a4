SPECIFICATION FairSpec
CONSTANTS
  MaxRelease = 2
  MaxUpdates = 2
  MaxFaults = 3
  MaxWrites = 1
  Concurrent = TRUE
INVARIANTS
  WritersOnWholeRuntime
  NoSettledWriteLost
  UpdateSound
PROPERTIES
  ImplementsReleaseSwitch
  UpdateSettles
