SPECIFICATION ApiSpec
CONSTANTS
  Ids = {1, 2}
  Workers = {w1}
  ListLimit = 2
  Size <- UnitSize
  Capacity = 2
  MaxTime = 1
  MaxFaults = 1
  PageLimit = 2
INVARIANTS
  ApiTypeOK
  PageShowsSettledRecordsOnce
  ListsStaleOnlyWhileLoading
  SidecarReversesBatch
CHECK_DEADLOCK FALSE
