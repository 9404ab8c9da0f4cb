SPECIFICATION ApiSpec
CONSTANTS
  Ids = {1, 2}
  Workers = {w1}
  ListLimit = 2
  Size <- UnitSize
  Capacity = 2
  MaxTime = 1
  MaxFaults = 0
  PageLimit = 2
INVARIANT SidecarInBatchOrder
CHECK_DEADLOCK FALSE
