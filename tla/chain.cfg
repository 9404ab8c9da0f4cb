SPECIFICATION ChainSpec
CONSTANTS
  Ids = {1, 2, 3}
  Workers = {w1}
  ListLimit = 2
  Size <- LastAlone
  Capacity = 2
  MaxTime = 1
  MaxFaults = 1
  MaxDrops = 1
INVARIANT ChainTypeOK
PROPERTY LandsUnlessDropped
\* Once every transaction is mined or dropped nothing is left to do.
CHECK_DEADLOCK FALSE
