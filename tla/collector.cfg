SPECIFICATION FairSpec
CONSTANTS
  Ids = {1, 2, 3}
  Workers = {w1, w2}
  ListLimit = 2
  Size <- OversizedSize
  Capacity = 2
  MaxTime = 1
  MaxFaults = 1
INVARIANTS
  TypeOK
  IndexesMatchRecords
  BundledWasPublished
  PublicationsBounded
  UnsettledNeedsFailure
PROPERTIES
  BundledIsFinal
  ImplementsLedger
  EventuallyBundled
\* Once everything is bundled and the bounds are reached nothing is left to do.
CHECK_DEADLOCK FALSE
