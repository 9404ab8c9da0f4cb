SPECIFICATION Spec
CONSTANTS
  FIELD_ELEMENTS_PER_BLOB = 2
  USABLE_BYTES_PER_FIELD = 3
  Single = 2
  Short = 3
  HexMark = 10
  HexDigits = {0, 2}
  MAX_BLOBS_PER_TX = 2
  Batches <- SomeBatches
  ForeignBlobs <- SomeForeignBlobs
INVARIANTS TypeOK GuestReadsBatch OnlyCanonicalIsRead ReadAsSigned
\* The batch has been read or refused.
CHECK_DEADLOCK FALSE
