SPECIFICATION ProverSpec
CONSTANTS
  whole = whole
  front = front
  back = back
  foreign = foreign
  Blocks = {1, 2}
  Commitments = {whole, front, back, foreign}
  RefLists <- SomeRefLists
  TxLists <- SomeTxLists
  SidecarLists <- SomeSidecarLists
  VerifyKzg = TRUE
  FIELD_ELEMENTS_PER_BLOB = 2
  USABLE_BYTES_PER_FIELD = 3
  Single = 2
  Short = 3
  Content <- SomeContent
  AuthLists <- SomeAuthLists
  SampleEntries <- Two
  SampleAmounts <- TwoAmounts
  SampleRef <- FirstTx
  Signers = {1, 2}
  Anvil = 1
  Stranger = 0
  MaxEther = 3
INVARIANT SpanningInputsProve
\* The host has ended.
CHECK_DEADLOCK FALSE
