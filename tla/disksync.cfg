SPECIFICATION Spec
CONSTANTS
  c1 = c1
  c2 = c2
  s1 = s1
  s2 = s2
  Absent = Absent
  Torn = Torn
  AnySender = AnySender
  StartBlock = 1
  EndBlock = 2
  Commitments = {c1, c2}
  Canonical = {c1}
  Senders = {s1, s2}
  TxLists <- SomeTxLists
  SidecarLists <- SomeSidecarLists
  VerifyKzg = TRUE
  MaxRuns = 2
INVARIANTS TypeOK FinishedRunIsOnDisk OnlyVerifiedOnDisk
PROPERTY ManifestCommitsFiles
\* The last run has ended.
CHECK_DEADLOCK FALSE
