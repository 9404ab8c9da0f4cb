SPECIFICATION Spec
CONSTANTS
  Provers = {p, q}
  WithCode = {p}
  Users = {u}
  Refs = {r}
  Roots = {0, 1, 2}
  Provable <- MCProvable
  Window = 1
  MaxBlock = 2
  MaxDeposit = 1
  MaxEther = 2
  MaxDepth = 2
  MaxSettlements = 3
INVARIANTS
  TypeOK
  EtherAccounted
  RootIsChained
  RootsAreUsedUp
  EventsMatchSettlements
\* The run of blocks is bounded.
CHECK_DEADLOCK FALSE
