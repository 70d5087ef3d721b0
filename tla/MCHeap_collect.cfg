SPECIFICATION Spec
CONSTANTS
  FreshSize = 1
  SurvivedSize = 1
  OldSize = 2
  PromoteGen = 1
  NFields = 1
  NRoots = 2
  NULL = NULL
INVARIANT TypeOK
INVARIANT OneCopy
INVARIANT Faithful
INVARIANT NoDangling
CONSTRAINT Untainted
CHECK_DEADLOCK FALSE
