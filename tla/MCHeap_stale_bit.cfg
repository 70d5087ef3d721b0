SPECIFICATION Spec
CONSTANTS
  FreshSize = 1
  SurvivedSize = 2
  OldSize = 2
  PromoteGen = 1
  NFields = 1
  NRoots = 2
  NULL = NULL
INVARIANT CollectsReached
CHECK_DEADLOCK FALSE
