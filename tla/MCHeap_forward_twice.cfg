SPECIFICATION Spec
CONSTANTS
  FreshSize = 1
  SurvivedSize = 2
  OldSize = 3
  PromoteGen = 1
  NFields = 1
  NRoots = 2
  NULL = NULL
INVARIANT FaithfulAlways
CHECK_DEADLOCK FALSE
