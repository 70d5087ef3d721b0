SPECIFICATION NamedSpec
CONSTANTS
  FreshSize = 1
  SurvivedSize = 1
  OldSize = 1
  PromoteGen = 1
  NFields = 2
  NRoots = 1
  NULL = NULL
INVARIANT Faithful
INVARIANT NameInv
PROPERTY Implements
CHECK_DEADLOCK FALSE
