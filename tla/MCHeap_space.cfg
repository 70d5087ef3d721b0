SPECIFICATION Spec
CONSTANTS
  FreshSize = 1
  SurvivedSize = 1
  OldSize = 2
  PromoteGen = 3
  NFields = 1
  NRoots = 1
  NULL = NULL
INVARIANT Precise
INVARIANT OutOfMemoryIsReal
INVARIANT IInv
INVARIANT LiveInv
PROPERTY GcEnds
CHECK_DEADLOCK FALSE
