SPECIFICATION Spec
CONSTANTS
  Programs <- RestPairs
  Files <- NoFiles
  StackSize = 24
  FreshPairs = 2
  Collecting = TRUE
  Fuel = 1000
INVARIANTS NoStale
