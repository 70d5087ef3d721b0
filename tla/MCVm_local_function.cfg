SPECIFICATION Spec
CONSTANTS
  Programs <- LocalFunction
  Files <- NoFiles
  StackSize = 24
  FreshPairs = 2
  Collecting = TRUE
  Fuel = 1000
INVARIANTS Correct
