SPECIFICATION FairSpec
CONSTANTS
  Programs <- Ending
  Files <- AllTexts
  StackSize = 40
  FreshPairs = 2
  Collecting = FALSE
  Fuel = 1000
INVARIANTS Correct
PROPERTIES Ends
