SPECIFICATION Spec
CONSTANTS
  Programs <- Compiled
  Files <- NoFiles
  StackSize = 24
  FreshPairs = 2
  Collecting = TRUE
  Fuel = 1000
INVARIANTS TypeOK Correct NoStale LexicalChain StackBounded FrameKept Verified
