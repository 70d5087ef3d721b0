SPECIFICATION LibrariesSpec
CONSTANTS
  Worlds <- Plain
  MaxOpen = 4
  Translate <- CompileFile
  Programs = {}
  Files = {}
  StackSize = 24
  FreshPairs = 2
  Collecting = TRUE
  Fuel = 1000
INVARIANTS NoStale ProgramCorrect Available ExpandedOnce Registered
PROPERTIES Finishes
