SPECIFICATION Spec
CONSTANTS
  Keys <- MCKeys
  Names <- MCNames
  Name <- MCName
  Hash <- MCHash
  Values = {1, 2}
  NULL = NULL
  Primes <- MCPrimes
  MinSize = 1
  MaxSize = 5
INVARIANTS TypeOK Placed Counted LoadBounded IInv
PROPERTIES Implements
