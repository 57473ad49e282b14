SPECIFICATION Spec
CONSTANTS
  Keys <- KeysWithZero
  Values = {1, 2}
  Offset = 0
  Tails <- CleanMemory
  MaxChain = 5
PROPERTIES
  ImplementsDictionary
