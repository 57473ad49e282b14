SPECIFICATION PartsSpec
CONSTANTS
  Keys <- CollidingKeys
  Values = {1, 2}
  Offset = 0
  Tails <- AnyMemory
  MaxChain = 5
  Clients = {c1, c2}
  HighClients = {c1}
  EvenClients = {}
  RingSizes = {3, 4}
  RingKeys = {70, 200}
  RingValues = {7}
  MaxSlots = 1
  MaxCalls = 2
  PairLists <- Pairs
  MaxDuplicates = 1
  Askers = {c1, c2}
  Second = 2
  Skews <- Readings
  MaxTime = 3
INVARIANTS
  KeysDistinct
  HomeAfterLaps
  ResultsExplained
  GcdKnown
  DelayMeasured
PROPERTIES
  ImplementsDictionary
  CallsReturn
  ClientEnds
  ClientsServed
CHECK_DEADLOCK FALSE
