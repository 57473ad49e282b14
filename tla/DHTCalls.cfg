SPECIFICATION FairColdOrReadySpec
CONSTANTS
  c1 = c1
  c2 = c2
  c3 = c3
  NumNodes = 4
  Offset <- ScriptOffsets
  Clients = {c1, c2}
  HighClients = {c2}
  Keys = {70, 192, 200}
  Values = {5}
  MaxSlots = 2
  Lossy = FALSE
  MaxCalls = 2
INVARIANTS
  OthersNeverReturn
  RepliesAreAnswers
PROPERTIES
  CallsReturn
  QueryApproaches
  FingersLearned
  VanishesOnlyEarly
CHECK_DEADLOCK FALSE
