SPECIFICATION ReadySpec
CONSTANTS
  c1 = c1
  c2 = c2
  c3 = c3
  NumNodes = 4
  Offset <- Quarters
  Clients = {c1, c2, c3}
  HighClients = {}
  Keys = {200}
  Values = {5, 6}
  MaxSlots = 2
  Lossy = TRUE
  MaxCalls = 3
INVARIANTS
  RequestTracked
PROPERTIES
  ImplementsService
SYMMETRY Symmetry
CHECK_DEADLOCK FALSE
