SPECIFICATION BothSpec
CONSTANTS
  Conns = {"p1", "g1"}
  Posters = {"p1"}
  Peers = {"d1"}
  Keys = {7}
  Values = {1}
  Paths <- OneKey
  Methods = {"GET", "DELETE"}
  Bodies <- CompleteBodies
  Unowned = {}
  Failures = {}
PROPERTIES
  ImplementsService
  OddRequestsAnswered
