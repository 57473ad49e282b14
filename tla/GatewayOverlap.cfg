SPECIFICATION Spec
CONSTANTS
  Conns = {p1, p2}
  Posters = {p1, p2}
  Peers = {}
  Keys = {7, 8}
  Values = {1, 2}
  Paths <- OneKey
  Methods = {}
  Bodies <- TwoBodies
  Unowned = {}
  Failures = {}
INVARIANTS
  OwnFields
