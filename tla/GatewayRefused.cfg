SPECIFICATION Spec
CONSTANTS
  Conns = {p1}
  Posters = {p1}
  Peers = {}
  Keys = {7, 8}
  Values = {1, 2}
  Paths <- OneKey
  Methods = {}
  Bodies <- TwoBodies
  Unowned = {8}
  Failures = {}
PROPERTIES
  SuccessIsReal
