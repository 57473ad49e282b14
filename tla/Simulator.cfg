SPECIFICATION Spec
CONSTANTS
  MaxPings = 2
  Durations = {1, 2}
  QueueLengths = {2}
  TransientRemovals = {0, 2}
  BatchLengths = {0, 1, 2}
  MaxBatches = 2
  MaxTime = 5
  Ports = {1, 2, 3, 4, 8}
  numApplPerNode = 2
  numNodes = 3
  NodeIds = {0, 1}
  Internal <- InternalApplications
  Modules = {m1, m2}
  MaxMessages = 2
  MaxPrograms = 2
  maxCount = 4
  MaxSeqNo = 10
INVARIANTS
  RoutesShortest
  QueueExact
  ProgramsRegistered
  MessagesWhole
  ArgumentsKept
PROPERTIES
  PingsAnswered
  ImplementsQueue
CHECK_DEADLOCK FALSE
