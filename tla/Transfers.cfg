SPECIFICATION FairTransferSpec
CONSTANTS
  window = 3
  sendNack = TRUE
  MaxSeqNo = 6
  MaxFlight = 3
  MaxAcks = 3
  veryLastSeqNo = 5
  MaxSocket = 2
INVARIANTS
  AssertsHold
  NeverAsleep
  OneBehind
PROPERTIES
  ImplementsWindow
  StuckWithBoth
  Delivered
  FileCompleted
CHECK_DEADLOCK FALSE
