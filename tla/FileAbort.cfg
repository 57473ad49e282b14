SPECIFICATION TransferSpec
CONSTANTS
  window = 2
  sendNack = FALSE
  MaxSeqNo = 4
  MaxFlight = 2
  MaxAcks = 2
  veryLastSeqNo = 3
  MaxSocket = 2
INVARIANTS
  ProxyAssertHolds
CHECK_DEADLOCK FALSE
