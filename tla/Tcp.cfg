\* Two units each way, room for one, one retransmission, memory that may run out.
CONSTANTS
  AppUnits = 2
  PeerUnits = 2
  RecvBuf = 1
  TCP_MAX_RETX = 1
  MaxRcv = 5
  AllocFails = TRUE
SPECIFICATION FairSpec
INVARIANTS
  TypeOK
  InOrder
  PeerInOrder
  AcksReceived
  UnackedHasTimer
PROPERTY SlotFreed
CHECK_DEADLOCK FALSE
