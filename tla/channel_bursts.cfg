SPECIFICATION InTouchSpec
CONSTANTS
  PacketModulus = 8
  RingSize = 4
  AckHistory = 1
  MessageModulus = 6
  ReliableSlots = 3
  OutboundSlots = 3
  ReportCapacity = 2
  Lengths <- Split
  HostMessages = 1
  PeerMessages = 2
  PeerBurst = 2
  MaxLag = 2
  WireToHost = 1
  WireToPeer = 1
  Reorder = FALSE
  Duplicates = {"host"}
INVARIANTS TypeOK
PROPERTIES DeliversToHost
CHECK_DEADLOCK FALSE
