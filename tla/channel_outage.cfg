SPECIFICATION Spec
CONSTANTS
  PacketModulus = 8
  RingSize = 4
  AckHistory = 1
  MessageModulus = 6
  ReliableSlots = 2
  OutboundSlots = 2
  ReportCapacity = 2
  Lengths <- Single
  HostMessages = 2
  PeerMessages = 1
  PeerBurst = 1
  MaxLag = 2
  WireToHost = 1
  WireToPeer = 1
  Reorder = FALSE
  Duplicates = {}
INVARIANTS NothingRetiredUnheard
CHECK_DEADLOCK FALSE
