\* A TCP server: any request, known or not, byte timeout, no recovery.
CONSTANTS
  Frames <- TcpRequestsAndOthers
  ValidCrc <- Nothing
  HeaderLength = 7
  ChecksumLength = 0
  MaxAdu = 260
  MsgType = "MSG_INDICATION"
  FirstTimeout = FALSE
  ByteTimeout = TRUE
  Recovery <- Nothing
  MaxFrames = 2
  MaxConnections = 1
SPECIFICATION FairSpec
INVARIANTS
  BufferBound
  NoOverread
  ExactFrame
PROPERTIES
  LostOnlyBy
  Resync
CHECK_DEADLOCK FALSE
