\* A TCP server whose clients send well-formed requests, without a timeout.
CONSTANTS
  Frames <- TcpRequests
  ValidCrc <- Nothing
  HeaderLength = 7
  ChecksumLength = 0
  MaxAdu = 260
  MsgType = "MSG_INDICATION"
  FirstTimeout = FALSE
  ByteTimeout = FALSE
  Recovery <- Nothing
  MaxFrames = 3
  MaxConnections = 1
SPECIFICATION FairSpec
PROPERTIES
  ImplementsChannel
CHECK_DEADLOCK FALSE
