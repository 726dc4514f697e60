\* An RTU client waiting for answers, under LINK and PROTOCOL recovery.
CONSTANTS
  Frames <- RtuResponses
  ValidCrc <- GoodResponses
  HeaderLength = 1
  ChecksumLength = 2
  MaxAdu = 256
  MsgType = "MSG_CONFIRMATION"
  FirstTimeout = TRUE
  ByteTimeout = TRUE
  Recovery <- LinkAndProtocol
  MaxFrames = 2
  MaxConnections = 2
SPECIFICATION FairSpec
INVARIANTS
  IInv
PROPERTIES
  LostOnlyBy
  Resync
CHECK_DEADLOCK FALSE
