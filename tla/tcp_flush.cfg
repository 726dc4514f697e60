\* The whole pieces do not fill the count; more can be unread than it counts.
CONSTANTS
  UINT16_MAX = 10
  MODBUS_TCP_MAX_ADU_LENGTH = 3
  MaxUnread = 14
SPECIFICATION FairSpec
INVARIANTS
  IInv
  Discards
PROPERTIES
  FlushEnds
