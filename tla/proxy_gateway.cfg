\* A gateway in front of a TCP or RTU device, under each error recovery.
CONSTANTS
  Slaves <- MCSlaves
  MaxSlave = 247
  SleepSuffices = TRUE
  MaxRequests = 3
SPECIFICATION FairSpec
INVARIANTS
  RelaysOwnUnderLink
  RelaysFromSlave
  IInv
PROPERTIES
  ImplementsGateway
CHECK_DEADLOCK FALSE
