\* A late answer goes to the next requester.
CONSTANTS
  Slaves <- MCSlaves
  MaxSlave = 247
  SleepSuffices = TRUE
  MaxRequests = 2
SPECIFICATION Spec
INVARIANTS
  RelaysOwn
CHECK_DEADLOCK FALSE
