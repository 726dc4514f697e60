\* PROTOCOL recovery and an exception for another function.
CONSTANTS
  Tids = 3
  Requests <- ReadsAndWrites
  MaxLag = 2
SPECIFICATION Spec
PROPERTIES
  FlushesOnWrongFunction
