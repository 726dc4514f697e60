CONSTANTS
  Slaves <- OneSlave
  Floats <- TwoFloats
  Noise <- SomeNoise
SPECIFICATION Spec
INVARIANTS
  ChecksumIsModbus
  RefusesDamage
  FloatArrives
CHECK_DEADLOCK FALSE
