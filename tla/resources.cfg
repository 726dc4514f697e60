SPECIFICATION Spec
CONSTANTS
  FD_SETSIZE = 2
  MaxAddresses = 2
INVARIANTS
  TypeOK
  NoGarbage
  FreesWhatItHas
  NothingLost
  OwnsItsSocket
  RestoresLine
