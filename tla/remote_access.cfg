\* The library's own calls, and requests built by hand.
CONSTANTS
  BitsPerByte = 2
  Start <- MCStart
  Nb <- MCNb
  InitialTables <- MCInitialTables
  MaxRead <- MCMaxRead
  MaxWrite <- MCMaxWrite
  MaxWrWrite = 1
  MaxWrRead = 2
  Ops <- MCOps
  RawRequests <- MCRawRequests
  Settings <- MCSettings
  AddressSpace = 8
SPECIFICATION FairSpec
INVARIANTS
  TypeOK
  Framed
  Understood
PROPERTIES
  Confined
  ImplementsTables
