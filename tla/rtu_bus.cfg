\* A slave next to another, all recoveries and timeouts.
CONSTANTS
  Slave = 1
  Others <- OneOther
  MaxUnread = 3
SPECIFICATION FairSpec
INVARIANTS
  IInv
  NeverMisses
  HandlesRequestsOnly
PROPERTIES
  HearsAgain
