\* TCP and serial lines, with every error recovery; messages stay under way for
\* as many calls as there are transaction identifiers.
CONSTANTS
  Tids = 3
  Requests <- ReadsAndWrites
  MaxLag = 3
SPECIFICATION FairSpec
INVARIANTS
  IInv
  OwnUnlessWrapped
  OwnUnderLink
PROPERTIES
  Recovers
  EveryCallReturns
  ImplementsCalls
