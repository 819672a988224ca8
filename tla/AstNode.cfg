CONSTANTS
  Node = {n1, n2, n3, n4}
  None = None
  InitialCapacity = 1
  Growth = 2
SPECIFICATION FairSpec
INVARIANTS TypeOK BlockHoldsChildren LinksAgree FreesOnce NothingLost
PROPERTY FreeReturns
CHECK_DEADLOCK FALSE
