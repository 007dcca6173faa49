CONSTANTS
  s1 = s1
  s2 = s2
  A = A
  B = B
  Stores <- MCStores
  Types <- MCTypes
  MaxRep = 3
  ReentrantOps = {"assoc", "clone", "consume"}
  NoType = NoType
  Nobody = Nobody
SPECIFICATION FairSpec
INVARIANTS
  TypeOK
  HandlesAreLive
  SingleHolder
  ReceiverStays
  NoSilentOrphan
PROPERTIES
  BorrowExcludesWriters
  RepsAreNotReused
  RejectedReceiverStays
  TableIsReleased
CHECK_DEADLOCK FALSE
