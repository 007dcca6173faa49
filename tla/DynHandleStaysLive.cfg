CONSTANTS
  s1 = s1
  s2 = s2
  A = A
  B = B
  Stores <- MCStores
  Types <- MCTypes
  MaxRep = 2
  ReentrantOps = {"assoc", "clone", "consume"}
  NoType = NoType
  Nobody = Nobody
SPECIFICATION Spec
PROPERTY DynHandleStaysLive
CHECK_DEADLOCK FALSE
