CONSTANTS
  t1 = t1
  t2 = t2
  Threads <- MCThreads
  GuestRes = {g1}
  HostRes = {h1}
  Wrappers = {w1, w2}
  Nobody = Nobody
  Nothing = Nothing
SPECIFICATION Spec
PROPERTY DrainReclaimsAll
CHECK_DEADLOCK FALSE
