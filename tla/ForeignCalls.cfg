CONSTANTS
  t1 = t1
  t2 = t2
  Threads <- MCThreads
  GuestRes = {g1}
  HostRes = {h1}
  Wrappers = {w1, w2}
  Nobody = Nobody
  Nothing = Nothing
SPECIFICATION FairSpec
INVARIANTS
  TypeOK
  SingleOwner
  NoStaleHandle
  HostHandlesHaveEntries
  LentHandlesAreKept
  NoSilentLeak
  StoreExclusion
PROPERTIES
  OwnershipSpec
  DroppedHandleIsDrained
  StoreIsReleased
\* The system may stop for good: the caller and every payload dropped.
CHECK_DEADLOCK FALSE
