\* Nested and successive block_on invocations on one thread, stray wakers.
SPECIFICATION FairSpec
CONSTANTS
  Calls = {c1, c2}
  Wakers = {w1, w2}
  MaxAwaits = 2
  None = None
INVARIANTS
  TypeOK
  NoLostWakeup
  OuterWakeIsKept
PROPERTY
  EveryCallReturns
\* The thread has nothing left to do once every call has returned.
CHECK_DEADLOCK FALSE
