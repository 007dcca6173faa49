CONSTANTS
  Calls = {c1, c2, c3}
  Objects = {a}
  MaxWrites = 2
SPECIFICATION FairSpec
INVARIANTS
  TypeOK
  StableUnderGuard
  NoLostUpdate
  GuardsEndWithCalls
PROPERTY GuardIsReleased
CHECK_DEADLOCK FALSE
