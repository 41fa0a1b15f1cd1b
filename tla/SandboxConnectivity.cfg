CONSTANTS
  A = A
  B = B
  old = old
  c1 = c1
  c2 = c2
  NONE = NONE
  Sandbox = {A, B, old}
  Past = {old}
  Cidr = {c1, c2}
  CidrsOf <- InTurn
  MaxFaults = 3
SPECIFICATION FairSpec
CHECK_DEADLOCK FALSE
INVARIANTS
  TypeOK
  PreparedComplete
  CleanupComplete
  CleanupNeverRefused
PROPERTIES
  StaleReclaimed
  EveryCommandEnds
