SPECIFICATION Spec
CONSTANTS
  VM = {v1, v2}
  IP = {a1, a2, a3}
  MaxNics = 2
  Requests <- MCValid
  Allocation = "Cloudshell Allocation"
  MaxFaults = 2
  ConnectionAttempts = 2
  RetryableAttempts = 2
  UNLIMITED = UNLIMITED
  NONE = NONE
  USER = USER
  Timeout = 1
  DYNAMIC = DYNAMIC
INVARIANT TypeOK
INVARIANT AddressesExclusive
INVARIANT DeployedComplete
INVARIANT RolledBackClean
INVARIANT DeletedClean
PROPERTY DependencyOrder
PROPERTY PoolKept
SYMMETRY Symmetry
CHECK_DEADLOCK FALSE
