SPECIFICATION Spec
CONSTANTS
  VM = {v1}
  IP = {a1, a2, a3}
  MaxNics = 2
  Requests <- MCTwoNics
  Allocation = "Azure Allocation"
  MaxFaults = 0
  ConnectionAttempts = 2
  RetryableAttempts = 2
  UNLIMITED = UNLIMITED
  NONE = NONE
  USER = USER
  Timeout = 1
  DYNAMIC = DYNAMIC
INVARIANT InboundReachesEveryNic
CHECK_DEADLOCK FALSE
