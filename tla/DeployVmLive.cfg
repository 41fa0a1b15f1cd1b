SPECIFICATION FairSpec
CONSTANTS
  VM = {v1}
  IP = {a1, a2, a3}
  MaxNics = 2
  Requests <- MCRequests
  Allocation = "Cloudshell Allocation"
  MaxFaults = UNLIMITED
  ConnectionAttempts = 3
  RetryableAttempts = 2
  UNLIMITED = UNLIMITED
  NONE = NONE
  USER = USER
  Timeout = 2
  DYNAMIC = DYNAMIC
PROPERTY CancelHonoured
PROPERTY EveryDeployEnds
CHECK_DEADLOCK FALSE
