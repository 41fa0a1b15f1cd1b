SPECIFICATION FairSpec
CONSTANTS
  NSG_sandbox = NSG_sandbox
  NSG_vm = NSG_vm
  group = group
  available_private_ip = available_private_ip
  Thread = {t1, t2}
  Cleaner = {c1}
  Key <- MCKey
  Used <- MCUsedAndRemoved
  Removed <- MCRemoved
  MaxLocks = 3
  NONE = NONE
INVARIANT TypeOK
INVARIANT MutualExclusion
INVARIANT NoKeyError
INVARIANT LocksIndependent
PROPERTY RequestsServed
PROPERTY LocksOnce
