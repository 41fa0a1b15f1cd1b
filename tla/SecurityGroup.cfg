SPECIFICATION FairSpec
CONSTANTS
  group_lock = group_lock
  subnet_locker = subnet_locker
  app = app
  custom_0 = custom_0
  custom_1 = custom_1
  mgmt = mgmt
  subnet = subnet
  Thread = {t1, t2}
  Lock = {group_lock, subnet_locker}
  Name = {app, custom_0, custom_1, mgmt, subnet}
  Custom = {custom_0, custom_1}
  Deletable = {app}
  Jobs <- MCJobs
  InitialRules <- MCInitialRules
  MaxPriority = 1116
  MaxFaults = 2
  NONE = NONE
INVARIANT TypeOK
INVARIANT NoPriorityClash
INVARIANT RulesInBand
INVARIANT BatchLanded
INVARIANT CustomRulesReplaced
PROPERTY NoRuleLost
PROPERTY EveryBatchEnds
CHECK_DEADLOCK FALSE
