SPECIFICATION FairSpec
CONSTANTS
  MaxRuns = 2
  Getter = {deploy, accessKey}
  MaxFaults = 1
  NONE = NONE
INVARIANT TypeOK
INVARIANT ReportedKeyOpens
INVARIANT NoCircularWait
PROPERTY OneKeyPair
PROPERTY EveryCommandEnds
CHECK_DEADLOCK FALSE
