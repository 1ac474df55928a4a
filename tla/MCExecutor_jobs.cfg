SPECIFICATION FairSpec
CONSTANTS
  Job = {1, 2, 3}
  NoJob = NoJob
  p = p
  q = q
  Prefix <- MCPrefix
  MaxFaults = 2
INVARIANTS
  TypeOK
  Tidy
  SuccessIsExitZero
PROPERTIES
  EveryJobEnds
CHECK_DEADLOCK FALSE
