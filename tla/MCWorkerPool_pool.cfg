SPECIFICATION FairSpec
CONSTANTS
  w1 = w1
  w2 = w2
  Worker = {w1, w2}
  GpusOf <- MCGpusOf
  TokenHolder = {w1}
  BadToken = {w2}
  Uptime = {40}
  Request <- MCRequest
  EventCap = 1
  SchedCap = 1
  DbCap = 1
  MaxLinks = 2
  MaxChurn = 2
  MaxFaults = 1
  Absent = Absent
  NoEvent = NoEvent
INVARIANTS
  TypeOK
  PoolsAgree
  PickFits
PROPERTIES
  ComesOnline
CHECK_DEADLOCK FALSE
