SPECIFICATION FairSpec
CONSTANTS
  NoNode = NoNode
  MaxConns = 2
  MaxFaults = 2
  HasToken = TRUE
  MasterAddr = TRUE
INVARIANTS
  TypeOK
PROPERTIES
  Reconnects
CHECK_DEADLOCK FALSE
