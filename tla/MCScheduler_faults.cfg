SPECIFICATION Spec
CONSTANTS
  NoJob = NoJob
  NoPeer = NoPeer
  Job = {j1}
  Worker = {w1, w2}
  GpuJob <- NoOne
  GpuWorker <- NoOne
  TokenLess <- NoOne
  CmdCap = 1
  EventCap = 1
  AssignCap = 1
  QueueCap = 2
  ResultCap = 1
  MaxChurn = 4
  MaxFaults = 2
  FaultKinds <- AllFaults
INVARIANTS
  TypeOK
  PlacesAgree
  RunAtMostOnce
  OnlyOwnerHolds
PROPERTIES
  ImplementsLifecycle
CHECK_DEADLOCK FALSE
