SPECIFICATION FairSpec
CONSTANTS
  NoJob = NoJob
  NoPeer = NoPeer
  Job = {j1, j2}
  Worker = {w1}
  GpuJob <- NoOne
  GpuWorker <- NoOne
  TokenLess <- NoOne
  CmdCap = 1
  EventCap = 1
  AssignCap = 1
  QueueCap = 2
  ResultCap = 1
  MaxChurn = 3
  MaxFaults = 0
  FaultKinds <- NoFaults
PROPERTIES
  OnlineIsDelivered
CHECK_DEADLOCK FALSE
