SPECIFICATION FairSpec
CONSTANTS
  NoJob = NoJob
  NoPeer = NoPeer
  Job = {j1, j2}
  Worker = {w1}
  GpuJob = {j1}
  GpuWorker = {w1}
  TokenLess <- NoOne
  CmdCap = 1
  EventCap = 1
  AssignCap = 1
  QueueCap = 1
  ResultCap = 1
  MaxChurn = 3
  MaxFaults = 0
  FaultKinds <- NoFaults
INVARIANTS
  AssignedIsInFlight
  PendingIsKnown
PROPERTIES
  SchedulerReturns
  JobsEnd
CHECK_DEADLOCK FALSE
