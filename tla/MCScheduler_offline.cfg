SPECIFICATION FairSpec
CONSTANTS
  NoJob = NoJob
  NoPeer = NoPeer
  Job = {j1}
  Worker = {w1}
  GpuJob <- NoOne
  GpuWorker <- NoOne
  TokenLess <- NoOne
  CmdCap = 1
  EventCap = 1
  AssignCap = 1
  QueueCap = 2
  ResultCap = 1
  MaxChurn = 2
  MaxFaults = 1
  FaultKinds = {"worker"}
PROPERTY OfflineReleasesJobs
CHECK_DEADLOCK FALSE
