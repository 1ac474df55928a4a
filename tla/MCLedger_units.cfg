SPECIFICATION Spec
CONSTANTS
  User = {1, 2}
  MaxUuid = 2
  Job = {11, 12, 21}
  HirerOf <- MCHirerOf
  Grant = {2}
  Price = {2}
  Client = {c1, c2}
  NoClient = NoClient
  NoTx = NoTx
  NoJob = NoJob
  MaxGranted = 2
INVARIANT UnitsComeFromAllocation
CHECK_DEADLOCK FALSE
