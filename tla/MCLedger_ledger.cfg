SPECIFICATION FairSpec
CONSTANTS
  User = {1, 2}
  MaxUuid = 2
  Job = {11, 12, 21}
  HirerOf <- MCHirerOf
  Grant = {2}
  Price = {2}
  Client = {c1, c2}
  NoClient = NoClient
  NoTx = NoTx
  NoJob = NoJob
  MaxGranted = 2
INVARIANTS TypeOK ReservedWithinBalance GainsAreLogged ReservedIsOpenJobs NoLockCycle
PROPERTIES ImplementsAtomicLedger TransactionsEnd
CHECK_DEADLOCK FALSE
