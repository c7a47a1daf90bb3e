SPECIFICATION FairSpec
CONSTANTS
  t1 = t1
  t2 = t2
  f1 = f1
  f2 = f2
  Recon = Recon
  None = None
  Threads = {t1}
  Files = {f1}
  FilesOf <- AnyFile
  KindsOf <- AnyKind
  MaxLogId = 2
  MaxFaults = 1
  SqlitePrimary = TRUE
  Periodic = TRUE
INVARIANT TypeOK
INVARIANT AckedIsDurable
PROPERTY EveryMutationSettles
PROPERTY LockIsReleased
PROPERTY DaemonBecomesReady
CHECK_DEADLOCK FALSE
