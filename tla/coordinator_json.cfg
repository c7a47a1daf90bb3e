SPECIFICATION Spec
CONSTANTS
  t1 = t1
  t2 = t2
  f1 = f1
  f2 = f2
  Recon = Recon
  None = None
  Threads = {t1, t2}
  Files = {f1}
  FilesOf <- AnyFile
  KindsOf <- IndexAndPromote
  MaxLogId = 2
  MaxFaults = 2
  SqlitePrimary = FALSE
  Periodic = TRUE
INVARIANT AckedIsDurable
INVARIANT EmbeddedOnce
PROPERTY ReadyAfterReplay
PROPERTY IndexKeepsUp
PROPERTY ImplementsLifecycle
SYMMETRY SameThreads
CONSTRAINT SecondFaultInReplay
CHECK_DEADLOCK FALSE
