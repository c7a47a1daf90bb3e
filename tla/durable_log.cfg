SPECIFICATION Spec
CONSTANTS
  t1 = t1
  t2 = t2
  None = None
  Threads = {t1, t2}
  Asked = {"GraphDone", "Failed"}
  MaxLogId = 2
  FlushEvery = 1
  Retained = 1
  MaxStops = 2
SYMMETRY Symmetry
INVARIANT AckedSurvives
INVARIANT SavedIsCurrent
PROPERTY SavedMovesForward
PROPERTY AppendIsFresh
CHECK_DEADLOCK FALSE
