SPECIFICATION Spec
CONSTANTS
  f1 = f1
  f2 = f2
  n1 = n1
  n2 = n2
  a1 = a1
  a2 = a2
  b1 = b1
  s1 = s1
  Stub = "stub"
  None = None
  Files = {f1, f2}
  Names = {n1, n2}
  Bodies = {a1, a2}
  Family <- Families
  MaxEdits = 3
  MaxMerges = 1
INVARIANT OneLiveRow
INVARIANT LiveIsNotDeleted
INVARIANT SymbolsAreLive
CHECK_DEADLOCK FALSE
