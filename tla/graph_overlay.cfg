SPECIFICATION Spec
CONSTANTS
  r1 = r1
  r2 = r2
  r3 = r3
  f1 = f1
  f2 = f2
  c1 = c1
  CallSites = {c1}
  LinkSites = {l1}
  Rids = {r1, r2, r3}
  Files = {f1, f2}
  Idents = {i1, i2}
  Bodies = {b1}
  Targets = {i1}
  None = None
  FileOf <- FileMap
  CallsOf <- CallMap
  Needles <- NeedleSet
  MaxWrites = 3
  MaxFaults = 1
INVARIANT TypeOK
INVARIANT IndexesAgree
INVARIANT OwnFileIsSeen
INVARIANT ListingsMissNothing
INVARIANT ListingsAreCurrent
PROPERTY ImplementsRamUnlessLossy
CHECK_DEADLOCK FALSE
