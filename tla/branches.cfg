SPECIFICATION Spec
SYMMETRY Alike
CONSTANTS
  mcp = mcp
  git = git
  main = main
  f = f
  g = g
  Main = main
  Names = {main, f, g}
  i1 = i1
  i2 = i2
  f1 = f1
  f2 = f2
  Idents = {i1}
  Files = {f1, f2}
  Home <- MCHome1
  Threads = {mcp}
  Git = git
  None = None
  AncestryDepth = 3
  MaxTime = 1
  MaxSeq = 2
  MaxRequests <- MCRequests
  MaxIngests = 1
INVARIANT DeletedStaysDeleted
INVARIANT ForkKeepsItsView
PROPERTY OnlyAncestorsChangeAView
CHECK_DEADLOCK FALSE
