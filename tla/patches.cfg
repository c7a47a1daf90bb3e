SPECIFICATION FairSpec
CONSTANTS
  s1 = s1
  s2 = s2
  f1 = f1
  None = None
  Sync = Sync
  Sessions = {s1, s2}
  Files = {f1}
  MaxId = 2
  Bounds <- MCBounds
INVARIANT TrackerAgrees
INVARIANT GraphFollowsFile
PROPERTY PatchesEnd
CHECK_DEADLOCK FALSE
