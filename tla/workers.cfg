SPECIFICATION FairSpec
CONSTANTS
  Symbols = {s1, s2}
  Bodies = {b1, b2}
  None = None
  Batches = {1, 2}
  MaxWrites = 4
  MaxFaults = 1
INVARIANT RefcountsAgree
 
PROPERTY QueuedJobsAreEmbedded
CHECK_DEADLOCK FALSE
