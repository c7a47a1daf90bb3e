SPECIFICATION Spec
CONSTANTS
  f = f
  g = g
  f0 = f0
  f1 = f1
  f2 = f2
  g0 = g0
  m1 = m1
  m2 = m2
  None = None
  Recon = Recon
  Merges = {m1, m2}
  Identities = {f, g}
  Revisions = {f0, f1, f2, g0}
  BodyHash <- MCBodyHash
  RenameSource <- MCRenameSource
  Theirs <- MCTheirs
  Reindexed <- MCReindexed
  StrategiesOf <- MCStrategiesOf
  Starts <- MCRace
INVARIANT BindingsFromEitherSide
INVARIANT MergesExclude
CHECK_DEADLOCK FALSE
