CONSTANTS
  u1 = u1
  u2 = u2
  Uris = {u1, u2}
  NoUri = NoUri
  MaxEvents = 3
  BatchSize = 2
  SaveEvery = 2
  MaxErrors = 1
  MaxDrops = 1
  MaxStops = 1
  MaxCrashes = 1
SPECIFICATION FairSpec
CHECK_DEADLOCK FALSE
INVARIANT LossesAccounted
PROPERTY EventuallyStored
