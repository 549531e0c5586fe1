CONSTANTS
  u1 = u1
  Uris = {u1}
  NoUri = NoUri
  MaxEvents = 2
  BatchSize = 2
  SaveEvery = 2
  MaxErrors = 0
  MaxDrops = 0
  MaxStops = 0
  MaxCrashes = 0
SPECIFICATION Spec
CHECK_DEADLOCK FALSE
INVARIANT DeletedRecordsGone
