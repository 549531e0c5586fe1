CONSTANTS
  d1 = d1
  w1 = w1
  c1 = c1
  fh = fh
  Dids = {d1}
  Workers = {w1}
  Clients = {c1}
  Impatient = {}
  Crawlers = {}
  Firehoses = {fh}
  QueueCap = 1
  MaxRequests = 1
  MaxFailures = 0
  MaxCrashes = 0
  NoRepo = NoRepo
  NoDid = NoDid
SPECIFICATION Spec
INVARIANT SyncingIsHeld
