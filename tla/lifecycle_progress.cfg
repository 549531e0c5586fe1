CONSTANTS
  d1 = d1
  w1 = w1
  c1 = c1
  Dids = {d1}
  Workers = {w1}
  Clients = {c1}
  Impatient = {c1}
  Crawlers = {}
  Firehoses = {}
  QueueCap = 1
  MaxRequests = 2
  MaxFailures = 1
  MaxCrashes = 1
  NoRepo = NoRepo
  NoDid = NoDid
SPECIFICATION FairSpec
PROPERTY EventuallySynced
PROPERTY ChannelDrains
INVARIANT NoLostRepo
