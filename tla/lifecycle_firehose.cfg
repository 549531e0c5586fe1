CONSTANTS
  d1 = d1
  d2 = d2
  w1 = w1
  fh = fh
  Dids = {d1, d2}
  Workers = {w1}
  Clients = {}
  Impatient = {}
  Crawlers = {}
  Firehoses = {fh}
  QueueCap = 1
  MaxRequests = 0
  MaxFailures = 1
  MaxCrashes = 1
  NoRepo = NoRepo
  NoDid = NoDid
SPECIFICATION Spec
SYMMETRY MCSymmetry
INVARIANT TypeOK
INVARIANT NoLostRepo
INVARIANT StatesCoherent
