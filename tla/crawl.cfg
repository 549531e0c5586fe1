CONSTANTS
  d1 = d1
  d2 = d2
  pending = pending
  synced = synced
  crawler = crawler
  h1 = h1
  Dids = {d1, d2}
  Statuses = {pending, synced}
  Writers = {crawler, h1}
  MaxCrashes = 1
  NoStatus = NoStatus
  NoDid = NoDid
  Order <- MCOrder
  Pending = pending
  Me = crawler
  PageSize = 1
  MaxCalls = 2
SPECIFICATION FairSpec
INVARIANT IndexComplete
INVARIANT CursorCovers
PROPERTY EventuallyDiscovered
