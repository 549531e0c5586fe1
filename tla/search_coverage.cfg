CONSTANTS
  w1 = w1
  c1 = c1
  c2 = c2
  u1 = u1
  u2 = u2
  x = x
  y = y
  f1 = f1
  f2 = f2
  s = s
  Indexers = {w1, c1, c2}
  Committers = {c1, c2, s}
  Writers = {w1}
  Clients = {c1, c2}
  BatchSize = 2
  Nobody = Nobody
  Uris = {u1, u2}
  Texts = {x, y}
  Fields = {f1}
  Environments <- MCEnvironments
  Unset = Unset
  NoText = NoText
  MaxWrites = 2
  MaxUpdates = 2
  MaxCrashes = 1
SPECIFICATION CoverSpec
CHECK_DEADLOCK FALSE
SYMMETRY MCSymmetry
INVARIANTS
  SearchCovers
  UncommittedBounded
