CONSTANTS
  u1 = u1
  u2 = u2
  x = x
  t1 = t1
  t2 = t2
  b1 = b1
  Uris = {u1, u2}
  Values = {x}
  NoValue = NoValue
  NoRecord = NoRecord
  NoUri = NoUri
  Times = {1}
  Callers = {t1, t2}
  Batchers = {b1}
  MaxCalls = 4
  MaxCommands = 1
  MaxCrashes = 1
SPECIFICATION Spec
CHECK_DEADLOCK FALSE
SYMMETRY MCSymmetry
INVARIANT RecordsIndexed
INVARIANT CountExact
INVARIANT FieldCountCovers
