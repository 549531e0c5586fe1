CONSTANTS
  u1 = u1
  u2 = u2
  w1 = w1
  w2 = w2
  c1 = c1
  Uris = {u1, u2}
  Handle = handle
  Workers = {w1}
  Callers = {c1}
  MaxEvents = 3
  MaxRequests = 2
  MaxFailures = 1
  MaxRestarts = 2
SPECIFICATION Spec
CHECK_DEADLOCK FALSE
SYMMETRY MCSymmetry
INVARIANTS
  KeepsUp
  BufferIsOwed
