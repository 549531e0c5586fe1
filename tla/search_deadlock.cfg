CONSTANTS
  t1 = t1
  c1 = c1
  Indexers = {t1}
  Committers = {c1}
  BatchSize = 3
  Nobody = Nobody
SPECIFICATION FairSpec
CHECK_DEADLOCK FALSE
PROPERTY EveryCallReturns
