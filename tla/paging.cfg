CONSTANTS
  Uris = {1, 2, 3}
  Values = {1, 2}
  LowNumbers = {1}
  UriRank = 2
  Kinds = {"collection", "all", "did", "indexedAt", "field"}
  Limits = {1, 2}
  MaxWrites = 2
  NoRecord = NoRecord
  NoCursor = NoCursor
SPECIFICATION FairSpec
CHECK_DEADLOCK FALSE
PROPERTY KeepsPromise
PROPERTY PagingEnds
 
