CONSTANTS
  Uris = {1, 2, 3}
  Values = {1, 2}
  LowNumbers = {1}
  UriRank = 2
  Kinds = {"collection"}
  Limits = {1}
  MaxWrites = 0
  NoRecord = NoRecord
  NoCursor = NoCursor
SPECIFICATION Spec
CHECK_DEADLOCK FALSE
INVARIANT CollectionComplete
