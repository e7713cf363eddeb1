SPECIFICATION FairSpec
CONSTANTS
  q1 = q1
  q2 = q2
  b1 = b1
  b2 = b2
  b3 = b3
  Query = {q1, q2}
  Bid = {b1, b2, b3}
  Call = {c1, c2}
  Results <- MCResults
  Interval = 2
  Timeout = 1
  MaxRetries = 2
  BaseDelay = 1
  CacheTTL = 1
  MaxCache = 1
  MaxRecent = 2
  Remember = TRUE
  Late = 1
  Idle = Idle
INVARIANTS
  TypeOK
  BacklogIsWaiting
PROPERTIES
  FetchesSpaced
  SearchesSettle
  ImplementsFreshCache
