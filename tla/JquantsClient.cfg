CONSTANTS
  Call = {"c1", "c2"}
  Key = {"k1", "k2"}
  Wishes <- MCWishes
  BarSets <- MCBarSets
  EventDays = {2, 3}
  Window = 1
  TokenTtl = 1
  CacheTtl = 1
  MaxRetries = 1
  MaxRevocations = 1
  Null = Null
SPECIFICATION Spec
INVARIANTS
  KeysSeparate
  PricesAreLatest
PROPERTIES
  RefusalsEnd
