SPECIFICATION Spec
CONSTANTS
  Calls = {c1, c2, c3}
  Providers = 2
  TTL = 2
  Wait = 1
  Market <- MCMarket
  Fiats = {0, 1}
  Scale = 10
  MaxTime = 5
INVARIANTS
  TypeOK
  PriceIsRecent
  FailsOnlyWhenAllFailed
  NeverUnderpaidByRounding
CHECK_DEADLOCK FALSE
