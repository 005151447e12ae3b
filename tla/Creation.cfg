SPECIFICATION Spec
CONSTANTS
  Requests = {r1, r2, r3}
  Params <- MCParams
  Prices = {1}
  IndexSpace = 3
  HardenedStart = 2
  MaxIssued = 3
  MaxCrashes = 1
CHECK_DEADLOCK FALSE
INVARIANTS
  TypeOK
  FreshAddress
  CreatedIsStored
  StoredAmountsArePositive
