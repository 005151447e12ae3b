SPECIFICATION Spec
CONSTANTS
  w1 = w1
  w2 = w2
  r1 = r1
  Changes = {w1}
  Watched = {w1}
  Unaddressed = {}
  Durable = TRUE
  MaxAttempts = 2
CHECK_DEADLOCK FALSE
INVARIANTS
  CloseDrains
