SPECIFICATION FairSpec
CONSTANTS
  w1 = w1
  w2 = w2
  r1 = r1
  Changes = {w1, w2, r1}
  Watched = {w1, w2}
  Unaddressed = {w2}
  Durable = TRUE
  MaxAttempts = 2
CHECK_DEADLOCK FALSE
INVARIANTS
  TypeOK
  AcceptedIsFinal
  CloseWaits
PROPERTIES
  ShutdownEnds
  EveryChangeSettles
  ImplementsChannel
