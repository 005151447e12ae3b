SPECIFICATION Spec
CONSTANTS
  c1 = c1
  c2 = c2
  Creators = {c1, c2}
  Asked <- MCAsked
  DefaultLimit = 1
  MaxLimit = 2
  SqliteLimit = 2
  Base = 2
  Width = 2
  Place <- MCPlace
  PerSecond = 4
  MaxTime = 4
  MaxRows = 3
  MaxRestarts = 1
SYMMETRY Exchangeable
CHECK_DEADLOCK FALSE
INVARIANTS
  NewestFirst
