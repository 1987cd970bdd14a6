SPECIFICATION WindowSpec
CONSTANTS
  Tables = {t1}
  Ids = {1, 2, 3}
  WindowMs = 1
  MaxPerTable = 3
  SweepLimit = 1
  MaxTime = 2
INVARIANTS
  OldestFirst
CHECK_DEADLOCK FALSE
