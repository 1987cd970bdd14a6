SPECIFICATION Spec
CONSTANTS
  MaxRows = 4
  Requests = {0, 2, 3, 9}
  BatchSize = 2
INVARIANTS
  SessionTypeOK
  NonOverlapping
  Complete
  NoEmptySlice
  WithinSlice
  RepeatableWhileIntact
CHECK_DEADLOCK FALSE
