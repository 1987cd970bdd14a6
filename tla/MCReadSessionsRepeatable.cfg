SPECIFICATION Spec
CONSTANTS
  MaxRows = 3
  Requests = {2}
  BatchSize = 2
INVARIANTS
  Repeatable
CHECK_DEADLOCK FALSE
