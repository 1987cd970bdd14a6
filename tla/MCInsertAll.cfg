SPECIFICATION Spec
CONSTANTS
  Tables = {"base", "template"}
  Template = "template"
  Ids = {1, 2, 3}
  NoId = 0
  WindowMs = 1
  MaxPerTable = 2
  SweepLimit = 1
  MaxTime = 1
  Calls = {c1, c2, c3}
  Bodies <- SomeBodies
  NoOne = NoOne
  Script = Script
  MaxScripts = 1
INVARIANTS
  TypeOK
  WindowBounded
  AllOrNothing
  OncePerId
  TransactionsEnd
SYMMETRY CallSymmetry
CHECK_DEADLOCK FALSE
