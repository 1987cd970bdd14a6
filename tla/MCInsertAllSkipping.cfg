SPECIFICATION Spec
CONSTANTS
  Tables = {"base", "template"}
  Template = "template"
  Ids = {1, 2, 3}
  NoId = 0
  WindowMs = 1
  MaxPerTable = 2
  SweepLimit = 1
  MaxTime = 1
  Calls = {c1, c2}
  Bodies <- SkippingBodies
  NoOne = NoOne
  Script = Script
  MaxScripts = 0
INVARIANTS
  SkippingKeepsRows
CHECK_DEADLOCK FALSE
