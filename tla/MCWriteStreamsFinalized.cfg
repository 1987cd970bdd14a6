SPECIFICATION Spec
CONSTANTS
  tab = tab
  Targets = {s1}
  Defaults = {}
  TableOf <- MCTableOf
  Conns = {c1}
  Uses <- MCUses
  Calls = {k1}
  LogLen = 2
  Batches = {1}
  Unchecked = {}
  BadRows <- MCNoBadRows
  MaxCopies = 2
  OneWriter = TRUE
  NoStream = NoStream
  NoRow = NoRow
PROPERTIES
  FinalizedIsClosed
CHECK_DEADLOCK FALSE
