SPECIFICATION Spec
CONSTANTS
  tab = tab
  Targets = {s1}
  Defaults = {}
  TableOf <- MCTableOf
  Conns = {c1, c2}
  Uses <- MCUses
  Calls = {k1, k2}
  LogLen = 3
  Batches = {1, 2}
  Unchecked = {}
  BadRows <- MCNoBadRows
  MaxCopies = 2
  OneWriter = TRUE
  NoStream = NoStream
  NoRow = NoRow
INVARIANTS
  TypeOK
  BufferIsLog
  VisibleOnce
  AckedKept
PROPERTIES
  ImplementsStreamLog
  Answered
CHECK_DEADLOCK FALSE
