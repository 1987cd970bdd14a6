SPECIFICATION Spec
CONSTANTS
  tab = tab
  Targets = {s1, s2, d}
  Defaults = {d}
  TableOf <- MCTableOf
  Conns = {c1}
  Uses <- MCUses
  Calls = {k1, k2}
  LogLen = 2
  Batches = {2}
  Unchecked = {}
  BadRows <- MCBadRows
  MaxCopies = 1
  OneWriter = FALSE
  NoStream = NoStream
  NoRow = NoRow
SYMMETRY MCSymmetry
INVARIANTS
  PendingHidden
  PendingBufferIsLog
  FlushedWithinOffset
PROPERTIES
  Lifecycle
CHECK_DEADLOCK FALSE
