SPECIFICATION Spec
CONSTANTS
  tab = tab
  Targets = {s1}
  Defaults = {}
  TableOf <- MCTableOf
  Conns = {c1, c2}
  Uses <- MCUses
  Calls = {}
  LogLen = 2
  Batches = {1, 2}
  Unchecked = {}
  BadRows <- MCNoBadRows
  MaxCopies = 2
  OneWriter = FALSE
  NoStream = NoStream
  NoRow = NoRow
INVARIANTS
  CommittedExactlyOnce
CHECK_DEADLOCK FALSE
