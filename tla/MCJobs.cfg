SPECIFICATION Spec
CONSTANTS
  r1 = r1
  r2 = r2
  r3 = r3
  j1 = j1
  j2 = j2
  src = src
  dst = dst
  Requests = {r1, r2, r3}
  Mixes <- AllMixes
  Tables = {src, dst}
  JobIds = {j1, j2}
  InitTables = {src}
  Seed = Seed
  PageSize = 1
  MaxCrashes = 1
  NoJob = NoJob
  NoEntry = NoEntry
INVARIANTS
  TypeOK
  PagesAreTheResult
  RowsOfOneExecution
  CacheFresh
  RunningMeansRunning
  ListingMissesNone
PROPERTIES
  JobsEnd
  PollingEnds
CHECK_DEADLOCK FALSE
