SPECIFICATION Spec
CONSTANTS
  r1 = r1
  r2 = r2
  r3 = r3
  Datasets = {1}
  Tables = {2, 3, 4}
  Routines = {5}
  Models = {6}
  Home <- MCHome
  Requests = {r1, r2, r3}
  Mixes <- AllMixes
  InitRow <- MCRow
  InitDuck <- MCDuck
  PageSize = 1
  MaxCrashes = 1
  NoRow = NoRow
  NoText = NoText
  NoName = NoName
INVARIANTS
  TypeOK
  DescribedIsThere
  NothingLeftBehind
  ProjectionsFollow
  MvHoldsItsRows
  ListMissesNone
PROPERTIES
  NoLostUpdate
CHECK_DEADLOCK FALSE
