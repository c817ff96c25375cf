CONSTANTS
  r1 = r1
  r2 = r2
  p1 = p1
  w1 = w1
  w2 = w2
  c1 = c1
  c2 = c2
  d1 = d1
  NoJob = NoJob
  Devices = {d1}
  DeviceOf <- OnePhone
  RowId <- InsertedInOrder
  Runs = {r1}
  Preflights = {p1}
  Workers = {w1}
  Shells = {}
  Dispatchers = {c1, c2}
  MaxTasks = 2
  MaxFaults = 2
  Hazards = {}
SPECIFICATION FairDispatchSpec
INVARIANTS
  HandedOutOnce
PROPERTIES
  ImplementsDeviceClaims
  EveryRunGetsItsTurn
