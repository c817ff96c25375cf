CONSTANTS
  r1 = r1
  r2 = r2
  p1 = p1
  w1 = w1
  w2 = w2
  s1 = s1
  d1 = d1
  NoJob = NoJob
  Devices = {d1}
  DeviceOf <- OnePhone
  MaxTasks = 1
  Runs = {r1}
  Preflights = {p1}
  Workers = {w1}
  Shells = {s1}
  Hazards = {"silence", "slowPreflight", "resume", "cancelRace",
             "deleteRunning", "failDrain", "cliPreflight"}
SPECIFICATION FairSpec
INVARIANT
  RunningIsReclaimable
PROPERTIES
  DeadRowsReleased
  CancelTakesEffect
