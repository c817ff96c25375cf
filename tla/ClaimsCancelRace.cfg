CONSTANTS
  r1 = r1
  r2 = r2
  p1 = p1
  w1 = w1
  w2 = w2
  s1 = s1
  d1 = d1
  NoJob = NoJob
  Runs = {r1, r2}
  Preflights = {p1}
  Devices = {d1}
  DeviceOf <- OnePhone
  Workers = {w1, w2}
  Shells = {s1}
  MaxTasks = 1
  Hazards = {"cancelRace"}
SPECIFICATION Spec
INVARIANT
  DeviceExclusive
