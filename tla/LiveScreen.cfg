CONSTANTS
  c1 = c1
  c2 = c2
  c3 = c3
  c4 = c4
  d1 = d1
  r1 = r1
  NoConnection = NoConnection
  NoRun = NoRun
  Connections = {c1, c2, c3}
  Devices = {d1}
  Runs = {r1}
  SerialOf <- OnePhone
  RunOf <- OneRun
  Screenshots = {c3}
SPECIFICATION FairSpec
INVARIANTS
  OneStreamIfNotEager
  NoOrphan
  RecordingKept
PROPERTY
  LastConnectShows
CHECK_DEADLOCK FALSE
