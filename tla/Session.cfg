CONSTANTS
  MaxExits = 2
  MaxCtrlC = 2
  phone = phone
  tv = tv
  None = None
  Phones = {phone}
  TVs = {tv}
  MaxCalls = 4
  MaxFaults = 3
  Polls = {p1, p2}
  Limit = 2
  MaxIds = 4
  MaxErrors = 1
  a = a
  b = b
  Tiers <- OneOrTwo
  MaxRuns = 3
  Threshold = 20
  Values = {0, 1}
  Budgets = {1, 2, 3, 4, 6}
  MaxSamples = 2
  MaxSoakSamples = 7
  MaxEvents = 1
  MaxMeddling = 1
  NoRun = NoRun
SPECIFICATION Spec
INVARIANTS
  NoneLeftBehind
  OneSocket
  StillScreenStreams
  PageSkipsNothing
  
PROPERTIES
  FlakyStays
CHECK_DEADLOCK FALSE
