CONSTANTS
  usb1 = usb1
  wifi1 = wifi1
  usb2 = usb2
  phone1 = phone1
  phone2 = phone2
  r1 = r1
  r2 = r2
  Serials = {usb1, wifi1, usb2}
  Usb = {usb1, usb2}
  PhoneOf <- MCPhoneOf
  OwnName <- MCOwnName
  Typed = {""}
  Requests = {r1, r2}
  NoValue = NoValue
  MaxChanges = 3
  MaxReadFaults = 1
  None = None
  ShortLabelLength = 2
  ScenarioNames <- MCScenarioNames
  Script <- MCScript
  TargetOf <- MCTargetOf
  Tree <- MCTree
  Package = app
  Launcher = "launcher"
  LockScreen = "lock"
  Elsewhere = "elsewhere"
  MaxUnseen = 1
  ResolveAttempts = 3
  ResolveRetry = 2
  ResolveBudget = 14
  StateTimeout = 8
  StatePoll = 1
  PlaybackTimeout = 16
  PlaybackPoll = 1
  MaxFocusSteps = 5
  Durations = {5, 6, 12, 24}
  Columns = 4
  Rows = 3
SYMMETRY RequestSymmetry
SPECIFICATION Spec
CONSTRAINT FewFailures
INVARIANTS
  ListingExact
  NicknameKept
  FindingsAreReal
  DecayIsReported
  EveryTargetAccounted
  LookupKeepsBudget
  WalkArrives
CHECK_DEADLOCK FALSE
