CONSTANTS
  cpu = cpu
  memory = memory
  Collectors = {cpu, memory}
  NumSteps = 2
  At <- StepTimes
  Interval <- Intervals
  Duration = 2
  CollectorTimeout = 1
  ActionTimeout = 1
  CheckInterval = 1
  Horizon = 2
SPECIFICATION FairSpec
INVARIANTS
  OneVerdict
  QuietAtEnd
PROPERTIES
  RunEnds
