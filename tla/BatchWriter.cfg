CONSTANTS
  sample = sample
  event = event
  error_event = error_event
  Items = {sample, event, error_event}
  Report = error_event
  QueueSize = 2
  BatchSize = 2
  MaxItems = 5
SPECIFICATION FairSpec
PROPERTIES
  ImplementsLog
  StoredInTheEnd
