CONSTANTS
  w1 = w1
  w2 = w2
  Nobody = Nobody
  Workers = {w1, w2}
  Timeout = 2
  JoinWait = 1
  MaxFaults = 2
SPECIFICATION SupSpec
INVARIANTS
  RowsClosed
  VerdictStands
PROPERTIES
  SparesTheBeating
  ReturnsInTheEnd
CHECK_DEADLOCK FALSE
