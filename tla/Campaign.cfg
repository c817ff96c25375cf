CONSTANTS
  N = 2
  MaxHazards = 1
  t1 = t1
  w1 = w1
  u1 = u1
  c1 = c1
  s1 = s1
  Plain = Plain
  NoRun = NoRun
  Terminals = {t1}
  Workers = {w1}
  Curators = {u1}
  Clerks = {c1}
  Scenarios = {s1, Plain}
  ScenarioOf <- OneScenario
SPECIFICATION Spec
CONSTRAINT FewHazards
INVARIANTS
  CancelStops
  DeletedIsGone
  BaselineReadable
CHECK_DEADLOCK FALSE
