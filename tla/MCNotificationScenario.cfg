CONSTANTS
  Partitions = {p0}
  P0 = p0
  Clusters = {c1}
  Rules = {r1, r2}
  c1 = c1
  r1 = r1
  r2 = r2
  Reports <- ReportsDef
  Runs <- RunsDef
  EventTypes = {kafka, service_log}
  NotifiedAt = {1}
  Toggles = {t1, t2}
  Acks = {a1}
  MaxScenarios = 2
  MaxSteps = 4
  MaxRows = 2
  MaxEvents = 2
  Outputs <- OutputsDef
SYMMETRY Symmetry
SPECIFICATION Spec
INVARIANTS
  TypeOK
  NothingPending
  RowsOfThisScenario
  ChecksFindTheRun
  LatestRowIsTheRuns
PROPERTY
  CommittedAsTold
CHECK_DEADLOCK FALSE
