CONSTANTS
  Partitions = {p0}
  Files = {f1}
  Table = {rowA, rowB}
  OldCompatibility = FALSE
  MaxScenarios = 2
  MaxSteps = 4
  MaxMessages = 2
SPECIFICATION FairSpec
INVARIANTS
  TypeOK
  NoFactoryOutlivesItsStep
  BucketOfThisScenario
  WrongVerdictNeedsTimeout
  LogsOfTheLastRun
PROPERTY RunEnds
CHECK_DEADLOCK FALSE
