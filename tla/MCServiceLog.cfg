CONSTANTS
  Threads = {t1, t2}
  NoThread = NoThread
  Clusters = {c1, c2}
  None = None
  Ids = {l1, l2, l3}
SPECIFICATION FairSpec
INVARIANTS
  TypeOK
  PopHitsItsLog
  CountIsExact
PROPERTIES
  ImplementsLogStore
  ScenarioEnds
