CONSTANTS
  Procs = {p1, p2, p3}
  NoProc = NoProc
SPECIFICATION FairSpec
INVARIANTS
  TypeOK
  OneConsumerPerService
  NothingOutstandingBetweenScenarios
  HookErrorLeaksNothing
PROPERTIES
  ImplementsConsumerSlots
  TeardownEnds
