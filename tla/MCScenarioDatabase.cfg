CONSTANTS
  report = report
  ruleHit = ruleHit
  r1 = r1
  r2 = r2
  Tables = {report, ruleHit}
  Rows = {r1, r2}
  Scripts <- MCScripts
SPECIFICATION FairSpec
INVARIANTS
  TypeOK
  HangNeedsFailedStep
  ScenariosStartEmpty
  FailedInsertLeavesNothing
PROPERTY ScenarioEnds
