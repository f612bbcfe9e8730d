CONSTANTS
  report = report
  ruleHit = ruleHit
  r1 = r1
  r2 = r2
  Tables = {report, ruleHit}
  Rows = {r1, r2}
  Scripts <- MCScripts
SPECIFICATION Spec
PROPERTY RunStepsExpectExitZero
