CONSTANTS
  aggregator = aggregator
  Services <- MCServices
  Processes <- MCProcesses
  NoProcess = NoProcess
  Aggregator = aggregator
  Items = {i1, i2}
  MaxItems = 2
  MaxDvo = 1
SPECIFICATION Spec
INVARIANT DvoMigratesFirst
