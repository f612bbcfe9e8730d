CONSTANTS
  Procs = {p1, p2, p3}
  NoProc = NoProc
  Ports = {8000, 9090}
  Attempts = 2
SPECIFICATION FairSpec
INVARIANTS
  TypeOK
  CheckSoundOnFreePort
  OnlyUnansweredLeak
PROPERTIES
  StoppedMockIsSilent
  StepsComeToAnEnd
