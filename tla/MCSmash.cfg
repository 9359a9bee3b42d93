SPECIFICATION FairSpec
CONSTANTS
  Pids = {p1, p2, p3}
  MaxId = 3
  Signals = {"SIGKILL", "SIGSTOP", "SIGCONT"}
INVARIANTS
  OwnProcess
  NoLostChild
  ForegroundIsAwaited
  StateIsTrue
  QuitKillsAll
PROPERTIES
  InterruptEnds
