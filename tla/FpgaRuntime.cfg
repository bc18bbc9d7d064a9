SPECIFICATION FairSpec
CONSTANTS
  Cores = {k1, k2}
  MaxCmds = 3
  CmdBeats = 5
  RespWords = 3
  HwDepth = 2
  MayQuit = TRUE
  MaxBad = 1
  MayFail = TRUE
INVARIANTS
  ResponseHasWaiter
  SemaphoreBalanced
PROPERTIES
  DrainedUnlessDeadlocked
  QuitEndsMain
  ImplementsService
CHECK_DEADLOCK FALSE
