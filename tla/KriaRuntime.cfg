SPECIFICATION KFairSpec
CONSTANTS
  Cores = {k1}
  MaxCmds = 2
  CmdBeats = 2
  RespWords = 2
  HwDepth = 1
  MayQuit = FALSE
  MaxBad = 0
  MayFail = FALSE
  HAS_COHERENCE = 2
  DataOps = {"ADD_TO_COHERENCE_MANAGER", "RELEASE_COHERENCE_BARRIER", "FREE", "ALLOC"}
  MaxDataOps = 3
INVARIANTS
  CoherenceIntact
PROPERTIES
  DataAnsweredUnlessDeadlocked
CHECK_DEADLOCK FALSE
