SPECIFICATION FairSpec
CONSTANTS
  Clients = {c1}
  Pairs = {p1, p2}
  Cores = {p1}
  NIds = 3
  MaxCmds = 3
  MaxOutstanding = 2
  MayQuit = TRUE
  MayFlush = TRUE
  MaxBad = 1
  MayBeEarly = TRUE
  FrontEnds = {"verilator", "vcs", "icarus"}
INVARIANTS
  FreeListInBounds
PROPERTIES
  EveryCommandAnswered
  QuitStopsOrHangs
CHECK_DEADLOCK FALSE
