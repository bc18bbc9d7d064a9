SPECIFICATION Spec
CONSTANTS
  Clients = {c1, c2}
  Pairs = {p1, p2, p3}
  Cores = {p1, p2}
  NIds = 3
  MaxCmds = 2
  MaxOutstanding = 1
  MayQuit = FALSE
  MayFlush = FALSE
  MaxBad = 1
  MayBeEarly = FALSE
  FrontEnds = {"verilator"}
SYMMETRY Symmetry
INVARIANTS
  SlotsNeverShared
  ResponseHasWaiter
  RoutedToIssuer
PROPERTIES
  CommandStable
  ImplementsService
