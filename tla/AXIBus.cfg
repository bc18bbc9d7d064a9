SPECIFICATION FairBusSpec
CONSTANTS
  Tags = {1, 2, 3}
  Zero = Zero
  One = One
  Data <- MCData
  CmdWords = 5
  RespWords = 3
  check_freq = 1
  MaxCommands = 3
  HwDepth = 2
  MaxStall = 1
  MayFlush = TRUE
INVARIANTS
  CommandsIntact
  ResponsesIntact
  InflightExact
PROPERTIES
  ImplementsFrontBus
CHECK_DEADLOCK FALSE
