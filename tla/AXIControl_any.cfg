SPECIFICATION Spec
CONSTANTS
  Tags = {t1}
  Data = {Zero, One}
  Zero = Zero
  CmdWords = 2
  RespWords = 2
  check_freq = 0
  MaxCommands = 2
INVARIANTS
  TypeOK
  BusExclusive
  PollsOnlyWhenExpected
  BuffersInBounds
PROPERTIES
  OneDriver
CHECK_DEADLOCK FALSE
