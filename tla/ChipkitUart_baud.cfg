SPECIFICATION FairSpec
CONSTANTS
  Sels = {14}
  Latency = 0
  MaxBytes = 1
PROPERTIES
  BitsAtBaudRate
