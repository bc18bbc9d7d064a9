SPECIFICATION FairSpec
CONSTANTS
  Sels = {12, 13, 14}
  Latency = 7
  MaxBytes = 3
INVARIANTS
  BytesIntact
PROPERTIES
  BytesDelivered
