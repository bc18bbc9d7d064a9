SPECIFICATION FairSpec
CONSTANTS
  Ids = {i1, i2}
  NBlocks = 2
  BeatsPerBlock = 1
  Lens = {1, 2}
  max_in_flight_writes = 2
  MaxWrites = 3
INVARIANTS
  DataIntact
  WReadyFollowsBursts
  InFlightExact
  OneResponsePerBurst
PROPERTIES
  WritesAcknowledged
