SPECIFICATION FairSpec
CONSTANTS
  Ids = {i1, i2}
  NBlocks = 2
  BeatsPerBlock = 2
  Lens = {1, 3, 4}
  max_q_length = 2
  MaxReads = 3
INVARIANTS
  CallbackHasOwner
  QueueBounded
  BeatsInOrder
PROPERTIES
  ReadsComplete
