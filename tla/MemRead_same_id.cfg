SPECIFICATION Spec
CONSTANTS
  Ids = {i1}
  NBlocks = 2
  BeatsPerBlock = 1
  Lens = {1}
  max_q_length = 2
  MaxReads = 2
INVARIANTS
  SameIdSerialized
