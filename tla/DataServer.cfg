SPECIFICATION FairSpec
CONSTANTS
  Clients = {c1, c2}
  Memory = {0, 1, 2, 3, 4, 5}
  Sizes = {1, 4}
  MaxBurst = 3
  MaxOffset = 1
  MaxOps = 4
  Builds = {"dma", "sim", "F1", "F2"}
INVARIANTS
  CopyExact
  WakeUpMatched
  SegmentsMapped
PROPERTIES
  BurstStable
  RequestsAnswered
CHECK_DEADLOCK FALSE
