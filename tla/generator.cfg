\* Two requests, batches of three, flushes that fail or repeat.
CONSTANTS
  Total = 2
  Keys = {0, 1}
  BatchSize = 3
  MaxAttempts = 2
SPECIFICATION FairSpec
CHECK_DEADLOCK FALSE
INVARIANTS TypeOK BufferBounded CloseDelivers LaneOrder ManifestTrue
PROPERTIES RunEnds
