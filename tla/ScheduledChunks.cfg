\* One wake at a time over three keys: two share a chunk and one handler slot, the third is in the next chunk; handlers may hang.
SPECIFICATION FairSpec
CONSTANTS
  k1 = k1
  k2 = k2
  k3 = k3
  w1 = w1
  w2 = w2
  Keys = {k1, k2, k3}
  Wakes = {w1}
  SystemKeys = {}
  SchedAt <- Together
  ChunkOf <- TwoChunks
  NumChunks = 2
  HandlerSlots = 1
  TimeoutMs = 1
  LeaseMs = 2
  RetentionMs = 4
  PruneLimit = 1
  Redelivery = 0
  Lifetime = 3
  MaxFailures = 1
  MaxTime = 3
PROPERTIES WakeReturns
CHECK_DEADLOCK FALSE
