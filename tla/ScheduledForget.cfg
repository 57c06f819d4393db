\* One wake after another: two keys, the second due when the first is forgotten.
SPECIFICATION Spec
CONSTANTS
  k1 = k1
  k2 = k2
  k3 = k3
  w1 = w1
  w2 = w2
  Keys = {k1, k2}
  Wakes = {w1}
  SystemKeys = {k2}
  SchedAt <- Later
  ChunkOf <- OneChunk
  NumChunks = 1
  HandlerSlots = 1
  TimeoutMs = 1
  LeaseMs = 2
  RetentionMs = 4
  PruneLimit = 1
  Redelivery = 2
  Lifetime = 2
  MaxFailures = 1
  MaxTime = 8
PROPERTIES ForgottenOnlyWhenStale
CHECK_DEADLOCK FALSE
